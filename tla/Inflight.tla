------------------------------ MODULE Inflight ------------------------------
(***************************************************************************)
(* The tracker of in-flight requests (internal/server/inflight.go), its    *)
(* outbox and publisher, and a client of handleAPIEvents                   *)
(* (internal/server/apigroup.go) that follows it.                          *)
(*                                                                         *)
(* An entry is abstracted to its version, the number of changes made to it *)
(* so far, and 0 when the request is not in the map.  An update is a       *)
(* partial function from requests to versions: an upsert or a remove has   *)
(* one request in its domain, a snapshot all of them.                      *)
(***************************************************************************)
EXTENDS Naturals, Sequences, FiniteSets

CONSTANTS
    Requests,       \* requests, each tracked once
    OutboxSize,     \* capacity of t.updates
    UICap,          \* capacity of a client's sendBuffer
    MaxVersion,     \* bound: changes of each entry
    Goroutines      \* bound: publishUpdates goroutines that exist at once

ASSUME InflightAssumption ==
    /\ {OutboxSize, UICap} \subseteq Nat \ {0}
    /\ MaxVersion \in [Requests -> Nat \ {0}]
    /\ Goroutines # {}

VARIABLES
    entry,          \* t.requests
    rpc,            \* the request: "idle", "open", "answers" once it wrote a header, "closed"
    timer,          \* req.timer is set
    holder,         \* t.mu: "free", or what its holder does next in enqueueLocked
    updates,        \* the outbox
    needsSnapshot,
    running,        \* publisherRunning
    ppc, hand,      \* the publisher goroutines and the update each is to publish
    emitted,        \* ghost: what all published updates make of the requests
    overflowed,     \* ghost: an update was ever dropped
    cpc,            \* the client: "off", "computes", "sends" its first snapshot, "streams"
    first,          \* the snapshot it computed
    sendBuffer,
    view,           \* what the client makes of what it was sent
    missed          \* ghost: an update did not reach it, or overtook its snapshot

trackerVars == <<entry, rpc, timer>>
outboxVars == <<holder, updates, needsSnapshot, running, overflowed>>
publisherVars == <<ppc, hand, emitted>>
clientVars == <<cpc, first, sendBuffer, view, missed>>
vars == <<trackerVars, outboxVars, publisherVars, clientVars>>

None == [r \in Requests |-> 0]
NoUpdate == <<>>
Update(r, version) == [x \in {r} |-> version]
Apply(update, to) ==
    [r \in Requests |-> IF r \in DOMAIN update THEN update[r] ELSE to[r]]

TypeOK ==
    /\ \A r \in Requests : {entry[r], emitted[r], view[r]} \subseteq 0 .. MaxVersion[r]
    /\ rpc \in [Requests -> {"idle", "open", "answers", "closed"}]
    /\ timer \in [Requests -> BOOLEAN]
    /\ holder \in {"free", "marks", "starts"}
    /\ Len(updates) <= OutboxSize
    /\ {needsSnapshot, running, overflowed, missed} \subseteq BOOLEAN
    /\ ppc \in [Goroutines -> {"none", "select", "emits", "swaps", "discards",
                               "snapshots", "idles", "rechecks", "reclaims"}]
    /\ cpc \in {"off", "computes", "sends", "streams"}
    /\ Len(sendBuffer) <= UICap

-----------------------------------------------------------------------------
(* enqueueLocked, from the critical section of the caller to its end: the  *)
(* send is tried, a failure is marked, the publisher is started.           *)

Enqueue(update) ==
    /\ holder = "free"
    /\ IF Len(updates) < OutboxSize
         THEN /\ updates' = Append(updates, update)
              /\ holder' = "starts"
         ELSE /\ holder' = "marks"
              /\ UNCHANGED updates
    /\ UNCHANGED <<needsSnapshot, running, overflowed, publisherVars, clientVars>>

MarkOverflow ==
    /\ holder = "marks"
    /\ needsSnapshot' = TRUE
    /\ overflowed' = TRUE
    /\ holder' = "starts"
    /\ UNCHANGED <<trackerVars, updates, running, publisherVars, clientVars>>

Free == {g \in Goroutines : ppc[g] = "none"}

(* startPublisher; then the caller unlocks.                                *)
StartPublisher ==
    /\ holder = "starts"
    /\ holder' = "free"
    /\ IF running
         THEN UNCHANGED <<running, ppc>>
         ELSE /\ Free # {}
              /\ running' = TRUE
              /\ ppc' = [ppc EXCEPT ![CHOOSE g \in Free : TRUE] = "select"]
    /\ UNCHANGED <<trackerVars, updates, needsSnapshot, overflowed, hand, emitted, clientVars>>

-----------------------------------------------------------------------------
(* The request path: CreateInflightMiddleware and its response writer.     *)

Changed(r) == [entry EXCEPT ![r] = @ + 1]
Upsert(r) == Update(r, entry[r] + 1)

Add(r) ==
    /\ rpc[r] = "idle"
    /\ entry' = Changed(r)
    /\ Enqueue(Upsert(r))
    /\ rpc' = [rpc EXCEPT ![r] = "open"]
    /\ UNCHANGED timer

(* The first WriteHeader, Write or Flush.                                  *)
SetResponseHeaders(r) ==
    /\ rpc[r] = "open" /\ entry[r] < MaxVersion[r]
    /\ entry' = Changed(r)
    /\ Enqueue(Upsert(r))
    /\ rpc' = [rpc EXCEPT ![r] = "answers"]
    /\ UNCHANGED timer

(* The last update is old enough, or there is to be one at its time.       *)
AddResponseBytes(r) ==
    /\ rpc[r] = "answers" /\ entry[r] < MaxVersion[r]
    /\ holder = "free"
    /\ entry' = Changed(r)
    /\ \/ /\ ~timer[r]
          /\ Enqueue(Upsert(r))
          /\ UNCHANGED timer
       \/ /\ timer' = [timer EXCEPT ![r] = TRUE]
          /\ UNCHANGED <<outboxVars, publisherVars, clientVars>>
    /\ UNCHANGED rpc

(* The timer's goroutine.                                                  *)
EmitPending(r) ==
    /\ timer[r]
    /\ timer' = [timer EXCEPT ![r] = FALSE]
    /\ Enqueue(Update(r, entry[r]))
    /\ UNCHANGED <<entry, rpc>>

(* The handler returned, whether or not it answered.                       *)
Remove(r) ==
    /\ rpc[r] \in {"open", "answers"}
    /\ entry' = [entry EXCEPT ![r] = 0]
    /\ timer' = [timer EXCEPT ![r] = FALSE]
    /\ Enqueue(Update(r, 0))
    /\ rpc' = [rpc EXCEPT ![r] = "closed"]

RequestStep(r) ==
    \/ Add(r) \/ SetResponseHeaders(r) \/ AddResponseBytes(r)
    \/ EmitPending(r) \/ Remove(r)

-----------------------------------------------------------------------------
(* publishUpdates.                                                         *)

GoesTo(g, pc) == ppc' = [ppc EXCEPT ![g] = pc]

Select(g) ==
    /\ ppc[g] = "select"
    /\ IF updates # <<>>
         THEN /\ hand' = [hand EXCEPT ![g] = Head(updates)]
              /\ updates' = Tail(updates)
              /\ GoesTo(g, "emits")
         ELSE /\ GoesTo(g, "idles")
              /\ UNCHANGED <<hand, updates>>
    /\ UNCHANGED <<trackerVars, holder, needsSnapshot, running, overflowed, emitted, clientVars>>

(* send of handleAPIEvents, by the handler or the callback                  *)
Buffered(update) ==
    IF Len(sendBuffer) < UICap
      THEN sendBuffer' = Append(sendBuffer, update) /\ UNCHANGED missed
      ELSE missed' = TRUE /\ UNCHANGED sendBuffer

(* event.Emit, and the callback of a client that has subscribed: the bus    *)
(* keeps the order, so what it delays is delayed here with its publisher.   *)
Emit(g) ==
    /\ ppc[g] = "emits"
    /\ emitted' = Apply(hand[g], emitted)
    /\ CASE cpc = "off" -> UNCHANGED <<sendBuffer, missed>>
         [] cpc = "sends" /\ Len(sendBuffer) < UICap ->
              /\ sendBuffer' = Append(sendBuffer, hand[g])
              /\ missed' = TRUE
         [] OTHER -> Buffered(hand[g])
    /\ hand' = [hand EXCEPT ![g] = NoUpdate]
    /\ GoesTo(g, "swaps")
    /\ UNCHANGED <<trackerVars, outboxVars, cpc, first, view>>

(* Seeded bug: what is still in the outbox is left there.                  *)
SwapKeepsQueue(g) ==
    /\ ppc[g] = "swaps"
    /\ needsSnapshot' = FALSE
    /\ GoesTo(g, IF needsSnapshot THEN "snapshots" ELSE "select")
    /\ UNCHANGED <<trackerVars, holder, updates, running, overflowed, hand, emitted, clientVars>>

(* publishRecoverySnapshots: needsSnapshot.Swap(false)                     *)
Swap(g) ==
    /\ ppc[g] = "swaps"
    /\ needsSnapshot' = FALSE
    /\ GoesTo(g, IF needsSnapshot THEN "discards" ELSE "select")
    /\ UNCHANGED <<trackerVars, holder, updates, running, overflowed, hand, emitted, clientVars>>

(* discardQueuedUpdates, one at a time                                     *)
Discard(g) ==
    /\ ppc[g] = "discards"
    /\ IF updates # <<>>
         THEN /\ updates' = Tail(updates)
              /\ UNCHANGED ppc
         ELSE /\ GoesTo(g, "snapshots")
              /\ UNCHANGED updates
    /\ UNCHANGED <<trackerVars, holder, needsSnapshot, running, overflowed, hand, emitted, clientVars>>

(* Current takes the read lock.                                            *)
Snapshot(g) ==
    /\ ppc[g] = "snapshots" /\ holder = "free"
    /\ hand' = [hand EXCEPT ![g] = entry]
    /\ GoesTo(g, "emits")
    /\ UNCHANGED <<trackerVars, outboxVars, emitted, clientVars>>

(* Seeded bug: the outbox is not looked at again.                          *)
IdleForGood(g) ==
    /\ ppc[g] = "idles"
    /\ running' = FALSE
    /\ GoesTo(g, "none")
    /\ UNCHANGED <<trackerVars, holder, updates, needsSnapshot, overflowed, hand, emitted, clientVars>>

Idle(g) ==
    /\ ppc[g] = "idles"
    /\ running' = FALSE
    /\ GoesTo(g, "rechecks")
    /\ UNCHANGED <<trackerVars, holder, updates, needsSnapshot, overflowed, hand, emitted, clientVars>>

Recheck(g) ==
    /\ ppc[g] = "rechecks"
    /\ GoesTo(g, IF updates # <<>> THEN "reclaims" ELSE "none")
    /\ UNCHANGED <<trackerVars, outboxVars, hand, emitted, clientVars>>

Reclaim(g) ==
    /\ ppc[g] = "reclaims"
    /\ running' = TRUE
    /\ GoesTo(g, IF running THEN "none" ELSE "select")
    /\ UNCHANGED <<trackerVars, holder, updates, needsSnapshot, overflowed, hand, emitted, clientVars>>

PublisherStep(g) ==
    \/ Select(g) \/ Emit(g) \/ Swap(g) \/ Discard(g) \/ Snapshot(g)
    \/ Idle(g) \/ Recheck(g) \/ Reclaim(g)

-----------------------------------------------------------------------------
(* The client of handleAPIEvents.                                          *)

ClientSubscribes ==
    /\ cpc = "off"
    /\ cpc' = "computes"
    /\ UNCHANGED <<trackerVars, outboxVars, publisherVars, first, sendBuffer, view, missed>>

(* s.inflight.Current(), and then the marshalling                          *)
ClientComputes ==
    /\ cpc = "computes" /\ holder = "free"
    /\ first' = entry
    /\ cpc' = "sends"
    /\ UNCHANGED <<trackerVars, outboxVars, publisherVars, sendBuffer, view, missed>>

ClientSendsFirst ==
    /\ cpc = "sends"
    /\ Buffered(first)
    /\ first' = NoUpdate
    /\ cpc' = "streams"
    /\ UNCHANGED <<trackerVars, outboxVars, publisherVars, view>>

(* The handler writes to the client, and the client applies it.  A stalled *)
(* client reads nothing.                                                   *)
ClientReads ==
    /\ cpc = "streams" /\ sendBuffer # <<>>
    /\ view' = Apply(Head(sendBuffer), view)
    /\ sendBuffer' = Tail(sendBuffer)
    /\ UNCHANGED <<trackerVars, outboxVars, publisherVars, cpc, first, missed>>

ClientStep ==
    \/ ClientSubscribes \/ ClientComputes \/ ClientSendsFirst
    \/ ClientReads

-----------------------------------------------------------------------------
Init ==
    /\ entry = None
    /\ rpc = [r \in Requests |-> "idle"]
    /\ timer = [r \in Requests |-> FALSE]
    /\ holder = "free" /\ updates = <<>>
    /\ needsSnapshot = FALSE /\ running = FALSE /\ overflowed = FALSE
    /\ ppc = [g \in Goroutines |-> "none"]
    /\ hand = [g \in Goroutines |-> NoUpdate]
    /\ emitted = None
    /\ cpc = "off" /\ first = NoUpdate
    /\ sendBuffer = <<>> /\ view = None /\ missed = FALSE

Next ==
    \/ \E r \in Requests : RequestStep(r)
    \/ MarkOverflow \/ StartPublisher
    \/ \E g \in Goroutines : PublisherStep(g)
    \/ ClientStep

Spec == Init /\ [][Next]_vars

(* Goroutines that can go on do (the Go scheduler); requests, their timers *)
(* and the client do as they like.                                         *)
FairSpec ==
    /\ Spec
    /\ WF_vars(MarkOverflow) /\ WF_vars(StartPublisher)
    /\ \A g \in Goroutines : WF_vars(PublisherStep(g))

-----------------------------------------------------------------------------
(* Properties.                                                             *)

Quiet ==
    /\ holder = "free" /\ updates = <<>>
    /\ \A g \in Goroutines : ppc[g] = "none"
    /\ \A r \in Requests : ~timer[r]

(* Once the publisher is idle and no snapshot is owed, what was published  *)
(* adds up to the requests there are: drops, discards and snapshots lose   *)
(* no change and bring back no request (inflight.go enqueueLocked,         *)
(* publishRecoverySnapshots).                                              *)
EmittedExact == Quiet /\ ~needsSnapshot => emitted = entry

(* ... and so does what a client was sent, if every update reached it and  *)
(* none overtook its first snapshot: it subscribes before it reads the     *)
(* requests, so no change falls in between (handleAPIEvents).              *)
ClientExact ==
    Quiet /\ ~needsSnapshot /\ cpc = "streams" /\ sendBuffer = <<>> /\ ~missed
        => view = entry

(* Until the outbox overflows, updates are published in the order in which *)
(* they were applied: no entry goes back to an older version, and none     *)
(* comes back after its removal ("request updates keep the same order in   *)
(* which they were applied", inflight.go:52).                              *)
OrderKept ==
    [][~overflowed' => \A r \in Requests :
          emitted'[r] # emitted[r] =>
              emitted'[r] > emitted[r] \/ (emitted'[r] = 0 /\ rpc[r] = "closed")]_vars

Publishing(g) == ppc[g] \in {"select", "emits", "swaps", "discards", "snapshots", "idles"}

(* One goroutine publishes at a time, however the start of a publisher by  *)
(* a request and the return of the last one to its work interleave         *)
(* (startPublisher and the recheck of publishUpdates).                     *)
OnePublisher ==
    /\ \A g, h \in Goroutines : Publishing(g) /\ Publishing(h) => g = h
    /\ running <=> \E g \in Goroutines : Publishing(g)

(* What is in the outbox has somebody to publish it: a publisher, or one   *)
(* that is about to look again, or the request that will start one.        *)
OutboxWatched ==
    updates # <<>> =>
        running \/ holder # "free" \/ \E g \in Goroutines : ppc[g] \in {"rechecks", "reclaims"}

(* Nothing stays in the outbox: an enqueue that races with the publisher   *)
(* going idle starts another, or the one that goes idle takes it back.     *)
OutboxDrains == updates # <<>> ~> updates = <<>>

(* A dropped update is made up for by a snapshot, without anything new     *)
(* having to happen ("On overflow, a later snapshot replaces any dropped   *)
(* incremental updates", inflight.go:181).                                 *)
SnapshotFollows == needsSnapshot ~> ~needsSnapshot

=============================================================================
