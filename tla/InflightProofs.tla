---------------------------- MODULE InflightProofs ----------------------------
(***************************************************************************)
(* The publisher of the in-flight tracker is started and goes idle without *)
(* a lock, and still there is one at a time and nothing stays in the       *)
(* outbox unseen: for any requests, any size of the outbox and any number  *)
(* of goroutines.                                                          *)
(*                                                                         *)
(* The second half is about what was published.  Behind the outbox, an     *)
(* entry is as the last update in it says, or as it was published last     *)
(* (UpToDate); an entry of which that is not true is one a timer, a lost   *)
(* update or a snapshot that is owed will still bring.                     *)
(***************************************************************************)
EXTENDS Inflight, TLAPS

PublisherTypes ==
    /\ holder \in {"free", "marks", "starts"}
    /\ running \in BOOLEAN
    /\ ppc \in [Goroutines -> {"none", "select", "emits", "swaps", "discards",
                               "snapshots", "idles", "rechecks", "reclaims"}]

PublisherInv == PublisherTypes /\ OnePublisher /\ OutboxWatched

(* What the invariant is about.                                            *)
shared == <<holder, updates, running, ppc>>

-----------------------------------------------------------------------------
(* The invariant holds when the tracker is made.                           *)
LEMMA PublisherStarts == Init => PublisherInv
  BY DEF Init, PublisherInv, PublisherTypes, OnePublisher, OutboxWatched, Publishing

(* enqueueLocked (inflight.go): whoever has sent an update holds the mutex *)
(* until it has made sure that there is a publisher.                       *)
LEMMA EnqueueKeeps ==
    ASSUME NEW update, PublisherInv, Enqueue(update)
    PROVE  PublisherInv'
  BY DEF PublisherInv, PublisherTypes, OnePublisher, OutboxWatched, Publishing,
         Enqueue, publisherVars

(* A request's step that does not enqueue leaves all of it alone.          *)
LEMMA RequestKeeps ==
    ASSUME NEW r \in Requests, PublisherInv, RequestStep(r)
    PROVE  PublisherInv'
<1>1. (\E update : Enqueue(update)) \/ UNCHANGED shared
  BY DEF RequestStep, Add, SetResponseHeaders, AddResponseBytes, EmitPending,
         Remove, shared, outboxVars, publisherVars
<1>2. CASE UNCHANGED shared
  BY <1>2 DEF shared, PublisherInv, PublisherTypes, OnePublisher, OutboxWatched, Publishing
<1> QED
  BY <1>1, <1>2, EnqueueKeeps

(* The overflow is marked under the same lock.                             *)
LEMMA MarkKeeps ==
    ASSUME PublisherInv, MarkOverflow
    PROVE  PublisherInv'
  BY DEF PublisherInv, PublisherTypes, OnePublisher, OutboxWatched, Publishing,
         MarkOverflow, publisherVars

(* startPublisher (inflight.go): the compare-and-swap lets one goroutine   *)
(* start only when none publishes.                                         *)
LEMMA StartKeeps ==
    ASSUME PublisherInv, StartPublisher
    PROVE  PublisherInv'
<1>1. CASE running
  BY <1>1 DEF PublisherInv, PublisherTypes, OnePublisher, OutboxWatched, Publishing,
              StartPublisher
<1>2. CASE ~running
  <2> DEFINE g == CHOOSE h \in Free : TRUE
  <2>1. g \in Goroutines
    BY <1>2 DEF StartPublisher, Free
  <2>2. holder' = "free" /\ running' = TRUE /\ ppc' = [ppc EXCEPT ![g] = "select"]
    BY <1>2 DEF StartPublisher
  <2>3. \A h \in Goroutines : ~Publishing(h)
    BY <1>2 DEF PublisherInv, OnePublisher
  <2> HIDE DEF g
  <2>4. PublisherTypes'
    BY <2>1, <2>2 DEF PublisherInv, PublisherTypes
  <2>5. \A h \in Goroutines : Publishing(h)' <=> h = g
    BY <2>1, <2>2, <2>3 DEF PublisherInv, PublisherTypes, Publishing
  <2>6. OnePublisher'
    BY <2>1, <2>2, <2>5 DEF OnePublisher
  <2>7. OutboxWatched'
    BY <2>2 DEF OutboxWatched
  <2> QED
    BY <2>4, <2>6, <2>7 DEF PublisherInv
<1> QED
  BY <1>1, <1>2

(* publishUpdates (inflight.go), while it publishes: it goes idle only     *)
(* when it found the outbox empty.                                         *)
LEMMA WorkKeeps ==
    ASSUME NEW g \in Goroutines, PublisherInv,
           Select(g) \/ Emit(g) \/ Swap(g) \/ Discard(g) \/ Snapshot(g)
    PROVE  PublisherInv'
<1>1. /\ Publishing(g)
      /\ holder' = holder /\ running' = running
      /\ \E pc \in {"select", "emits", "swaps", "discards", "snapshots", "idles"} :
            ppc' = [ppc EXCEPT ![g] = pc]
  <2>1. CASE Select(g)
    BY <2>1 DEF Select, GoesTo, Publishing
  <2>2. CASE Emit(g)
    BY <2>2 DEF Emit, GoesTo, Publishing, outboxVars
  <2>3. CASE Swap(g)
    BY <2>3 DEF Swap, GoesTo, Publishing
  <2>4. CASE Discard(g)
    <3>1. ppc' = ppc \/ ppc' = [ppc EXCEPT ![g] = "snapshots"]
      BY <2>4 DEF Discard, GoesTo
    <3>2. ppc = [ppc EXCEPT ![g] = "discards"]
      BY <2>4 DEF Discard, PublisherInv, PublisherTypes
    <3> QED
      BY <2>4, <3>1, <3>2 DEF Discard, Publishing
  <2>5. CASE Snapshot(g)
    BY <2>5 DEF Snapshot, GoesTo, Publishing, outboxVars
  <2> QED
    BY <2>1, <2>2, <2>3, <2>4, <2>5
<1>2. PublisherTypes'
  BY <1>1 DEF PublisherInv, PublisherTypes
<1>3. \A h \in Goroutines : Publishing(h)' <=> Publishing(h)
  BY <1>1 DEF PublisherInv, PublisherTypes, Publishing
<1>4. running
  BY <1>1 DEF PublisherInv, OnePublisher
<1>5. OnePublisher'
  BY <1>1, <1>3 DEF PublisherInv, OnePublisher
<1>6. OutboxWatched'
  BY <1>1, <1>4 DEF OutboxWatched
<1> QED
  BY <1>2, <1>5, <1>6 DEF PublisherInv

(* ... it gives up running, and looks at the outbox once more.             *)
LEMMA IdleKeeps ==
    ASSUME NEW g \in Goroutines, PublisherInv, Idle(g)
    PROVE  PublisherInv'
<1>1. ppc[g] = "idles" /\ running' = FALSE /\ ppc' = [ppc EXCEPT ![g] = "rechecks"]
  BY DEF Idle, GoesTo
<1>2. \A h \in Goroutines : Publishing(h) => h = g
  BY <1>1 DEF PublisherInv, OnePublisher, Publishing
<1>3. PublisherTypes'
  BY <1>1 DEF PublisherInv, PublisherTypes, Idle
<1>4. \A h \in Goroutines : ~Publishing(h)'
  BY <1>1, <1>2 DEF PublisherInv, PublisherTypes, Publishing
<1>5. OnePublisher'
  BY <1>1, <1>4 DEF OnePublisher
<1>6. OutboxWatched'
  BY <1>1 DEF PublisherInv, PublisherTypes, OutboxWatched
<1> QED
  BY <1>3, <1>5, <1>6 DEF PublisherInv

(* What came in the meantime is seen.                                      *)
LEMMA RecheckKeeps ==
    ASSUME NEW g \in Goroutines, PublisherInv, Recheck(g)
    PROVE  PublisherInv'
<1>1. /\ ppc[g] = "rechecks"
      /\ holder' = holder /\ running' = running /\ updates' = updates
      /\ ppc' = [ppc EXCEPT ![g] = IF updates # <<>> THEN "reclaims" ELSE "none"]
  BY DEF Recheck, GoesTo, outboxVars
<1>2. PublisherTypes'
  BY <1>1 DEF PublisherInv, PublisherTypes
<1>3. \A h \in Goroutines : Publishing(h)' <=> Publishing(h)
  BY <1>1 DEF PublisherInv, PublisherTypes, Publishing
<1>4. OnePublisher'
  BY <1>1, <1>3 DEF PublisherInv, OnePublisher
<1>5. OutboxWatched'
  BY <1>1 DEF PublisherInv, PublisherTypes, OutboxWatched
<1> QED
  BY <1>2, <1>4, <1>5 DEF PublisherInv

(* The one that saw it goes on, unless another was started.                *)
LEMMA ReclaimKeeps ==
    ASSUME NEW g \in Goroutines, PublisherInv, Reclaim(g)
    PROVE  PublisherInv'
<1>1. /\ ppc[g] = "reclaims" /\ holder' = holder /\ running' = TRUE
      /\ ppc' = [ppc EXCEPT ![g] = IF running THEN "none" ELSE "select"]
  BY DEF Reclaim, GoesTo
<1>2. PublisherTypes'
  BY <1>1 DEF PublisherInv, PublisherTypes
<1>3. CASE running
  <2>1. \A h \in Goroutines : Publishing(h)' <=> Publishing(h)
    BY <1>1, <1>3 DEF PublisherInv, PublisherTypes, Publishing
  <2> QED
    BY <1>1, <1>2, <1>3, <2>1 DEF PublisherInv, OnePublisher, OutboxWatched
<1>4. CASE ~running
  <2>1. \A h \in Goroutines : Publishing(h)' <=> h = g
    BY <1>1, <1>4 DEF PublisherInv, PublisherTypes, OnePublisher, Publishing
  <2> QED
    BY <1>1, <1>2, <2>1 DEF PublisherInv, OnePublisher, OutboxWatched
<1> QED
  BY <1>3, <1>4

(* No step loses the invariant.                                            *)
LEMMA PublisherSteps == PublisherInv /\ [Next]_vars => PublisherInv'
<1> SUFFICES ASSUME PublisherInv, [Next]_vars PROVE PublisherInv'
  OBVIOUS
<1>1. CASE \E r \in Requests : RequestStep(r)
  BY <1>1, RequestKeeps
<1>2. CASE MarkOverflow \/ StartPublisher
  BY <1>2, MarkKeeps, StartKeeps
<1>3. CASE \E g \in Goroutines : PublisherStep(g)
  BY <1>3, WorkKeeps, IdleKeeps, RecheckKeeps, ReclaimKeeps DEF PublisherStep
<1>4. CASE ClientStep \/ UNCHANGED vars
  <2>1. UNCHANGED shared
    BY <1>4 DEF ClientStep, ClientSubscribes, ClientComputes, ClientSendsFirst,
                ClientReads, vars, outboxVars, publisherVars, shared
  <2> QED
    BY <2>1 DEF shared, PublisherInv, PublisherTypes, OnePublisher, OutboxWatched, Publishing
<1> QED
  BY <1>1, <1>2, <1>3, <1>4 DEF Next

(* However the start of a publisher by a request and the return of the     *)
(* last one to its work interleave, one goroutine publishes at a time      *)
(* (startPublisher and publishUpdates).                                    *)
THEOREM PublishersExclusive == Spec => []OnePublisher
<1>1. PublisherInv => OnePublisher
  BY DEF PublisherInv
<1> QED
  BY <1>1, PublisherStarts, PublisherSteps, PTL DEF Spec

(* What is in the outbox has somebody to publish it (enqueueLocked, and    *)
(* the second look of publishUpdates).                                     *)
THEOREM NothingForgotten == Spec => []OutboxWatched
<1>1. PublisherInv => OutboxWatched
  BY DEF PublisherInv
<1> QED
  BY <1>1, PublisherStarts, PublisherSteps, PTL DEF Spec

-----------------------------------------------------------------------------
(* What is published adds up.                                              *)

(* An update speaks of some requests, and gives each a version.            *)
Updates == UNION {[D -> Nat] : D \in SUBSET Requests}

ContentTypes ==
    /\ entry \in [Requests -> Nat] /\ emitted \in [Requests -> Nat]
    /\ timer \in [Requests -> BOOLEAN]
    /\ updates \in Seq(Updates)
    /\ DOMAIN hand = Goroutines
    /\ \A g \in Goroutines : ppc[g] = "emits" => hand[g] \in Updates

(* Something was dropped and no publisher has begun to make up for it.     *)
Lost == needsSnapshot \/ holder = "marks"

Discarding == \E g \in Goroutines : ppc[g] = "discards"
Recovering == \E g \in Goroutines : ppc[g] \in {"discards", "snapshots"}

Mentioned(r) == \E k \in 1..Len(updates) : r \in DOMAIN updates[k]
InHand(r) == \E g \in Goroutines : ppc[g] = "emits" /\ r \in DOMAIN hand[g]

(* The last update in the outbox about a request has its present version.  *)
LastIsRight(r) ==
    \A k \in 1..Len(updates) :
        r \in DOMAIN updates[k] /\ (\A j \in (k + 1)..Len(updates) : r \notin DOMAIN updates[j])
            => updates[k][r] = entry[r]

(* What the outbox does not speak of is published, or about to be.         *)
RestIsRight(r) ==
    /\ \A g \in Goroutines :
         ppc[g] = "emits" /\ r \in DOMAIN hand[g] => hand[g][r] = entry[r]
    /\ ~InHand(r) => emitted[r] = entry[r]

(* A request is up to date along the way to its readers, or will be: by    *)
(* its timer, or by the snapshot that is owed.                             *)
UpToDate ==
    \A r \in Requests :
        /\ timer[r] \/ Lost \/ Discarding \/ LastIsRight(r)
        /\ timer[r] \/ Lost \/ Recovering \/ Mentioned(r) \/ RestIsRight(r)

ContentInv == PublisherInv /\ ContentTypes /\ UpToDate

(* Nothing is published yet, and there is nothing to publish.              *)
LEMMA ContentStarts == Init => ContentInv
<1> SUFFICES ASSUME Init
             PROVE  ContentInv
  OBVIOUS
<1>1. ContentTypes
  BY DEF Init, ContentTypes, None
<1>2. UpToDate
  BY DEF Init, UpToDate, LastIsRight, RestIsRight, InHand, None
<1> QED BY <1>1, <1>2, PublisherStarts DEF ContentInv

(* An update of one request.                                               *)
LEMMA SingleUpdate ==
    ASSUME NEW r \in Requests, NEW v \in Nat
    PROVE  Update(r, v) \in Updates /\ DOMAIN Update(r, v) = {r} /\ Update(r, v)[r] = v
<1>1. Update(r, v) \in [{r} -> Nat] /\ {r} \in SUBSET Requests
  BY DEF Update
<1> QED BY <1>1 DEF Updates, Update

(* enqueueLocked (inflight.go) for a request that may have changed, and no *)
(* other: the outbox ends with its present version, or an update is lost.  *)
LEMMA EnqueueBrings ==
    ASSUME ContentInv, NEW r \in Requests, NEW v \in Nat, Enqueue(Update(r, v)),
           entry' \in [Requests -> Nat], timer' \in [Requests -> BOOLEAN],
           \A q \in Requests : q # r => entry'[q] = entry[q] /\ timer'[q] = timer[q],
           entry'[r] = v
    PROVE  ContentInv'
<1> DEFINE u == Update(r, v)
<1>1. PublisherInv'
  BY EnqueueKeeps DEF ContentInv
<1>2. /\ UNCHANGED <<needsSnapshot, ppc, hand, emitted>>
      /\ updates \in Seq(Updates) /\ u \in Updates /\ DOMAIN u = {r} /\ u[r] = v
  BY SingleUpdate DEF Enqueue, publisherVars, ContentInv, ContentTypes
<1>3. (updates' = Append(updates, u) /\ holder' = "starts") \/ (updates' = updates /\ holder' = "marks")
  BY DEF Enqueue
<1>4. holder = "free"
  BY DEF Enqueue
<1> HIDE DEF u
<1>5. ContentTypes'
  <2>1. updates' \in Seq(Updates)
    BY <1>2, <1>3
  <2> QED BY <1>2, <2>1 DEF ContentInv, ContentTypes
<1>6. CASE holder' = "marks"
  BY <1>1, <1>5, <1>6 DEF ContentInv, UpToDate, Lost
<1>7. CASE updates' = Append(updates, u) /\ holder' = "starts"
  <2>1. /\ Len(updates) \in Nat /\ Len(updates') = Len(updates) + 1
        /\ updates'[Len(updates) + 1] = u /\ \A k \in 1..Len(updates) : updates'[k] = updates[k]
    BY <1>2, <1>7
  <2>2. (Discarding' <=> Discarding) /\ (Recovering' <=> Recovering) /\ (Lost' <=> Lost)
    BY <1>2, <1>4, <1>7 DEF Discarding, Recovering, Lost
  <2>3. Len(updates) + 1 \in 1..Len(updates')
    BY <2>1
  <2>4. Mentioned(r)'
    BY <1>2, <2>1, <2>3 DEF Mentioned
  <2>5. LastIsRight(r)'
    <3> SUFFICES ASSUME NEW k \in 1..Len(updates'), r \in DOMAIN updates'[k],
                        \A j \in (k + 1)..Len(updates') : r \notin DOMAIN updates'[j]
                 PROVE  updates'[k][r] = entry'[r]
      BY DEF LastIsRight
    <3>1. k = Len(updates) + 1
      <4> SUFFICES ASSUME k # Len(updates) + 1
                   PROVE  FALSE
        OBVIOUS
      <4>1. Len(updates) + 1 \in (k + 1)..Len(updates')
        BY <2>1
      <4>2. r \notin DOMAIN updates'[Len(updates) + 1]
        BY <4>1
      <4> QED BY <1>2, <2>1, <4>2
    <3> QED BY <1>2, <2>1, <3>1
  <2>6. ASSUME NEW q \in Requests, q # r
        PROVE  /\ LastIsRight(q) => LastIsRight(q)'
               /\ Mentioned(q) => Mentioned(q)'
               /\ RestIsRight(q) => RestIsRight(q)'
    <3>1. entry'[q] = entry[q] /\ q \notin DOMAIN u
      BY <1>2, <2>6
    <3>2. RestIsRight(q) => RestIsRight(q)'
      BY <1>2, <3>1 DEF RestIsRight, InHand
    <3>3. Mentioned(q) => Mentioned(q)'
      BY <2>1 DEF Mentioned
    <3>4. ASSUME LastIsRight(q)
          PROVE  LastIsRight(q)'
      <4> SUFFICES ASSUME NEW k \in 1..Len(updates'), q \in DOMAIN updates'[k],
                          \A j \in (k + 1)..Len(updates') : q \notin DOMAIN updates'[j]
                   PROVE  updates'[k][q] = entry'[q]
        BY DEF LastIsRight
      <4>1. k # Len(updates) + 1
        BY <2>1, <3>1
      <4>2. k \in 1..Len(updates) /\ q \in DOMAIN updates[k]
        BY <2>1, <4>1
      <4>3. \A j \in (k + 1)..Len(updates) : q \notin DOMAIN updates[j]
        <5> SUFFICES ASSUME NEW j \in (k + 1)..Len(updates)
                     PROVE  q \notin DOMAIN updates[j]
          OBVIOUS
        <5>1. j \in (k + 1)..Len(updates') /\ j \in 1..Len(updates)
          BY <2>1, <4>2
        <5> QED BY <2>1, <5>1
      <4> QED BY <2>1, <3>1, <3>4, <4>2, <4>3 DEF LastIsRight
    <3> QED BY <3>2, <3>3, <3>4
  <2>7. UpToDate'
    BY <2>2, <2>4, <2>5, <2>6 DEF ContentInv, UpToDate
  <2> QED BY <1>1, <1>5, <2>7 DEF ContentInv
<1> QED BY <1>3, <1>6, <1>7

(* A request's steps: what changes is enqueued, or left to the timer.      *)
LEMMA RequestBrings ==
    ASSUME NEW r \in Requests, ContentInv, RequestStep(r)
    PROVE  ContentInv'
<1>1. entry \in [Requests -> Nat] /\ timer \in [Requests -> BOOLEAN] /\ 0 \in Nat
      /\ entry[r] \in Nat /\ entry[r] + 1 \in Nat
  BY DEF ContentInv, ContentTypes
<1>2. CASE Add(r) \/ SetResponseHeaders(r)
  <2>1. /\ Enqueue(Update(r, entry[r] + 1)) /\ timer' = timer
        /\ entry' = [entry EXCEPT ![r] = @ + 1]
    BY <1>2 DEF Add, SetResponseHeaders, Changed, Upsert
  <2> QED BY <1>1, <2>1, EnqueueBrings
<1>3. CASE EmitPending(r)
  <2>1. /\ Enqueue(Update(r, entry[r])) /\ timer' = [timer EXCEPT ![r] = FALSE] /\ entry' = entry
    BY <1>3 DEF EmitPending
  <2> QED BY <1>1, <2>1, EnqueueBrings
<1>4. CASE Remove(r)
  <2>1. /\ Enqueue(Update(r, 0)) /\ timer' = [timer EXCEPT ![r] = FALSE]
        /\ entry' = [entry EXCEPT ![r] = 0]
    BY <1>4 DEF Remove
  <2> QED BY <1>1, <2>1, EnqueueBrings
<1>5. CASE AddResponseBytes(r)
  <2>1. entry' = [entry EXCEPT ![r] = @ + 1]
    BY <1>5 DEF AddResponseBytes, Changed
  <2>2. CASE Enqueue(Update(r, entry[r] + 1)) /\ timer' = timer
    BY <1>1, <2>1, <2>2, EnqueueBrings
  <2>3. CASE timer' = [timer EXCEPT ![r] = TRUE] /\ UNCHANGED <<outboxVars, publisherVars>>
    <3>1. UNCHANGED <<holder, updates, needsSnapshot, running, ppc, hand, emitted>>
      BY <2>3 DEF outboxVars, publisherVars
    <3>2. timer'[r] /\ \A q \in Requests : q # r => entry'[q] = entry[q] /\ timer'[q] = timer[q]
      BY <1>1, <2>1, <2>3
    <3>3. ContentTypes'
      BY <1>1, <2>1, <2>3, <3>1 DEF ContentInv, ContentTypes
    <3>4. PublisherInv'
      BY <3>1 DEF ContentInv, PublisherInv, PublisherTypes, OnePublisher, OutboxWatched, Publishing
    <3>5. (Lost' <=> Lost) /\ (Discarding' <=> Discarding) /\ (Recovering' <=> Recovering)
      BY <3>1 DEF Lost, Discarding, Recovering
    <3>6. ASSUME NEW q \in Requests, q # r
          PROVE  /\ LastIsRight(q) => LastIsRight(q)'
                 /\ Mentioned(q) => Mentioned(q)'
                 /\ RestIsRight(q) => RestIsRight(q)'
      BY <3>1, <3>2, <3>6 DEF LastIsRight, Mentioned, RestIsRight, InHand
    <3>7. UpToDate'
      BY <3>2, <3>5, <3>6 DEF ContentInv, UpToDate
    <3> QED BY <3>3, <3>4, <3>7 DEF ContentInv
  <2> QED BY <1>5, <2>2, <2>3 DEF AddResponseBytes, Upsert
<1> QED BY <1>2, <1>3, <1>4, <1>5 DEF RequestStep

(* A step that leaves the requests and the way to their readers alone      *)
(* leaves them as up to date as they were.                                 *)
LEMMA ContentKept ==
    ASSUME ContentInv, PublisherInv',
           UNCHANGED <<entry, timer, updates, hand, emitted>>,
           \A g \in Goroutines : ppc'[g] \in {"emits", "discards", "snapshots"} => ppc'[g] = ppc[g],
           \A g \in Goroutines : ppc[g] \in {"emits", "discards", "snapshots"} => ppc'[g] = ppc[g],
           Lost => Lost'
    PROVE  ContentInv'
<1>1. ContentTypes'
  BY DEF ContentInv, ContentTypes
<1>2. (Discarding' <=> Discarding) /\ (Recovering' <=> Recovering)
  BY DEF Discarding, Recovering
<1>3. ASSUME NEW r \in Requests
      PROVE  /\ LastIsRight(r)' <=> LastIsRight(r)
             /\ Mentioned(r)' <=> Mentioned(r)
             /\ RestIsRight(r) => RestIsRight(r)'
  <2>1. InHand(r)' <=> InHand(r)
    BY DEF InHand
  <2>2. RestIsRight(r) => RestIsRight(r)'
    BY <2>1 DEF RestIsRight
  <2> QED BY <2>2 DEF LastIsRight, Mentioned
<1>4. UpToDate'
  BY <1>2, <1>3 DEF ContentInv, UpToDate
<1> QED BY <1>1, <1>4 DEF ContentInv

(* The overflow is marked, a publisher started, or one goes idle or comes  *)
(* back.                                                                   *)
LEMMA RestKeepsContent ==
    ASSUME ContentInv,
           \/ MarkOverflow \/ StartPublisher
           \/ \E g \in Goroutines : Idle(g) \/ Recheck(g) \/ Reclaim(g)
    PROVE  ContentInv'
<1>1. PublisherInv'
  BY MarkKeeps, StartKeeps, IdleKeeps, RecheckKeeps, ReclaimKeeps DEF ContentInv
<1>2. ppc \in [Goroutines -> {"none", "select", "emits", "swaps", "discards",
                              "snapshots", "idles", "rechecks", "reclaims"}]
  BY DEF ContentInv, PublisherInv, PublisherTypes
<1>3. CASE MarkOverflow
  <2>1. Lost' /\ UNCHANGED <<entry, timer, updates, hand, emitted, ppc>>
    BY <1>3 DEF MarkOverflow, Lost, trackerVars, publisherVars
  <2> QED BY <1>1, <2>1, ContentKept
<1>4. CASE StartPublisher
  <2>1. UNCHANGED <<entry, timer, updates, hand, emitted, needsSnapshot>> /\ holder = "starts"
    BY <1>4 DEF StartPublisher, trackerVars
  <2>2. ppc' = ppc \/ \E g \in Free : ppc' = [ppc EXCEPT ![g] = "select"]
    BY <1>4 DEF StartPublisher
  <2>3. /\ \A g \in Goroutines : ppc'[g] \in {"emits", "discards", "snapshots"} => ppc'[g] = ppc[g]
        /\ \A g \in Goroutines : ppc[g] \in {"emits", "discards", "snapshots"} => ppc'[g] = ppc[g]
    BY <1>2, <2>2 DEF Free
  <2>4. Lost => Lost'
    BY <2>1 DEF Lost
  <2> QED BY <1>1, <2>1, <2>3, <2>4, ContentKept
<1>5. ASSUME NEW g \in Goroutines, Idle(g) \/ Recheck(g) \/ Reclaim(g)
      PROVE  ContentInv'
  <2>1. /\ UNCHANGED <<entry, timer, updates, hand, emitted, needsSnapshot, holder>>
        /\ ppc[g] \in {"idles", "rechecks", "reclaims"}
        /\ \E pc \in {"none", "select", "rechecks", "reclaims"} : ppc' = [ppc EXCEPT ![g] = pc]
    BY <1>5 DEF Idle, Recheck, Reclaim, GoesTo, trackerVars, outboxVars
  <2>2. /\ \A h \in Goroutines : ppc'[h] \in {"emits", "discards", "snapshots"} => ppc'[h] = ppc[h]
        /\ \A h \in Goroutines : ppc[h] \in {"emits", "discards", "snapshots"} => ppc'[h] = ppc[h]
    BY <1>2, <2>1
  <2>3. Lost => Lost'
    BY <2>1 DEF Lost
  <2> QED BY <1>1, <2>1, <2>2, <2>3, ContentKept
<1> QED BY <1>3, <1>4, <1>5

(* Who works is the only one to publish.                                   *)
LEMMA WorksAlone ==
    ASSUME ContentInv, NEW g \in Goroutines, Publishing(g), NEW h \in Goroutines, h # g
    PROVE  ppc[h] \notin {"select", "emits", "swaps", "discards", "snapshots"}
  BY DEF ContentInv, PublisherInv, OnePublisher, Publishing

(* What an update taken from the outbox leaves there.                      *)
LEMMA TailContent ==
    ASSUME ContentInv, updates # <<>>, updates' = Tail(updates), entry' = entry
    PROVE  /\ updates' \in Seq(Updates) /\ Head(updates) \in Updates
           /\ \A r \in Requests :
                /\ LastIsRight(r) => LastIsRight(r)'
                /\ Mentioned(r) => Mentioned(r)' \/ r \in DOMAIN Head(updates)
                /\ r \in DOMAIN Head(updates) /\ LastIsRight(r) /\ ~Mentioned(r)'
                     => Head(updates)[r] = entry[r]
<1>1. /\ updates \in Seq(Updates) /\ Len(updates) \in Nat /\ Len(updates) > 0
      /\ updates' \in Seq(Updates) /\ Len(updates') = Len(updates) - 1
      /\ Head(updates) = updates[1] /\ Head(updates) \in Updates
      /\ \A k \in 1..Len(updates') : updates'[k] = updates[k + 1]
  BY DEF ContentInv, ContentTypes
<1>2. \A k \in 1..Len(updates') : k + 1 \in 1..Len(updates)
  BY <1>1
<1>3. \A j \in 2..Len(updates) : j - 1 \in 1..Len(updates') /\ updates'[j - 1] = updates[j]
  BY <1>1
<1> SUFFICES ASSUME NEW r \in Requests
             PROVE  /\ LastIsRight(r) => LastIsRight(r)'
                    /\ Mentioned(r) => Mentioned(r)' \/ r \in DOMAIN updates[1]
                    /\ r \in DOMAIN updates[1] /\ LastIsRight(r) /\ ~Mentioned(r)'
                         => updates[1][r] = entry[r]
  BY <1>1
<1>4. ASSUME LastIsRight(r)
      PROVE  LastIsRight(r)'
  <2> SUFFICES ASSUME NEW k \in 1..Len(updates'), r \in DOMAIN updates'[k],
                      \A j \in (k + 1)..Len(updates') : r \notin DOMAIN updates'[j]
               PROVE  updates'[k][r] = entry[r]
    BY DEF LastIsRight
  <2>1. k + 1 \in 1..Len(updates) /\ r \in DOMAIN updates[k + 1]
    BY <1>1, <1>2
  <2>2. ASSUME NEW j \in (k + 2)..Len(updates)
        PROVE  r \notin DOMAIN updates[j]
    <3>1. j \in 2..Len(updates) /\ j - 1 \in (k + 1)..Len(updates')
      BY <1>1
    <3> QED BY <1>3, <3>1
  <2>3. (k + 1) + 1 = k + 2
    OBVIOUS
  <2> QED BY <1>1, <1>4, <2>1, <2>2, <2>3 DEF LastIsRight
<1>5. ASSUME Mentioned(r), r \notin DOMAIN updates[1]
      PROVE  Mentioned(r)'
  <2>1. PICK k \in 1..Len(updates) : r \in DOMAIN updates[k]
    BY <1>5 DEF Mentioned
  <2>2. k \in 2..Len(updates)
    BY <1>1, <1>5, <2>1
  <2> QED BY <1>3, <2>1, <2>2 DEF Mentioned
<1>6. ASSUME r \in DOMAIN updates[1], LastIsRight(r), ~Mentioned(r)'
      PROVE  updates[1][r] = entry[r]
  <2>1. \A j \in 2..Len(updates) : r \notin DOMAIN updates[j]
    BY <1>3, <1>6 DEF Mentioned
  <2>2. 1 \in 1..Len(updates) /\ 1 + 1 = 2
    BY <1>1
  <2> QED BY <1>6, <2>1, <2>2 DEF LastIsRight
<1> QED BY <1>4, <1>5, <1>6

(* What a published update makes of the requests.                          *)
LEMMA ApplyUpdate ==
    ASSUME NEW u \in Updates, NEW f \in [Requests -> Nat]
    PROVE  /\ Apply(u, f) \in [Requests -> Nat]
           /\ \A r \in Requests : Apply(u, f)[r] = IF r \in DOMAIN u THEN u[r] ELSE f[r]
<1>1. \A r \in DOMAIN u : u[r] \in Nat
  BY DEF Updates
<1> QED BY <1>1 DEF Apply

(* The publisher takes an update in hand, or finds none.                   *)
LEMMA SelectKeepsContent ==
    ASSUME ContentInv, NEW g \in Goroutines, Select(g)
    PROVE  ContentInv'
<1>1. PublisherInv'
  BY WorkKeeps DEF ContentInv
<1>2. /\ UNCHANGED <<entry, timer, holder, needsSnapshot, emitted>>
      /\ ppc[g] = "select" /\ ppc \in [Goroutines -> {"none", "select", "emits", "swaps",
            "discards", "snapshots", "idles", "rechecks", "reclaims"}]
  BY DEF Select, trackerVars, ContentInv, PublisherInv, PublisherTypes
<1>3. \A h \in Goroutines : ppc[h] \notin {"emits", "discards", "snapshots"}
  BY <1>2, WorksAlone DEF Publishing
<1>4. Lost' <=> Lost
  BY <1>2 DEF Lost
<1>5. CASE updates = <<>>
  <2>1. ppc' = [ppc EXCEPT ![g] = "idles"] /\ UNCHANGED <<hand, updates>>
    BY <1>5 DEF Select, GoesTo
  <2>2. /\ \A h \in Goroutines : ppc'[h] \in {"emits", "discards", "snapshots"} => ppc'[h] = ppc[h]
        /\ \A h \in Goroutines : ppc[h] \in {"emits", "discards", "snapshots"} => ppc'[h] = ppc[h]
    BY <1>2, <2>1
  <2> QED BY <1>1, <1>2, <1>4, <2>1, <2>2, ContentKept
<1>6. CASE updates # <<>>
  <2>1. /\ ppc' = [ppc EXCEPT ![g] = "emits"] /\ hand' = [hand EXCEPT ![g] = Head(updates)]
        /\ updates' = Tail(updates)
    BY <1>6 DEF Select, GoesTo
  <2>2. /\ updates' \in Seq(Updates) /\ Head(updates) \in Updates
        /\ \A r \in Requests :
             /\ LastIsRight(r) => LastIsRight(r)'
             /\ Mentioned(r) => Mentioned(r)' \/ r \in DOMAIN Head(updates)
             /\ r \in DOMAIN Head(updates) /\ LastIsRight(r) /\ ~Mentioned(r)'
                  => Head(updates)[r] = entry[r]
    BY <1>2, <1>6, <2>1, TailContent
  <2>3. /\ \A h \in Goroutines : ppc'[h] = "emits" <=> h = g
        /\ ~Discarding /\ ~Recovering
    BY <1>2, <1>3, <2>1 DEF Discarding, Recovering
  <2>4. hand'[g] = Head(updates)
    BY <1>2, <2>1 DEF ContentInv, ContentTypes
  <2>5. ContentTypes'
    BY <1>2, <2>1, <2>2, <2>3, <2>4 DEF ContentInv, ContentTypes
  <2>6. ASSUME NEW r \in Requests, ~timer[r], ~Lost
        PROVE  LastIsRight(r)' /\ (Mentioned(r)' \/ RestIsRight(r)')
    <3>1. LastIsRight(r) /\ (Mentioned(r) \/ RestIsRight(r))
      BY <2>3, <2>6 DEF ContentInv, UpToDate
    <3>2. CASE r \in DOMAIN Head(updates)
      BY <1>2, <2>2, <2>3, <2>4, <3>1, <3>2 DEF RestIsRight, InHand
    <3>3. CASE r \notin DOMAIN Head(updates)
      <4>1. ~InHand(r) /\ ~InHand(r)'
        BY <1>3, <2>3, <2>4, <3>3 DEF InHand
      <4> QED BY <1>2, <2>2, <2>3, <2>4, <3>1, <3>3, <4>1 DEF RestIsRight
    <3> QED BY <3>2, <3>3
  <2>7. UpToDate'
    BY <1>2, <1>4, <2>6 DEF UpToDate
  <2> QED BY <1>1, <2>5, <2>7 DEF ContentInv
<1> QED BY <1>5, <1>6

(* What it publishes was the last word on the requests it speaks of.       *)
LEMMA EmitKeepsContent ==
    ASSUME ContentInv, NEW g \in Goroutines, Emit(g)
    PROVE  ContentInv'
<1>1. PublisherInv'
  BY WorkKeeps DEF ContentInv
<1>2. /\ UNCHANGED <<entry, timer, updates, holder, needsSnapshot>>
      /\ ppc[g] = "emits" /\ ppc' = [ppc EXCEPT ![g] = "swaps"]
      /\ emitted' = Apply(hand[g], emitted) /\ hand' = [hand EXCEPT ![g] = NoUpdate]
      /\ ppc \in [Goroutines -> {"none", "select", "emits", "swaps",
            "discards", "snapshots", "idles", "rechecks", "reclaims"}]
  BY DEF Emit, GoesTo, trackerVars, outboxVars, ContentInv, PublisherInv, PublisherTypes
<1>3. \A h \in Goroutines : /\ ppc[h] = "emits" <=> h = g
                            /\ ppc[h] \notin {"discards", "snapshots"}
  BY <1>2, WorksAlone DEF Publishing
<1>4. \A h \in Goroutines : ppc'[h] \notin {"emits", "discards", "snapshots"}
  BY <1>2, <1>3
<1>5. /\ emitted' \in [Requests -> Nat]
      /\ \A r \in Requests : emitted'[r] = IF r \in DOMAIN hand[g] THEN hand[g][r] ELSE emitted[r]
  <2>1. hand[g] \in Updates /\ emitted \in [Requests -> Nat]
    BY <1>2 DEF ContentInv, ContentTypes
  <2> QED BY <1>2, <2>1, ApplyUpdate
<1>6. ContentTypes'
  BY <1>2, <1>4, <1>5 DEF ContentInv, ContentTypes
<1>7. ASSUME NEW r \in Requests
      PROVE  RestIsRight(r) => RestIsRight(r)'
  <2>1. InHand(r) <=> r \in DOMAIN hand[g]
    BY <1>3 DEF InHand
  <2>2. RestIsRight(r) => emitted'[r] = entry[r]
    BY <1>3, <1>5, <2>1 DEF RestIsRight
  <2> QED BY <1>2, <1>4, <2>2 DEF RestIsRight
<1>8. \A r \in Requests : (LastIsRight(r)' <=> LastIsRight(r)) /\ (Mentioned(r)' <=> Mentioned(r))
  BY <1>2 DEF LastIsRight, Mentioned
<1>9. ~Discarding /\ ~Recovering /\ (Lost' <=> Lost)
  BY <1>2, <1>3 DEF Discarding, Recovering, Lost
<1>10. UpToDate'
  BY <1>2, <1>7, <1>8, <1>9 DEF ContentInv, UpToDate
<1> QED BY <1>1, <1>6, <1>10 DEF ContentInv

(* publishRecoverySnapshots: the mark is taken back only to replace the    *)
(* outbox by a snapshot ...                                                *)
LEMMA SwapKeepsContent ==
    ASSUME ContentInv, NEW g \in Goroutines, Swap(g)
    PROVE  ContentInv'
<1>1. PublisherInv'
  BY WorkKeeps DEF ContentInv
<1>2. /\ UNCHANGED <<entry, timer, updates, holder, hand, emitted>> /\ needsSnapshot' = FALSE
      /\ ppc[g] = "swaps" /\ ppc' = [ppc EXCEPT ![g] = IF needsSnapshot THEN "discards" ELSE "select"]
      /\ ppc \in [Goroutines -> {"none", "select", "emits", "swaps",
            "discards", "snapshots", "idles", "rechecks", "reclaims"}]
  BY DEF Swap, GoesTo, trackerVars, ContentInv, PublisherInv, PublisherTypes
<1>3. CASE needsSnapshot
  <2>1. ppc'[g] = "discards" /\ \A h \in Goroutines : h # g => ppc'[h] = ppc[h]
    BY <1>2, <1>3
  <2>2. Discarding' /\ Recovering'
    BY <2>1 DEF Discarding, Recovering
  <2>3. ContentTypes'
    BY <1>2, <2>1 DEF ContentInv, ContentTypes
  <2> QED BY <1>1, <2>2, <2>3 DEF ContentInv, UpToDate
<1>4. CASE ~needsSnapshot
  <2>1. /\ \A h \in Goroutines : ppc'[h] \in {"emits", "discards", "snapshots"} => ppc'[h] = ppc[h]
        /\ \A h \in Goroutines : ppc[h] \in {"emits", "discards", "snapshots"} => ppc'[h] = ppc[h]
    BY <1>2, <1>4
  <2>2. Lost => Lost'
    BY <1>2, <1>4 DEF Lost
  <2> QED BY <1>1, <1>2, <2>1, <2>2, ContentKept
<1> QED BY <1>3, <1>4

(* ... what was queued before the drop is discarded first ...              *)
LEMMA DiscardKeepsContent ==
    ASSUME ContentInv, NEW g \in Goroutines, Discard(g)
    PROVE  ContentInv'
<1>1. PublisherInv'
  BY WorkKeeps DEF ContentInv
<1>2. /\ UNCHANGED <<entry, timer, holder, needsSnapshot, hand, emitted>> /\ ppc[g] = "discards"
      /\ ppc \in [Goroutines -> {"none", "select", "emits", "swaps",
            "discards", "snapshots", "idles", "rechecks", "reclaims"}]
  BY DEF Discard, trackerVars, ContentInv, PublisherInv, PublisherTypes
<1>3. CASE updates # <<>>
  <2>1. updates' = Tail(updates) /\ ppc' = ppc
    BY <1>3 DEF Discard
  <2>2. updates' \in Seq(Updates)
    BY <1>2, <1>3, <2>1, TailContent
  <2>3. ContentTypes'
    BY <1>2, <2>1, <2>2 DEF ContentInv, ContentTypes
  <2>4. Discarding' /\ Recovering'
    BY <1>2, <2>1 DEF Discarding, Recovering
  <2> QED BY <1>1, <2>3, <2>4 DEF ContentInv, UpToDate
<1>4. CASE updates = <<>>
  <2>1. updates' = <<>> /\ updates' = updates /\ ppc' = [ppc EXCEPT ![g] = "snapshots"]
    BY <1>4 DEF Discard, GoesTo
  <2>2. ppc'[g] = "snapshots" /\ \A h \in Goroutines : h # g => ppc'[h] = ppc[h]
    BY <1>2, <2>1
  <2>3. ContentTypes'
    BY <1>2, <2>1, <2>2 DEF ContentInv, ContentTypes
  <2>4. Recovering' /\ \A r \in Requests : LastIsRight(r)'
    BY <2>1, <2>2 DEF Recovering, LastIsRight
  <2> QED BY <1>1, <2>3, <2>4 DEF ContentInv, UpToDate
<1> QED BY <1>3, <1>4

(* ... and the snapshot has everything; what was queued after the outbox   *)
(* was emptied is published after it, and says the last word.              *)
LEMMA SnapshotKeepsContent ==
    ASSUME ContentInv, NEW g \in Goroutines, Snapshot(g)
    PROVE  ContentInv'
<1>1. PublisherInv'
  BY WorkKeeps DEF ContentInv
<1>2. /\ UNCHANGED <<entry, timer, updates, holder, needsSnapshot, emitted>>
      /\ ppc[g] = "snapshots" /\ ppc' = [ppc EXCEPT ![g] = "emits"]
      /\ hand' = [hand EXCEPT ![g] = entry]
      /\ ppc \in [Goroutines -> {"none", "select", "emits", "swaps",
            "discards", "snapshots", "idles", "rechecks", "reclaims"}]
  BY DEF Snapshot, GoesTo, trackerVars, outboxVars, ContentInv, PublisherInv, PublisherTypes
<1>3. \A h \in Goroutines : ppc[h] \notin {"emits", "discards"}
  BY <1>2, WorksAlone DEF Publishing
<1>4. \A h \in Goroutines : ppc'[h] = "emits" <=> h = g
  BY <1>2, <1>3
<1>5. hand'[g] = entry /\ entry \in [Requests -> Nat]
  BY <1>2 DEF ContentInv, ContentTypes
<1>6. entry \in Updates
  BY <1>5 DEF Updates
<1>7. ContentTypes'
  BY <1>2, <1>4, <1>5, <1>6 DEF ContentInv, ContentTypes
<1>8. \A r \in Requests : RestIsRight(r)'
  <2>1. \A r \in Requests : InHand(r)'
    BY <1>4, <1>5 DEF InHand
  <2> QED BY <1>2, <1>4, <1>5, <2>1 DEF RestIsRight
<1>9. ~Discarding /\ (Lost' <=> Lost) /\ \A r \in Requests : LastIsRight(r)' <=> LastIsRight(r)
  BY <1>2, <1>3 DEF Discarding, Lost, LastIsRight
<1>10. UpToDate'
  BY <1>2, <1>8, <1>9 DEF ContentInv, UpToDate
<1> QED BY <1>1, <1>7, <1>10 DEF ContentInv

(* No step loses the invariant.                                            *)
LEMMA ContentSteps == ContentInv /\ [Next]_vars => ContentInv'
<1> SUFFICES ASSUME ContentInv, [Next]_vars PROVE ContentInv'
  OBVIOUS
<1>1. CASE \E r \in Requests : RequestStep(r)
  BY <1>1, RequestBrings
<1>2. CASE MarkOverflow \/ StartPublisher
  BY <1>2, RestKeepsContent
<1>3. CASE \E g \in Goroutines : PublisherStep(g)
  BY <1>3, RestKeepsContent, SelectKeepsContent, EmitKeepsContent, SwapKeepsContent,
     DiscardKeepsContent, SnapshotKeepsContent DEF PublisherStep
<1>4. CASE ClientStep \/ UNCHANGED vars
  <2>1. UNCHANGED <<entry, timer, updates, hand, emitted, ppc, holder, needsSnapshot>>
    BY <1>4 DEF ClientStep, ClientSubscribes, ClientComputes, ClientSendsFirst,
                ClientReads, vars, trackerVars, outboxVars, publisherVars
  <2>2. PublisherInv'
    BY PublisherSteps DEF ContentInv
  <2>3. Lost => Lost'
    BY <2>1 DEF Lost
  <2> QED BY <2>1, <2>2, <2>3, ContentKept
<1> QED BY <1>1, <1>2, <1>3, <1>4 DEF Next

(* When the publisher rests and owes no snapshot, what was published adds  *)
(* up to the requests there are: neither a drop, nor what is discarded,    *)
(* nor a snapshot that overtakes an update loses a change (enqueueLocked,  *)
(* publishUpdates, publishRecoverySnapshots).                              *)
THEOREM PublishedAddsUp == Spec => []EmittedExact
<1>1. ContentInv => EmittedExact
  <2> SUFFICES ASSUME ContentInv, Quiet, ~needsSnapshot
               PROVE  emitted = entry
    BY DEF EmittedExact
  <2>1. entry \in [Requests -> Nat] /\ emitted \in [Requests -> Nat] /\ updates = <<>>
    BY DEF ContentInv, ContentTypes, Quiet
  <2>2. ~Lost /\ ~Recovering /\ \A r \in Requests : ~timer[r] /\ ~Mentioned(r) /\ ~InHand(r)
    BY <2>1 DEF Quiet, Lost, Recovering, Mentioned, InHand
  <2>3. \A r \in Requests : emitted[r] = entry[r]
    BY <2>2 DEF ContentInv, UpToDate, RestIsRight
  <2> QED BY <2>1, <2>3
<1> QED
  BY <1>1, ContentStarts, ContentSteps, PTL DEF Spec

=============================================================================
