----------------------------- MODULE LogStreams -----------------------------
(***************************************************************************)
(* One log monitor (internal/logmon/logging.go) and those who read it:     *)
(* Write by any goroutine, the circular history, the channel to            *)
(* broadcastLoop with its count of dropped bytes, the event bus, and the   *)
(* two kinds of readers, handleLogStream (internal/server/log.go) and the  *)
(* log part of handleAPIEvents (internal/server/apigroup.go).              *)
(*                                                                         *)
(* The monitor is proxylog, into which handleAPIEvents itself logs that    *)
(* its buffer is full: its subscription is a writer too.  A line is the    *)
(* number of its write; on the bus a notice of n dropped bytes is -n.      *)
(***************************************************************************)
EXTENDS EventBus, Integers, FiniteSets, SequencesExt

CONSTANTS
    Writers,        \* goroutines that log
    Loop,           \* broadcastLoop
    LengthPlans,    \* lengths of the first lines, one after the other
    BufferSize,     \* of the history
    ChanCap,        \* of broadcastCh
    StreamCap,      \* of sendChan
    UICap,          \* of sendBuffer
    MaxWrites       \* bound: lines ever written, and the length of each plan

ASSUME LogAssumption ==
    /\ Publishers = {Loop}
    /\ Writers \intersect Consumers = {}
    /\ {BufferSize, ChanCap, StreamCap, UICap} \subseteq Nat \ {0}
    /\ MaxWrites \in Nat
    /\ LengthPlans \subseteq [1 .. MaxWrites -> Nat \ {0}]

VARIABLES
    wpc, line,      \* where a writer is in Write, and what it writes
    size,           \* the lengths of the lines
    written,        \* lines begun so far
    warned,         \* ghost: which of them say that a buffer was full
    buffer,         \* the circular buffer, {} for nil
    kept,           \* ghost: what was written to it since it was created
    channel,        \* broadcastCh
    dropped,        \* bytes dropped and not reported
    bpc, hand,      \* broadcastLoop and the line it took
    notice,         \* the count it took
    published,      \* ghost: what went to the bus, in order
    kind,           \* which of the two handlers serves a reader
    cpc, outbox,    \* the readers: where each is, its sendChan or sendBuffer
    hist,           \* the history a reader was sent
    shown           \* what it was sent of the live data

monitorVars == <<buffer, kept, channel, dropped>>
loopVars == <<bpc, hand, notice, published>>
readerVars == <<kind, cpc, outbox, hist, shown>>
writeVars == <<wpc, line, size, written, warned>>
vars == <<busVars, writeVars, monitorVars, loopVars, readerVars>>

Readers == Consumers
AllWriters == Writers \union Consumers
IsStream(c) == kind[c] = "handleLogStream"
IsUI(c) == kind[c] = "handleAPIEvents"
History == 0       \* the message of handleAPIEvents that carries the history

-----------------------------------------------------------------------------
(* circularBuffer: an array of BufferSize bytes, from 0.                   *)

newCircularBuffer == [data |-> [i \in 0 .. BufferSize - 1 |-> <<0, 0>>],
                      head |-> 0, size |-> 0]

(* copy(data[at:], p)                                                      *)
CopyTo(data, at, p) ==
    [i \in DOMAIN data |-> IF i \in at .. at + Len(p) - 1
                             THEN p[i - at + 1] ELSE data[i]]

(* data[from:to]                                                           *)
Slice(data, from, to) == [k \in 1 .. to - from |-> data[from + k - 1]]

BufferWrite(cb, p) ==
    LET firstPart == BufferSize - cb.head
        length == Len(p)
        grown == IF cb.size + length > BufferSize THEN BufferSize
                 ELSE cb.size + length
    IN IF length >= BufferSize
         THEN [data |-> CopyTo(cb.data, 0, SubSeq(p, length - BufferSize + 1, length)),
               head |-> 0, size |-> BufferSize]
       ELSE IF firstPart >= length
         THEN [data |-> CopyTo(cb.data, cb.head, p),
               head |-> (cb.head + length) % BufferSize, size |-> grown]
       ELSE [data |-> CopyTo(CopyTo(cb.data, cb.head, SubSeq(p, 1, firstPart)),
                             0, SubSeq(p, firstPart + 1, length)),
             head |-> length - firstPart, size |-> grown]

BufferHistory(cb) ==
    LET start == (cb.head - cb.size + BufferSize) % BufferSize
        firstPart == BufferSize - start
    IN IF cb.size = 0 THEN <<>>
       ELSE IF start + cb.size <= BufferSize
         THEN Slice(cb.data, start, start + cb.size)
       ELSE Slice(cb.data, start, BufferSize)
            \o Slice(cb.data, 0, cb.size - firstPart)

(* Monitor.GetHistory                                                      *)
GetHistory == IF buffer = {} THEN <<>> ELSE BufferHistory(CHOOSE b \in buffer : TRUE)

-----------------------------------------------------------------------------
(* Monitor.Write.                                                          *)

Bytes(m) == [k \in 1 .. size[m] |-> <<m, k>>]

(* The write of w to stdout succeeded (if it fails, Write returns and      *)
(* nothing else happens).                                                  *)
BeginWrite(w, isWarning) ==
    /\ wpc' = [wpc EXCEPT ![w] = "keeps"]
    /\ line' = [line EXCEPT ![w] = written + 1]
    /\ written' = written + 1
    /\ warned' = IF isWarning THEN warned \union {written + 1} ELSE warned
    /\ UNCHANGED size

Logs(w) ==
    /\ w \in Writers /\ wpc[w] = "idle"
    /\ written < MaxWrites
    /\ BeginWrite(w, FALSE)
    /\ UNCHANGED <<busVars, monitorVars, loopVars, readerVars>>

(* Under bufferMu; the buffer is made by the first write.                  *)
WriteKeeps(w) ==
    /\ wpc[w] = "keeps"
    /\ LET cb == IF buffer = {} THEN newCircularBuffer ELSE CHOOSE b \in buffer : TRUE
       IN buffer' = {BufferWrite(cb, Bytes(line[w]))}
    /\ kept' = kept \o Bytes(line[w])
    /\ wpc' = [wpc EXCEPT ![w] = "sends"]
    /\ UNCHANGED <<busVars, line, size, written, warned, channel, dropped, loopVars, readerVars>>

(* Seeded bug: the send waits for room.                                    *)
WriteSendsOrWaits(w) ==
    /\ wpc[w] = "sends"
    /\ Len(channel) < ChanCap
    /\ channel' = Append(channel, line[w])
    /\ wpc' = [wpc EXCEPT ![w] = "idle"]
    /\ UNCHANGED <<busVars, line, size, written, warned, buffer, kept, dropped, loopVars, readerVars>>

(* The non-blocking send.                                                  *)
WriteSends(w) ==
    /\ wpc[w] = "sends"
    /\ IF Len(channel) < ChanCap
         THEN /\ channel' = Append(channel, line[w])
              /\ wpc' = [wpc EXCEPT ![w] = "idle"]
         ELSE /\ wpc' = [wpc EXCEPT ![w] = "counts"]
              /\ UNCHANGED channel
    /\ UNCHANGED <<busVars, line, size, written, warned, buffer, kept, dropped, loopVars, readerVars>>

(* w.dropped.Add(uint64(len(p)))                                           *)
WriteCounts(w) ==
    /\ wpc[w] = "counts"
    /\ dropped' = dropped + size[line[w]]
    /\ wpc' = [wpc EXCEPT ![w] = "idle"]
    /\ UNCHANGED <<busVars, line, size, written, warned, buffer, kept, channel, loopVars, readerVars>>

WriteStep(w) == WriteKeeps(w) \/ WriteSends(w) \/ WriteCounts(w)

-----------------------------------------------------------------------------
(* broadcastLoop.  It goes on when its Publish has returned.               *)

LoopReceives ==
    /\ bpc = "receives" /\ publish[Loop] = "idle"
    /\ channel # <<>>
    /\ hand' = Head(channel)
    /\ channel' = Tail(channel)
    /\ bpc' = "swaps"
    /\ UNCHANGED <<busVars, writeVars, buffer, kept, dropped, notice, published, readerVars>>

LoopSwaps ==
    /\ bpc = "swaps"
    /\ notice' = dropped
    /\ dropped' = 0
    /\ bpc' = IF dropped > 0 THEN "notices" ELSE "delivers"
    /\ UNCHANGED <<busVars, writeVars, buffer, kept, channel, hand, published, readerVars>>

LoopNotices ==
    /\ bpc = "notices"
    /\ Publish(Loop, -notice)
    /\ published' = Append(published, -notice)
    /\ notice' = 0
    /\ bpc' = "delivers"
    /\ UNCHANGED <<writeVars, monitorVars, hand, readerVars>>

LoopDelivers ==
    /\ bpc = "delivers" /\ publish[Loop] = "idle"
    /\ Publish(Loop, hand)
    /\ published' = Append(published, hand)
    /\ hand' = 0
    /\ bpc' = "receives"
    /\ UNCHANGED <<writeVars, monitorVars, notice, readerVars>>

LoopBroadcasts ==
    /\ Broadcast(Loop) \/ BroadcastWaits(Loop)
    /\ UNCHANGED <<writeVars, monitorVars, loopVars, readerVars>>

LoopStep ==
    \/ LoopReceives
    \/ LoopSwaps
    \/ LoopNotices
    \/ LoopDelivers
    \/ LoopBroadcasts

-----------------------------------------------------------------------------
(* The subscriptions: a Listen goroutine each, and the callback.           *)

(* A callback of handleAPIEvents that logs returns when its Write has.     *)
Listens(c) ==
    /\ ListenStep(c)
    /\ IsUI(c) => wpc[c] = "idle"
    /\ UNCHANGED <<writeVars, monitorVars, loopVars, readerVars>>

Cap(c) == IF IsStream(c) THEN StreamCap ELSE UICap

(* The send of either callback: when the request is over (ctx.Done) and    *)
(* there is room, select takes any of the two.                             *)
CallbackSends(c) ==
    /\ IsUI(c) => wpc[c] = "idle"
    /\ pending[c] # <<>> /\ Len(outbox[c]) < Cap(c)
    /\ HandlerReturns(c)
    /\ outbox' = [outbox EXCEPT ![c] = Append(@, Head(pending[c]))]
    /\ UNCHANGED <<writeVars, monitorVars, loopVars, kind, cpc, hist, shown>>

(* Seeded bug: without room the callback waits.                            *)
UnsendableOnceLeft(c) == cpc[c] = "left"

(* What it does when there is no room, or the request is over.             *)
Unsendable(c) == Len(outbox[c]) = Cap(c) \/ cpc[c] = "left"

(* handleLogStream drops the data in silence.                              *)
StreamDrops(c) ==
    /\ IsStream(c) /\ Unsendable(c)
    /\ HandlerReturns(c)
    /\ UNCHANGED <<writeVars, monitorVars, loopVars, readerVars>>

(* handleAPIEvents drops it and logs that it did, to the monitor that it   *)
(* listens to.  (Beyond MaxWrites the line is left out.)                   *)
UIDrops(c) ==
    /\ IsUI(c) /\ Unsendable(c)
    /\ wpc[c] = "idle"
    /\ HandlerReturns(c)
    /\ IF written < MaxWrites
         THEN BeginWrite(c, TRUE)
         ELSE UNCHANGED writeVars
    /\ UNCHANGED <<monitorVars, loopVars, readerVars>>

ConsumerStep(c) == Listens(c) \/ CallbackSends(c) \/ StreamDrops(c) \/ UIDrops(c)

-----------------------------------------------------------------------------
(* The requests.                                                           *)

(* handleLogStream writes the history (unless the request asks for none)   *)
(* before it subscribes.                                                   *)
StreamHistory(c) ==
    /\ IsStream(c) /\ cpc[c] = "arrives"
    /\ hist' = [hist EXCEPT ![c] = GetHistory]
    /\ cpc' = [cpc EXCEPT ![c] = "subscribes"]
    /\ UNCHANGED <<busVars, writeVars, monitorVars, loopVars, kind, outbox, shown>>

StreamSubscribes(c) ==
    /\ IsStream(c) /\ cpc[c] = "subscribes"
    /\ Subscribe(c)
    /\ cpc' = [cpc EXCEPT ![c] = "streams"]
    /\ UNCHANGED <<writeVars, monitorVars, loopVars, kind, outbox, hist, shown>>

(* handleAPIEvents subscribes first, and sends the history like the rest.  *)
UISubscribes(c) ==
    /\ IsUI(c) /\ cpc[c] = "arrives"
    /\ Subscribe(c)
    /\ cpc' = [cpc EXCEPT ![c] = "history"]
    /\ UNCHANGED <<writeVars, monitorVars, loopVars, kind, outbox, hist, shown>>

UIHistory(c) ==
    /\ IsUI(c) /\ cpc[c] = "history"
    /\ IF Len(outbox[c]) < UICap
         THEN /\ outbox' = [outbox EXCEPT ![c] = Append(@, History)]
              /\ hist' = [hist EXCEPT ![c] = GetHistory]
         ELSE UNCHANGED <<outbox, hist>>
    /\ cpc' = [cpc EXCEPT ![c] = "streams"]
    /\ UNCHANGED <<busVars, writeVars, monitorVars, loopVars, kind, shown>>

(* The client takes what was sent; a stalled one does not.                 *)
ReaderWrites(c) ==
    /\ cpc[c] = "streams" /\ outbox[c] # <<>>
    /\ shown' = [shown EXCEPT ![c] = IF Head(outbox[c]) = History THEN @
                                     ELSE Append(@, Head(outbox[c]))]
    /\ outbox' = [outbox EXCEPT ![c] = Tail(@)]
    /\ UNCHANGED <<busVars, writeVars, monitorVars, loopVars, kind, cpc, hist>>

(* The client disconnects or the server shuts down.                        *)
ReaderLeaves(c) ==
    /\ cpc[c] = "streams"
    /\ Del(c)
    /\ cpc' = [cpc EXCEPT ![c] = "left"]
    /\ UNCHANGED <<writeVars, monitorVars, loopVars, kind, outbox, hist, shown>>

RequestStep(c) ==
    \/ StreamHistory(c) \/ StreamSubscribes(c)
    \/ UISubscribes(c) \/ UIHistory(c)
    \/ ReaderWrites(c) \/ ReaderLeaves(c)

-----------------------------------------------------------------------------
Init ==
    /\ BusInit
    /\ wpc = [w \in AllWriters |-> "idle"]
    /\ line = [w \in AllWriters |-> 0]
    /\ size \in LengthPlans /\ written = 0 /\ warned = {}
    /\ buffer = {} /\ kept = <<>>
    /\ channel = <<>> /\ dropped = 0
    /\ bpc = "receives" /\ hand = 0 /\ notice = 0 /\ published = <<>>
    /\ kind \in [Readers -> {"handleLogStream", "handleAPIEvents"}]
    /\ cpc = [c \in Readers |-> "arrives"]
    /\ outbox = [c \in Readers |-> <<>>]
    /\ hist = [c \in Readers |-> <<>>]
    /\ shown = [c \in Readers |-> <<>>]

Next ==
    \/ \E w \in Writers : Logs(w)
    \/ \E w \in AllWriters : WriteStep(w)
    \/ LoopStep
    \/ \E c \in Readers : ConsumerStep(c) \/ RequestStep(c)

Spec == Init /\ [][Next]_vars

(* Goroutines that can go on do (the Go scheduler).  Nothing is assumed of *)
(* the clients: they need not read, or leave.                              *)
FairSpec ==
    /\ Spec
    /\ \A w \in AllWriters : WF_vars(WriteStep(w))
    /\ WF_vars(LoopStep)
    /\ \A c \in Readers : WF_vars(ConsumerStep(c))

-----------------------------------------------------------------------------
(* Properties.                                                             *)

(* The history is the end of what was logged, in order, byte by byte,      *)
(* wherever the writes wrapped around the array (circularBuffer.Write and  *)
(* GetHistory).                                                            *)
HistoryIsTail ==
    LET n == Len(kept)
    IN GetHistory = SubSeq(kept, (IF n > BufferSize THEN n - BufferSize ELSE 0) + 1, n)

TotalSize(ms) == FoldSeq(LAMBDA m, sum : sum + size[m], 0, ms)

(* Every byte that the history got is on its way to the bus, published,    *)
(* or counted as dropped, once: what the notices say adds up, however      *)
(* drops and reports interleave (Write and broadcastLoop share only the    *)
(* channel and an atomic counter).                                         *)
BytesAccounted ==
    LET Busy == {w \in AllWriters : wpc[w] \in {"sends", "counts"}}
        Counts(e) == IF e < 0 THEN -e ELSE size[e]
    IN Len(kept) = TotalSize(channel) + dropped + notice
                   + (IF hand = 0 THEN 0 ELSE size[hand])
                   + FoldSeq(LAMBDA e, sum : sum + Counts(e), 0, published)
                   + FoldSet(LAMBDA w, sum : sum + size[line[w]], 0, Busy)

(* What a reader is shown of the live data is what was published, in that  *)
(* order and nothing twice, whatever its buffers drop.                     *)
ShownInOrder ==
    \A c \in Readers :
        LET sent == shown[c] \o outbox[c] \o pending[c] \o queue[c]
            Lines == {i \in DOMAIN sent : sent[i] > 0}
        IN /\ \A i \in Lines : \E k \in DOMAIN published : published[k] = sent[i]
           /\ \A i, j \in Lines : i < j =>
                /\ sent[i] # sent[j]
                /\ \E k, l \in DOMAIN published :
                     k < l /\ published[k] = sent[i] /\ published[l] = sent[j]

(* Logging never waits for a reader: a Write ends though clients stall     *)
(* (issue 875, logging.go Write).                                          *)
WritesEnd == \A w \in AllWriters : wpc[w] # "idle" ~> wpc[w] = "idle"

(* A stalled client does not hold up the broadcast to the others: the loop *)
(* always comes back to its channel.                                       *)
BroadcastGoesOn == bpc # "receives" ~> bpc = "receives"

(* A reader is shown no line twice: one it got with the history does not   *)
(* come again from the bus.                                                *)
NoLineTwice ==
    \A c \in Readers : \A i \in DOMAIN shown[c] :
        shown[c][i] > 0 => \A j \in DOMAIN hist[c] : hist[c][j][1] # shown[c][i]

(* The notice stands where the gap is: the lines shown before it were      *)
(* logged before those that were dropped (broadcastLoop).                  *)
NoticeAtGap ==
    \A i \in DOMAIN published : published[i] < 0 =>
        \A j \in i + 1 .. Len(published) :
            published[j] > 0 =>
                \E m \in 1 .. published[j] - 1 : ~ \E k \in DOMAIN published : published[k] = m

(* A warning is the answer to a line that was dropped: there are never     *)
(* more of them than of other lines.                                       *)
WarningsAnswerLines == 2 * Cardinality(warned) <= written

(* A subscription that was cancelled ends.                                 *)
ListenersEnd == \A c \in Readers : member[c] = "out" ~> listen[c] = "gone"

=============================================================================
