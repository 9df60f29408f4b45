--------------------------- MODULE LogStreamsProofs ---------------------------
(***************************************************************************)
(* No wakeup of the event dispatcher is lost, for any number of            *)
(* consumers, any limit of their queues and any log monitor around them.   *)
(*                                                                         *)
(* A publisher goes to sleep because some queue is full, so the invariant  *)
(* has to say what the goroutine of a queue that is not empty does: it is  *)
(* never inside cond.Wait (WorkIsSeen).  That in turn needs that a         *)
(* subscribed consumer has a goroutine that listens (Listened).            *)
(*                                                                         *)
(* And no reader sees lines twice or out of order.  A line that has left   *)
(* Write is in one place only, so no number is published twice (LineInv).  *)
(* All that a reader has or will get, from what it was shown to the queue  *)
(* of its subscription, is in the order of publication, and the event that *)
(* a full queue holds up was published after it (SentInv).                 *)
(***************************************************************************)
EXTENDS LogStreams, TLAPS

BusTypes ==
    /\ member \in [Consumers -> {"never", "in", "out"}]
    /\ listen \in [Consumers -> {"unborn", "locks", "waits", "works", "gone"}]
    /\ publish \in [Publishers -> {"idle", "locks", "waits"}]
    /\ DOMAIN queue = Consumers

Listened ==
    \A c \in Consumers :
        /\ member[c] = "never" => listen[c] = "unborn"
        /\ member[c] = "in" => listen[c] \in {"locks", "waits", "works"}

WorkIsSeen ==
    \A c \in Consumers : queue[c] # <<>> => listen[c] \in {"locks", "works"}

BusInv == BusTypes /\ Listened /\ WorkIsSeen /\ NoLostWakeup

(* The parts of the invariant read nothing of the group but these.         *)
watched == <<member, queue, listen, publish>>

-----------------------------------------------------------------------------
(* The invariant holds before anybody has subscribed.                      *)
LEMMA BusStarts == Init => BusInv
  BY DEF Init, BusInit, BusInv, BusTypes, Listened, WorkIsSeen, NoLostWakeup

(* SubscribeTo (event.go): the goroutine that Add starts goes for the      *)
(* mutex.                                                                  *)
LEMMA SubscribeKeeps ==
    ASSUME NEW c \in Consumers, BusInv, Subscribe(c)
    PROVE  BusInv'
  BY DEF BusInv, BusTypes, Listened, WorkIsSeen, NoLostWakeup, Subscribe

(* Del (event.go): whoever unsubscribes wakes nobody, and need not.        *)
LEMMA DelKeeps ==
    ASSUME NEW c \in Consumers, BusInv, Del(c)
    PROVE  BusInv'
  BY DEF BusInv, BusTypes, Listened, WorkIsSeen, NoLostWakeup, Del

(* Publish (event.go): the publisher goes for the mutex.                   *)
LEMMA PublishKeeps ==
    ASSUME NEW p \in Publishers, NEW e, BusInv, Publish(p, e)
    PROVE  BusInv'
  BY DEF BusInv, BusTypes, Listened, WorkIsSeen, NoLostWakeup, Publish

(* Broadcast (event.go), when a queue is full: its goroutine is awake.     *)
LEMMA BroadcastWaitsKeeps ==
    ASSUME NEW p \in Publishers, BusInv, BroadcastWaits(p)
    PROVE  BusInv'
<1>1. PICK c \in Consumers : member[c] = "in" /\ Len(queue[c]) >= MaxQueue
  BY DEF BroadcastWaits, Full, Subscribed
<1>2. queue[c] # <<>>
  BY <1>1, BusAssumption, Len(<<>>) = 0
<1>3. listen[c] = "works" \/ (listen[c] = "locks" /\ queue[c] # <<>>)
  BY <1>2 DEF BusInv, WorkIsSeen
<1>4. NoLostWakeup'
  BY <1>3 DEF NoLostWakeup, BroadcastWaits
<1> QED
  BY <1>4 DEF BusInv, BusTypes, Listened, WorkIsSeen, BroadcastWaits

(* Broadcast (event.go), when there is room: everybody is woken.           *)
LEMMA BroadcastKeeps ==
    ASSUME NEW p \in Publishers, BusInv, Broadcast(p)
    PROVE  BusInv'
<1>1. /\ listen' = [c \in Consumers |-> IF listen[c] = "waits" THEN "locks" ELSE listen[c]]
      /\ publish' = [q \in Publishers |->
                       IF q = p THEN "idle"
                       ELSE IF publish[q] = "waits" THEN "locks" ELSE publish[q]]
  BY DEF BusInv, BusTypes, Broadcast, Woken
<1>2. BusTypes' /\ Listened'
  <2>1. member' = member /\ DOMAIN queue' = Consumers
    BY DEF Broadcast
  <2>2. BusTypes'
    BY <1>1, <2>1 DEF BusInv, BusTypes
  <2>3. Listened'
    BY <1>1, <2>1 DEF BusInv, Listened
  <2> QED
    BY <2>2, <2>3
<1>3. WorkIsSeen'
  <2> SUFFICES ASSUME NEW c \in Consumers, queue'[c] # <<>>
               PROVE  listen'[c] \in {"locks", "works"}
    BY DEF WorkIsSeen
  <2>1. CASE member[c] = "in"
    BY <2>1, <1>1 DEF BusInv, Listened
  <2>2. CASE member[c] # "in"
    <3>1. queue'[c] = queue[c]
      BY <2>2 DEF Broadcast, Subscribed
    <3> QED
      BY <3>1, <1>1 DEF BusInv, WorkIsSeen
  <2> QED
    BY <2>1, <2>2
<1>4. NoLostWakeup'
  BY <1>1 DEF NoLostWakeup
<1> QED
  BY <1>2, <1>3, <1>4 DEF BusInv

(* Listen (event.go): it sleeps, or returns, when its own queue is empty;  *)
(* it broadcasts when it has worked one off.                               *)
LEMMA ListenKeeps ==
    ASSUME NEW c \in Consumers, BusInv, ListenStep(c)
    PROVE  BusInv'
<1>1. CASE ListenWaits(c)
  BY <1>1 DEF BusInv, BusTypes, Listened, WorkIsSeen, NoLostWakeup, ListenWaits
<1>2. CASE ListenReturns(c)
  BY <1>2 DEF BusInv, BusTypes, Listened, WorkIsSeen, NoLostWakeup, ListenReturns
<1>3. CASE ListenTakes(c)
  BY <1>3 DEF BusInv, BusTypes, Listened, WorkIsSeen, NoLostWakeup, ListenTakes
<1>4. CASE ListenSignals(c)
  <2>1. /\ listen' = [d \in Consumers |->
                        IF d = c THEN "locks"
                        ELSE IF listen[d] = "waits" THEN "locks" ELSE listen[d]]
        /\ publish' = [q \in Publishers |->
                         IF publish[q] = "waits" THEN "locks" ELSE publish[q]]
    BY <1>4 DEF BusInv, BusTypes, ListenSignals, Woken
  <2>2. BusTypes'
    <3>1. member' = member /\ DOMAIN queue' = Consumers
      BY <1>4 DEF BusInv, BusTypes, ListenSignals
    <3> QED
      BY <2>1, <3>1 DEF BusInv, BusTypes
  <2>3. Listened' /\ WorkIsSeen'
    BY <1>4, <2>1 DEF BusInv, Listened, WorkIsSeen, ListenSignals
  <2>4. NoLostWakeup'
    BY <2>1 DEF NoLostWakeup
  <2> QED
    BY <2>2, <2>3, <2>4 DEF BusInv
<1> QED
  BY <1>1, <1>2, <1>3, <1>4 DEF ListenStep

(* What the rest of the monitor and its readers do to the group is one of  *)
(* the steps above.                                                        *)
LEMMA OnlyBusActions ==
    ASSUME [Next]_vars
    PROVE  \/ \E c \in Consumers : Subscribe(c) \/ Del(c) \/ ListenStep(c)
           \/ \E p \in Publishers : \/ \E e : Publish(p, e)
                                    \/ BroadcastWaits(p) \/ Broadcast(p)
           \/ UNCHANGED watched
<1> DEFINE Acts == \/ \E c \in Consumers : Subscribe(c) \/ Del(c) \/ ListenStep(c)
                   \/ \E p \in Publishers : \/ \E e : Publish(p, e)
                                            \/ BroadcastWaits(p) \/ Broadcast(p)
                   \/ UNCHANGED watched
<1>1. CASE UNCHANGED vars
  BY <1>1 DEF vars, busVars, watched
<1>2. CASE \E w \in Writers : Logs(w)
  BY <1>2 DEF Logs, busVars, watched
<1>3. CASE \E w \in AllWriters : WriteStep(w)
  BY <1>3 DEF WriteStep, WriteKeeps, WriteSends, WriteCounts, busVars, watched
<1>4. CASE LoopStep
  <2> Loop \in Publishers
    BY LogAssumption
  <2>1. CASE LoopReceives \/ LoopSwaps
    BY <2>1 DEF LoopReceives, LoopSwaps, busVars, watched
  <2>2. CASE LoopNotices \/ LoopDelivers
    BY <2>2 DEF LoopNotices, LoopDelivers
  <2>3. CASE LoopBroadcasts
    BY <2>3 DEF LoopBroadcasts
  <2> QED
    BY <1>4, <2>1, <2>2, <2>3 DEF LoopStep
<1>5. ASSUME NEW c \in Readers, ConsumerStep(c)
      PROVE  Acts
  <2>1. CASE Listens(c)
    BY <2>1 DEF Listens, Readers
  <2>2. CASE CallbackSends(c) \/ StreamDrops(c) \/ UIDrops(c)
    BY <2>2 DEF CallbackSends, StreamDrops, UIDrops, HandlerReturns, watched
  <2> QED
    BY <1>5, <2>1, <2>2 DEF ConsumerStep
<1>6. ASSUME NEW c \in Readers, RequestStep(c)
      PROVE  Acts
  <2>1. CASE StreamSubscribes(c) \/ UISubscribes(c)
    BY <2>1 DEF StreamSubscribes, UISubscribes, Readers
  <2>2. CASE ReaderLeaves(c)
    BY <2>2 DEF ReaderLeaves, Readers
  <2>3. CASE StreamHistory(c) \/ UIHistory(c) \/ ReaderWrites(c)
    BY <2>3 DEF StreamHistory, UIHistory, ReaderWrites, busVars, watched
  <2> QED
    BY <1>6, <2>1, <2>2, <2>3 DEF RequestStep
<1> QED
  BY <1>1, <1>2, <1>3, <1>4, <1>5, <1>6 DEF Next

(* No step loses the invariant.                                            *)
LEMMA BusStep == BusInv /\ [Next]_vars => BusInv'
<1> SUFFICES ASSUME BusInv, [Next]_vars PROVE BusInv'
  OBVIOUS
<1>1. CASE UNCHANGED watched
  BY <1>1 DEF watched, BusInv, BusTypes, Listened, WorkIsSeen, NoLostWakeup
<1> QED
  BY <1>1, OnlyBusActions, SubscribeKeeps, DelKeeps, ListenKeeps, PublishKeeps,
     BroadcastWaitsKeeps, BroadcastKeeps

(* In every reachable state of a log monitor, a publisher that sleeps on a *)
(* full queue will be woken: some Listen goroutine works, or is about to   *)
(* (event.go Broadcast and Listen).                                        *)
THEOREM PublisherIsWoken == Spec => []NoLostWakeup
<1>1. BusInv => NoLostWakeup
  BY DEF BusInv
<1> QED
  BY <1>1, BusStarts, BusStep, PTL DEF Spec

-----------------------------------------------------------------------------
(* What a sequence has, and in which order.                                *)

Has(s, x) == \E i \in 1 .. Len(s) : s[i] = x
Follows(s, x, y) == \E i, j \in 1 .. Len(s) : i < j /\ s[i] = x /\ s[j] = y

(* Of two sequences the first comes first.                                 *)
LEMMA ConcatOrder ==
    ASSUME NEW s \in Seq(Int), NEW t \in Seq(Int)
    PROVE  /\ s \o t \in Seq(Int)
           /\ \A x : Has(s \o t, x) <=> Has(s, x) \/ Has(t, x)
           /\ \A x, y : Follows(s \o t, x, y) <=>
                Follows(s, x, y) \/ Follows(t, x, y) \/ (Has(s, x) /\ Has(t, y))
<1> DEFINE u == s \o t
<1>1. /\ u \in Seq(Int) /\ Len(u) = Len(s) + Len(t) /\ Len(s) \in Nat /\ Len(t) \in Nat
      /\ \A i \in 1 .. (Len(s) + Len(t)) : u[i] = IF i <= Len(s) THEN s[i] ELSE t[i - Len(s)]
  BY ONLY s \in Seq(Int), t \in Seq(Int)
<1> HIDE DEF u
<1> DEFINE n == Len(s)
           m == Len(t)
<1> HIDE DEF n, m
<1>a. /\ n \in Nat /\ m \in Nat /\ n = Len(s) /\ m = Len(t) /\ Len(u) = n + m
      /\ \A i \in 1 .. (n + m) : u[i] = IF i <= n THEN s[i] ELSE t[i - n]
  BY <1>1 DEF n, m
<1>2. \A i \in 1 .. Len(s) : i \in 1 .. Len(u) /\ u[i] = s[i]
  BY <1>a
<1>3. ASSUME NEW i \in 1 .. Len(t)
      PROVE  n + i \in 1 .. Len(u) /\ u[n + i] = t[i]
  <2>1. i \in 1 .. m
    BY <1>a
  <2>2. i \in Nat /\ 1 <= i /\ i <= m
    BY <2>1
  <2>3. n + i \in 1 .. (n + m) /\ ~(n + i <= n) /\ (n + i) - n = i
    BY <1>a, <2>2
  <2> QED BY <1>a, <2>3
<1>4. \A i \in 1 .. Len(u) : \/ i \in 1 .. Len(s) /\ u[i] = s[i]
                             \/ i > n /\ i - n \in 1 .. Len(t) /\ u[i] = t[i - n]
  BY <1>a
<1>5. ASSUME NEW x
      PROVE  Has(u, x) <=> Has(s, x) \/ Has(t, x)
  BY <1>2, <1>3, <1>4 DEF Has
<1>6. ASSUME NEW x, NEW y, Follows(u, x, y)
      PROVE  Follows(s, x, y) \/ Follows(t, x, y) \/ (Has(s, x) /\ Has(t, y))
  <2>1. PICK i \in 1 .. Len(u), j \in 1 .. Len(u) : i < j /\ u[i] = x /\ u[j] = y
    BY <1>6 DEF Follows
  <2>2. CASE j \in 1 .. Len(s)
    <3>1. i \in 1 .. Len(s)
      BY <1>a, <2>1, <2>2
    <3> QED BY <1>2, <2>1, <2>2, <3>1 DEF Follows
  <2>3. CASE j \notin 1 .. Len(s) /\ i \in 1 .. Len(s)
    <3>1. s[i] = x
      BY <1>2, <2>1, <2>3
    <3>2. j - n \in 1 .. Len(t) /\ t[j - n] = y
      BY <1>4, <2>1, <2>3
    <3> QED BY <2>3, <3>1, <3>2 DEF Has
  <2>4. CASE j \notin 1 .. Len(s) /\ i \notin 1 .. Len(s)
    <3>1. i - n \in 1 .. Len(t) /\ j - n \in 1 .. Len(t) /\ i - n < j - n
      BY <1>a, <1>4, <2>1, <2>4
    <3>2. t[i - n] = x /\ t[j - n] = y
      BY <1>4, <2>1, <2>4
    <3> QED BY <3>1, <3>2 DEF Follows
  <2> QED BY <2>2, <2>3, <2>4
<1>7. ASSUME NEW x, NEW y, Follows(s, x, y) \/ Follows(t, x, y) \/ (Has(s, x) /\ Has(t, y))
      PROVE  Follows(u, x, y)
  <2>1. CASE Follows(s, x, y)
    BY <1>2, <2>1 DEF Follows
  <2>2. CASE Follows(t, x, y)
    <3>1. PICK i \in 1 .. Len(t), j \in 1 .. Len(t) : i < j /\ t[i] = x /\ t[j] = y
      BY <2>2 DEF Follows
    <3>2. n + i < n + j
      BY <1>a, <3>1
    <3> QED BY <1>3, <3>1, <3>2 DEF Follows
  <2>3. CASE Has(s, x) /\ Has(t, y)
    <3>1. PICK i \in 1 .. Len(s), j \in 1 .. Len(t) : s[i] = x /\ t[j] = y
      BY <2>3 DEF Has
    <3>2. i < n + j
      BY <1>a, <3>1
    <3> QED BY <1>2, <1>3, <3>1, <3>2 DEF Follows
  <2> QED BY <1>7, <2>1, <2>2, <2>3
<1> QED BY <1>1, <1>5, <1>6, <1>7 DEF u

(* A new last item.                                                        *)
LEMMA AppendOrder ==
    ASSUME NEW s \in Seq(Int), NEW e \in Int
    PROVE  /\ Append(s, e) \in Seq(Int)
           /\ \A x : Has(Append(s, e), x) <=> Has(s, x) \/ x = e
           /\ \A x, y : Follows(Append(s, e), x, y) <=> Follows(s, x, y) \/ (Has(s, x) /\ y = e)
<1>1. <<e>> \in Seq(Int) /\ Len(<<e>>) = 1 /\ <<e>>[1] = e
  OBVIOUS
<1> DEFINE t == <<e>>
<1>2. Append(s, e) = s \o t
  OBVIOUS
<1> HIDE DEF t
<1>3. (\A x : Has(t, x) <=> x = e) /\ (\A x, y : ~Follows(t, x, y))
  BY <1>1 DEF Has, Follows, t
<1>4. t \in Seq(Int)
  BY <1>1 DEF t
<1>5. /\ s \o t \in Seq(Int)
      /\ \A x : Has(s \o t, x) <=> Has(s, x) \/ Has(t, x)
      /\ \A x, y : Follows(s \o t, x, y) <=>
           Follows(s, x, y) \/ Follows(t, x, y) \/ (Has(s, x) /\ Has(t, y))
  BY ONLY s \in Seq(Int), <1>4, ConcatOrder
<1> QED BY ONLY <1>2, <1>3, <1>5

(* The first item, and the others.                                         *)
LEMMA HeadOrder ==
    ASSUME NEW s \in Seq(Int), s # <<>>
    PROVE  /\ Tail(s) \in Seq(Int) /\ Head(s) \in Int
           /\ \A x : Has(s, x) <=> x = Head(s) \/ Has(Tail(s), x)
           /\ \A x, y : Follows(s, x, y) <=> Follows(Tail(s), x, y) \/ (x = Head(s) /\ Has(Tail(s), y))
<1> DEFINE t == <<Head(s)>>
           u == Tail(s)
<1>1. /\ u \in Seq(Int) /\ Head(s) \in Int /\ s = t \o u
  OBVIOUS
<1>2. t \in Seq(Int) /\ Len(t) = 1 /\ t[1] = Head(s)
  BY <1>1
<1> HIDE DEF t, u
<1>3. (\A x : Has(t, x) <=> x = Head(s)) /\ (\A x, y : ~Follows(t, x, y))
  BY <1>2 DEF Has, Follows
<1>4. /\ \A x : Has(t \o u, x) <=> Has(t, x) \/ Has(u, x)
      /\ \A x, y : Follows(t \o u, x, y) <=>
           Follows(t, x, y) \/ Follows(u, x, y) \/ (Has(t, x) /\ Has(u, y))
  BY ONLY <1>1, <1>2, ConcatOrder
<1>5. /\ \A x : Has(s, x) <=> x = Head(s) \/ Has(u, x)
      /\ \A x, y : Follows(s, x, y) <=> Follows(u, x, y) \/ (x = Head(s) /\ Has(u, y))
  BY ONLY <1>1, <1>3, <1>4
<1> QED BY <1>1, <1>5 DEF u

(* Nothing.                                                                *)
LEMMA EmptyOrder ==
    <<>> \in Seq(Int) /\ (\A x : ~Has(<<>>, x)) /\ (\A x, y : ~Follows(<<>>, x, y))
  BY DEF Has, Follows

-----------------------------------------------------------------------------
(* The lines of the monitor: whatever has left Write is in one place only, *)
(* so no number is published twice.                                        *)

LineTypes ==
    /\ wpc \in [AllWriters -> {"idle", "keeps", "sends", "counts"}]
    /\ line \in [AllWriters -> Nat]
    /\ size \in [1 .. MaxWrites -> Nat \ {0}]
    /\ written \in 0 .. MaxWrites
    /\ channel \in Seq(Int) /\ published \in Seq(Int)
    /\ hand \in Nat /\ notice \in Nat /\ dropped \in Nat
    /\ \A w \in AllWriters : wpc[w] # "idle" => line[w] \in 1 .. written

Unsent(w) == wpc[w] \in {"keeps", "sends"}

(* A line that Write still has is nowhere else.                            *)
UnsentOnce ==
    \A w \in AllWriters : Unsent(w) =>
        /\ ~Has(published, line[w]) /\ ~Has(channel, line[w]) /\ line[w] # hand
        /\ \A v \in AllWriters : Unsent(v) /\ v # w => line[v] # line[w]

(* Nor is one in the channel, nor one that broadcastLoop holds.            *)
ChannelOnce ==
    \A x : Has(channel, x) =>
        /\ x > 0 /\ x <= written
        /\ ~Has(published, x) /\ x # hand /\ ~Follows(channel, x, x)

HandOnce == hand # 0 => hand <= written /\ ~Has(published, hand)

PublishedOnce ==
    \A x \in Int : x > 0 /\ Has(published, x) =>
        x <= written /\ ~Follows(published, x, x)

LineInv == LineTypes /\ UnsentOnce /\ ChannelOnce /\ HandOnce /\ PublishedOnce

-----------------------------------------------------------------------------
(* The lines on their way from the bus to a reader.                        *)

Sent(c) == shown[c] \o outbox[c] \o pending[c] \o queue[c]

SentTypes ==
    /\ queue \in [Consumers -> Seq(Int)] /\ pending \in [Consumers -> Seq(Int)]
    /\ outbox \in [Consumers -> Seq(Int)] /\ shown \in [Consumers -> Seq(Int)]
    /\ DOMAIN offered = Publishers
    /\ publish[Loop] # "idle" => offered[Loop] \in Int

(* Listen takes its queue when it is done with what it took before.        *)
BatchDone == \A c \in Consumers : listen[c] # "works" => pending[c] = <<>>

SentAsPublished ==
    \A c \in Consumers :
        /\ \A x \in Int : x > 0 /\ Has(Sent(c), x) => Has(published, x)
        /\ \A x, y \in Int : x > 0 /\ y > 0 /\ Follows(Sent(c), x, y) => Follows(published, x, y)

(* The event that waits for room was published after all that a reader has.*)
OfferedIsLast ==
    publish[Loop] # "idle" /\ offered[Loop] > 0 =>
        /\ Has(published, offered[Loop])
        /\ \A c \in Consumers : \A x \in Int :
             x > 0 /\ Has(Sent(c), x) => Follows(published, x, offered[Loop])

SentInv == SentTypes /\ BatchDone /\ SentAsPublished /\ OfferedIsLast

-----------------------------------------------------------------------------
(* No step puts a line where it already is.                                *)

lineVars == <<wpc, line, size, written, channel, dropped, hand, notice, published>>

(* Nothing is written yet.                                                 *)
LEMMA LinesStart == Init => LineInv
<1> SUFFICES ASSUME Init PROVE LineInv
  OBVIOUS
<1>1. /\ channel = <<>> /\ published = <<>> /\ written = 0 /\ hand = 0
      /\ notice = 0 /\ dropped = 0
      /\ wpc = [w \in AllWriters |-> "idle"] /\ line = [w \in AllWriters |-> 0]
      /\ size \in [1 .. MaxWrites -> Nat \ {0}]
  BY LogAssumption DEF Init
<1>2. LineTypes
  BY <1>1, EmptyOrder, LogAssumption DEF LineTypes
<1>3. UnsentOnce
  BY <1>1 DEF UnsentOnce, Unsent
<1>4. ChannelOnce /\ HandOnce /\ PublishedOnce
  BY <1>1, EmptyOrder DEF ChannelOnce, HandOnce, PublishedOnce
<1> QED BY <1>2, <1>3, <1>4 DEF LineInv

(* Write begins (logging.go Write): the line is a new one.                 *)
LEMMA BeginWriteKeeps ==
    ASSUME NEW w \in AllWriters, NEW b, LineInv, wpc[w] = "idle", written < MaxWrites,
           BeginWrite(w, b), UNCHANGED <<channel, dropped, hand, notice, published>>
    PROVE  LineInv'
<1> DEFINE n == written + 1
<1>1. /\ wpc' = [wpc EXCEPT ![w] = "keeps"] /\ line' = [line EXCEPT ![w] = n]
      /\ written' = n /\ n \in 1 .. MaxWrites /\ size' = size
      /\ written \in Nat /\ MaxWrites \in Nat
  BY LogAssumption DEF BeginWrite, LineInv, LineTypes
<1>2. /\ wpc'[w] = "keeps" /\ line'[w] = n
      /\ \A v \in AllWriters : v # w => wpc'[v] = wpc[v] /\ line'[v] = line[v]
  BY <1>1 DEF LineInv, LineTypes
<1>3. LineTypes'
  <2>1. wpc' \in [AllWriters -> {"idle", "keeps", "sends", "counts"}] /\ line' \in [AllWriters -> Nat]
    BY <1>1 DEF LineInv, LineTypes
  <2>2. \A v \in AllWriters : wpc'[v] # "idle" => line'[v] \in 1 .. written'
    BY <1>1, <1>2 DEF LineInv, LineTypes
  <2> QED BY <1>1, <2>1, <2>2 DEF LineInv, LineTypes
<1>4. ~Has(published, n) /\ ~Has(channel, n) /\ n # hand
  BY <1>1 DEF LineInv, LineTypes, PublishedOnce, ChannelOnce, HandOnce
<1>5. ASSUME NEW v \in AllWriters, Unsent(v)
      PROVE  line[v] # n
  <2>1. line[v] \in 1 .. written
    BY <1>5 DEF LineInv, LineTypes, Unsent
  <2> QED BY <1>1, <2>1
<1>6. UnsentOnce'
  <2> SUFFICES ASSUME NEW v \in AllWriters, wpc'[v] \in {"keeps", "sends"}
               PROVE  /\ ~Has(published, line'[v]) /\ ~Has(channel, line'[v]) /\ line'[v] # hand
                      /\ \A x \in AllWriters : wpc'[x] \in {"keeps", "sends"} /\ x # v
                                                 => line'[x] # line'[v]
    BY DEF UnsentOnce, Unsent
  <2>1. CASE v = w
    BY <1>2, <1>4, <1>5, <2>1 DEF Unsent
  <2>2. CASE v # w
    BY <1>2, <1>5, <2>2 DEF LineInv, UnsentOnce, Unsent
  <2> QED BY <2>1, <2>2
<1>7. ChannelOnce' /\ HandOnce' /\ PublishedOnce'
  <2>1. \A x \in Int : x <= written => x <= n
    BY <1>1
  <2>2. \A x : Has(channel, x) => x \in Int
    BY DEF Has, LineInv, LineTypes
  <2>3. hand \in Int
    BY DEF LineInv, LineTypes
  <2>4. /\ \A x : Has(channel, x) => x <= n
        /\ \A x \in Int : x > 0 /\ Has(published, x) => x <= n
        /\ hand # 0 => hand <= n
    BY <2>1, <2>2, <2>3 DEF LineInv, ChannelOnce, HandOnce, PublishedOnce
  <2> QED BY <1>1, <2>4 DEF LineInv, ChannelOnce, HandOnce, PublishedOnce
<1> QED BY <1>3, <1>6, <1>7 DEF LineInv

(* Write goes on (logging.go Write).                                       *)
LEMMA WriteStepKeeps ==
    ASSUME NEW w \in AllWriters, LineInv, WriteStep(w)
    PROVE  LineInv'
<1>1. CASE WriteKeeps(w)
  <2>1. /\ wpc' = [wpc EXCEPT ![w] = "sends"] /\ wpc[w] = "keeps"
        /\ UNCHANGED <<line, size, written, channel, dropped, hand, notice, published>>
    BY <1>1 DEF WriteKeeps, loopVars
  <2>2. \A v \in AllWriters : /\ wpc'[v] \in {"keeps", "sends"} => Unsent(v)
                              /\ wpc'[v] # "idle" => wpc[v] # "idle"
    BY <2>1 DEF Unsent, LineInv, LineTypes
  <2>3. LineTypes'
    BY <2>1, <2>2 DEF LineInv, LineTypes
  <2>4. UnsentOnce'
    BY <2>1, <2>2 DEF LineInv, UnsentOnce, Unsent
  <2> QED BY <2>1, <2>3, <2>4 DEF LineInv, ChannelOnce, HandOnce, PublishedOnce
<1>2. CASE WriteCounts(w) \/ (WriteSends(w) /\ Len(channel) >= ChanCap)
  <2>1. /\ \/ wpc' = [wpc EXCEPT ![w] = "idle"] /\ dropped' = dropped + size[line[w]]
           \/ wpc' = [wpc EXCEPT ![w] = "counts"] /\ dropped' = dropped
        /\ wpc[w] # "idle"
        /\ UNCHANGED <<line, size, written, channel, hand, notice, published>>
    <3>1. CASE WriteCounts(w)
      BY <3>1 DEF WriteCounts, loopVars
    <3>2. CASE WriteSends(w) /\ Len(channel) >= ChanCap
      <4>1. ~(Len(channel) < ChanCap)
        BY <3>2, LogAssumption DEF LineInv, LineTypes
      <4> QED BY <3>2, <4>1 DEF WriteSends, loopVars
    <3> QED BY <1>2, <3>1, <3>2
  <2>2. \A v \in AllWriters : /\ wpc'[v] \in {"keeps", "sends"} => Unsent(v)
                              /\ wpc'[v] # "idle" => wpc[v] # "idle"
    BY <2>1 DEF Unsent, LineInv, LineTypes
  <2>3. dropped' \in Nat
    <3>1. line[w] \in 1 .. MaxWrites
      BY <2>1, LogAssumption DEF LineInv, LineTypes
    <3>2. size[line[w]] \in Nat /\ dropped \in Nat
      BY <3>1 DEF LineInv, LineTypes
    <3> QED BY <2>1, <3>2
  <2>4. LineTypes'
    BY <2>1, <2>2, <2>3 DEF LineInv, LineTypes
  <2>5. UnsentOnce'
    BY <2>1, <2>2 DEF LineInv, UnsentOnce, Unsent
  <2> QED BY <2>1, <2>4, <2>5 DEF LineInv, ChannelOnce, HandOnce, PublishedOnce
<1>3. CASE WriteSends(w) /\ Len(channel) < ChanCap
  <2> DEFINE e == line[w]
  <2>1. /\ channel' = Append(channel, e) /\ wpc' = [wpc EXCEPT ![w] = "idle"]
        /\ wpc[w] = "sends" /\ Unsent(w)
        /\ UNCHANGED <<line, size, written, dropped, hand, notice, published>>
    BY <1>3 DEF WriteSends, loopVars, Unsent
  <2>2. e \in Int /\ e > 0 /\ e <= written
    BY <2>1 DEF LineInv, LineTypes
  <2>3. channel \in Seq(Int)
    BY DEF LineInv, LineTypes
  <2>4. ~Has(published, e) /\ ~Has(channel, e) /\ e # hand
    BY <2>1 DEF LineInv, UnsentOnce
  <2>5. \A v \in AllWriters : /\ wpc'[v] \in {"keeps", "sends"} => Unsent(v) /\ v # w
                              /\ wpc'[v] # "idle" => wpc[v] # "idle"
    BY <2>1 DEF Unsent, LineInv, LineTypes
  <2> HIDE DEF e
  <2>6. /\ channel' \in Seq(Int)
        /\ \A x : Has(channel', x) <=> Has(channel, x) \/ x = e
        /\ \A x, y : Follows(channel', x, y) <=> Follows(channel, x, y) \/ (Has(channel, x) /\ y = e)
    BY <2>1, <2>2, <2>3, AppendOrder
  <2>7. LineTypes'
    <3>1. wpc' \in [AllWriters -> {"idle", "keeps", "sends", "counts"}]
      BY <2>1 DEF LineInv, LineTypes
    <3> QED BY <2>1, <2>5, <2>6, <3>1 DEF LineInv, LineTypes
  <2>8. UnsentOnce'
    <3> SUFFICES ASSUME NEW v \in AllWriters, wpc'[v] \in {"keeps", "sends"}
                 PROVE  /\ ~Has(published, line[v]) /\ ~Has(channel', line[v]) /\ line[v] # hand
                        /\ \A x \in AllWriters : wpc'[x] \in {"keeps", "sends"} /\ x # v
                                                   => line[x] # line[v]
      BY <2>1 DEF UnsentOnce, Unsent
    <3>1. Unsent(v) /\ v # w
      BY <2>5
    <3>2. line[v] # e
      BY <2>1, <3>1 DEF LineInv, UnsentOnce, e
    <3> QED BY <2>5, <2>6, <3>1, <3>2 DEF LineInv, UnsentOnce
  <2>9. ChannelOnce'
    <3> SUFFICES ASSUME NEW x, Has(channel', x)
                 PROVE  /\ x > 0 /\ x <= written /\ ~Has(published, x) /\ x # hand
                        /\ ~Follows(channel', x, x)
      BY <2>1 DEF ChannelOnce
    <3>1. CASE x = e
      <4>1. ~Follows(channel, e, e)
        BY <2>4 DEF Follows, Has
      <4> QED BY <2>2, <2>4, <2>6, <3>1, <4>1
    <3>2. CASE x # e /\ Has(channel, x)
      BY <2>6, <3>2 DEF LineInv, ChannelOnce
    <3> QED BY <2>6, <3>1, <3>2
  <2> QED BY <2>1, <2>7, <2>8, <2>9 DEF LineInv, HandOnce, PublishedOnce
<1>4. Len(channel) < ChanCap \/ Len(channel) >= ChanCap
  BY LogAssumption DEF LineInv, LineTypes
<1> QED BY <1>1, <1>2, <1>3, <1>4 DEF WriteStep

(* broadcastLoop takes a line from the channel.                            *)
LEMMA ReceiveKeeps ==
    ASSUME LineInv, LoopReceives
    PROVE  LineInv'
<1>1. /\ hand' = Head(channel) /\ channel' = Tail(channel) /\ channel # <<>>
      /\ UNCHANGED <<wpc, line, size, written, dropped, notice, published>>
  BY DEF LoopReceives, writeVars
<1>2. channel \in Seq(Int)
  BY DEF LineInv, LineTypes
<1>3. /\ channel' \in Seq(Int) /\ hand' \in Int
      /\ \A x : Has(channel, x) <=> x = hand' \/ Has(channel', x)
      /\ \A x, y : Follows(channel, x, y) <=> Follows(channel', x, y) \/ (x = hand' /\ Has(channel', y))
  BY <1>1, <1>2, HeadOrder
<1>4. hand' > 0 /\ hand' <= written /\ ~Has(published, hand') /\ ~Has(channel', hand')
  BY <1>3 DEF LineInv, ChannelOnce
<1>5. LineTypes'
  BY <1>1, <1>3, <1>4 DEF LineInv, LineTypes
<1>6. UnsentOnce'
  BY <1>1, <1>3 DEF LineInv, UnsentOnce, Unsent
<1>7. ChannelOnce'
  <2> SUFFICES ASSUME NEW x, Has(channel', x)
               PROVE  /\ x > 0 /\ x <= written /\ ~Has(published, x) /\ x # hand'
                      /\ ~Follows(channel', x, x)
    BY <1>1 DEF ChannelOnce
  <2> QED BY <1>3, <1>4 DEF LineInv, ChannelOnce
<1> QED BY <1>1, <1>4, <1>5, <1>6, <1>7 DEF LineInv, HandOnce, PublishedOnce

(* It publishes a notice, or the line it took.                             *)
LEMMA PublicationKeeps ==
    ASSUME LineInv, NEW e \in Int, published' = Append(published, e),
           \/ e <= 0 /\ hand' = hand
           \/ e = hand /\ hand' = 0,
           notice' \in Nat, UNCHANGED <<wpc, line, size, written, channel, dropped>>
    PROVE  LineInv'
<1>1. published \in Seq(Int) /\ hand \in Nat /\ written \in Nat
  BY LogAssumption DEF LineInv, LineTypes
<1>2. /\ published' \in Seq(Int)
      /\ \A x : Has(published', x) <=> Has(published, x) \/ x = e
      /\ \A x, y : Follows(published', x, y) <=> Follows(published, x, y) \/ (Has(published, x) /\ y = e)
  BY <1>1, AppendOrder
<1>3. hand' \in Nat /\ (hand' = hand \/ hand' = 0)
  BY <1>1
<1>4. LineTypes'
  BY <1>2, <1>3 DEF LineInv, LineTypes
<1>5. \A x \in Int : x > 0 /\ x = e => x = hand /\ hand' = 0
  BY <1>1
<1>6. \A w \in AllWriters : Unsent(w) => line[w] \in Int /\ line[w] > 0
  BY <1>1 DEF LineInv, LineTypes, Unsent
<1>7. UnsentOnce'
  <2> SUFFICES ASSUME NEW w \in AllWriters, Unsent(w)
               PROVE  ~Has(published', line[w]) /\ line[w] # hand'
    BY DEF LineInv, UnsentOnce, Unsent
  <2>1. line[w] \in Int /\ line[w] > 0 /\ ~Has(published, line[w]) /\ line[w] # hand
    BY <1>6 DEF LineInv, UnsentOnce
  <2> QED BY <1>2, <1>3, <1>5, <2>1
<1>8. ChannelOnce'
  <2> SUFFICES ASSUME NEW x, Has(channel, x)
               PROVE  ~Has(published', x) /\ x # hand'
    BY DEF LineInv, ChannelOnce
  <2>0. channel \in Seq(Int)
    BY DEF LineInv, LineTypes
  <2>1. x \in Int /\ x > 0 /\ ~Has(published, x) /\ x # hand
    <3>1. x \in Int
      BY <2>0 DEF Has
    <3> QED BY <3>1 DEF LineInv, ChannelOnce
  <2> QED BY <1>2, <1>3, <1>5, <2>1
<1>9. HandOnce'
  <2> SUFFICES ASSUME hand' # 0
               PROVE  hand' <= written /\ ~Has(published', hand')
    BY DEF HandOnce
  <2>1. hand' = hand /\ hand # e /\ hand # 0
    BY <1>1
  <2> QED BY <1>2, <2>1 DEF LineInv, HandOnce
<1>10. PublishedOnce'
  <2> SUFFICES ASSUME NEW x \in Int, x > 0, Has(published', x)
               PROVE  x <= written /\ ~Follows(published', x, x)
    BY DEF PublishedOnce
  <2>1. CASE x = e
    <3>1. x = hand /\ hand # 0 /\ x <= written /\ ~Has(published, x)
      BY <1>1, <1>5, <2>1 DEF LineInv, HandOnce
    <3>2. ~Follows(published, x, x)
      BY <3>1 DEF Follows, Has
    <3> QED BY <1>2, <3>1, <3>2
  <2>2. CASE x # e
    BY <1>2, <2>2 DEF LineInv, PublishedOnce
  <2> QED BY <2>1, <2>2
<1> QED BY <1>4, <1>7, <1>8, <1>9, <1>10 DEF LineInv

(* No step loses it.                                                       *)
LEMMA LinesStep == LineInv /\ [Next]_vars => LineInv'
<1> SUFFICES ASSUME LineInv, [Next]_vars PROVE LineInv'
  OBVIOUS
<1>0. ASSUME UNCHANGED lineVars PROVE LineInv'
  BY <1>0 DEF lineVars, LineInv, LineTypes, UnsentOnce, Unsent, ChannelOnce, HandOnce, PublishedOnce
<1>1. CASE UNCHANGED vars
  BY <1>0, <1>1 DEF vars, lineVars, writeVars, monitorVars, loopVars
<1>2. ASSUME NEW w \in Writers, Logs(w) PROVE LineInv'
  BY <1>2, BeginWriteKeeps DEF Logs, AllWriters, monitorVars, loopVars
<1>3. ASSUME NEW w \in AllWriters, WriteStep(w) PROVE LineInv'
  BY <1>3, WriteStepKeeps
<1>4. CASE LoopStep
  <2>1. CASE LoopReceives
    BY <2>1, ReceiveKeeps
  <2>2. CASE LoopSwaps
    <3>1. notice' = dropped /\ dropped' = 0 /\ UNCHANGED <<wpc, line, size, written, channel, hand, published>>
      BY <2>2 DEF LoopSwaps, writeVars
    <3>2. LineTypes'
      BY <3>1 DEF LineInv, LineTypes
    <3> QED BY <3>1, <3>2 DEF LineInv, UnsentOnce, Unsent, ChannelOnce, HandOnce, PublishedOnce
  <2>3. CASE LoopNotices
    <3>1. /\ published' = Append(published, -notice) /\ hand' = hand /\ notice' = 0
          /\ UNCHANGED <<wpc, line, size, written, channel, dropped>>
      BY <2>3 DEF LoopNotices, writeVars, monitorVars
    <3>2. -notice \in Int /\ -notice <= 0 /\ notice' \in Nat
      BY <3>1 DEF LineInv, LineTypes
    <3> QED BY <3>1, <3>2, PublicationKeeps
  <2>4. CASE LoopDelivers
    <3>1. /\ published' = Append(published, hand) /\ hand' = 0 /\ notice' = notice
          /\ UNCHANGED <<wpc, line, size, written, channel, dropped>>
      BY <2>4 DEF LoopDelivers, writeVars, monitorVars
    <3>2. hand \in Int /\ notice' \in Nat
      BY <3>1 DEF LineInv, LineTypes
    <3> QED BY <3>1, <3>2, PublicationKeeps
  <2>5. CASE LoopBroadcasts
    BY <1>0, <2>5 DEF LoopBroadcasts, lineVars, writeVars, monitorVars, loopVars
  <2> QED BY <1>4, <2>1, <2>2, <2>3, <2>4, <2>5 DEF LoopStep
<1>5. ASSUME NEW c \in Readers, ConsumerStep(c) PROVE LineInv'
  <2>1. CASE UIDrops(c) /\ written < MaxWrites
    BY <2>1, BeginWriteKeeps DEF UIDrops, AllWriters, Readers, monitorVars, loopVars
  <2>2. CASE UIDrops(c) /\ ~(written < MaxWrites)
    BY <1>0, <2>2 DEF UIDrops, lineVars, writeVars, monitorVars, loopVars
  <2>3. CASE Listens(c) \/ CallbackSends(c) \/ StreamDrops(c)
    BY <1>0, <2>3 DEF Listens, CallbackSends, StreamDrops, lineVars, writeVars, monitorVars, loopVars
  <2> QED BY <1>5, <2>1, <2>2, <2>3 DEF ConsumerStep
<1>6. ASSUME NEW c \in Readers, RequestStep(c) PROVE LineInv'
  <2>1. UNCHANGED <<writeVars, monitorVars, loopVars>>
    BY <1>6 DEF RequestStep, StreamHistory, StreamSubscribes, UISubscribes, UIHistory,
                ReaderWrites, ReaderLeaves
  <2> QED BY <1>0, <2>1 DEF lineVars, writeVars, monitorVars, loopVars
<1> QED BY <1>1, <1>2, <1>3, <1>4, <1>5, <1>6 DEF Next

-----------------------------------------------------------------------------
(* What passes on to a reader keeps its order, or is left out.             *)

(* Four sequences one after the other.                                     *)
LEMMA FourOrder ==
    ASSUME NEW s \in Seq(Int), NEW t \in Seq(Int), NEW u \in Seq(Int), NEW v \in Seq(Int)
    PROVE  /\ s \o t \o u \o v \in Seq(Int)
           /\ \A x : Has(s \o t \o u \o v, x) <=> Has(s, x) \/ Has(t, x) \/ Has(u, x) \/ Has(v, x)
           /\ \A x, y : Follows(s \o t \o u \o v, x, y) <=>
                \/ Follows(s, x, y) \/ Follows(t, x, y) \/ Follows(u, x, y) \/ Follows(v, x, y)
                \/ Has(s, x) /\ (Has(t, y) \/ Has(u, y) \/ Has(v, y))
                \/ Has(t, x) /\ (Has(u, y) \/ Has(v, y))
                \/ Has(u, x) /\ Has(v, y)
<1> DEFINE a == s \o t
           b == a \o u
<1>1. /\ a \in Seq(Int)
      /\ \A x : Has(a, x) <=> Has(s, x) \/ Has(t, x)
      /\ \A x, y : Follows(a, x, y) <=> Follows(s, x, y) \/ Follows(t, x, y) \/ (Has(s, x) /\ Has(t, y))
  BY ONLY s \in Seq(Int), t \in Seq(Int), ConcatOrder
<1> HIDE DEF a
<1>2. /\ b \in Seq(Int)
      /\ \A x : Has(b, x) <=> Has(a, x) \/ Has(u, x)
      /\ \A x, y : Follows(b, x, y) <=> Follows(a, x, y) \/ Follows(u, x, y) \/ (Has(a, x) /\ Has(u, y))
  BY ONLY <1>1, u \in Seq(Int), ConcatOrder
<1> HIDE DEF b
<1>3. /\ b \o v \in Seq(Int)
      /\ \A x : Has(b \o v, x) <=> Has(b, x) \/ Has(v, x)
      /\ \A x, y : Follows(b \o v, x, y) <=> Follows(b, x, y) \/ Follows(v, x, y) \/ (Has(b, x) /\ Has(v, y))
  BY ONLY <1>2, v \in Seq(Int), ConcatOrder
<1>4. /\ \A x : Has(b \o v, x) <=> Has(s, x) \/ Has(t, x) \/ Has(u, x) \/ Has(v, x)
      /\ \A x, y : Follows(b \o v, x, y) <=>
           \/ Follows(s, x, y) \/ Follows(t, x, y) \/ Follows(u, x, y) \/ Follows(v, x, y)
           \/ Has(s, x) /\ (Has(t, y) \/ Has(u, y) \/ Has(v, y))
           \/ Has(t, x) /\ (Has(u, y) \/ Has(v, y))
           \/ Has(u, x) /\ Has(v, y)
  BY ONLY <1>1, <1>2, <1>3
<1> QED BY <1>3, <1>4 DEF a, b

(* Everything a reader has or will get, in order.                          *)
SentOrdered(c) ==
    /\ \A x : Has(Sent(c), x) <=>
         Has(shown[c], x) \/ Has(outbox[c], x) \/ Has(pending[c], x) \/ Has(queue[c], x)
    /\ \A x, y : Follows(Sent(c), x, y) <=>
         \/ Follows(shown[c], x, y) \/ Follows(outbox[c], x, y)
         \/ Follows(pending[c], x, y) \/ Follows(queue[c], x, y)
         \/ Has(shown[c], x) /\ (Has(outbox[c], y) \/ Has(pending[c], y) \/ Has(queue[c], y))
         \/ Has(outbox[c], x) /\ (Has(pending[c], y) \/ Has(queue[c], y))
         \/ Has(pending[c], x) /\ Has(queue[c], y)

LEMMA SentOrder ==
    ASSUME NEW c \in Consumers
    PROVE  /\ SentTypes => SentOrdered(c)
           /\ SentTypes' => SentOrdered(c)'
<1>1. ASSUME SentTypes PROVE SentOrdered(c)
  <2>1. shown[c] \in Seq(Int) /\ outbox[c] \in Seq(Int) /\ pending[c] \in Seq(Int) /\ queue[c] \in Seq(Int)
    BY <1>1 DEF SentTypes
  <2> QED BY <2>1, FourOrder DEF Sent, SentOrdered
<1>2. ASSUME SentTypes' PROVE SentOrdered(c)'
  <2>1. shown'[c] \in Seq(Int) /\ outbox'[c] \in Seq(Int) /\ pending'[c] \in Seq(Int) /\ queue'[c] \in Seq(Int)
    BY <1>2 DEF SentTypes
  <2> QED BY <2>1, FourOrder DEF Sent, SentOrdered
<1> QED BY <1>1, <1>2

(* A step after which a reader has no line it had not, and none earlier.   *)
PassesOn(c) ==
    /\ \A x \in Int : x > 0 /\ Has(Sent(c), x)' => Has(Sent(c), x)
    /\ \A x, y \in Int : x > 0 /\ y > 0 /\ Follows(Sent(c), x, y)' => Follows(Sent(c), x, y)

(* One of the four is changed by what follows it.                          *)
LEMMA QueueTaken ==
    ASSUME SentTypes, SentTypes', NEW c \in Consumers,
           pending[c] = <<>>, pending'[c] = queue[c], queue'[c] = <<>>,
           shown'[c] = shown[c], outbox'[c] = outbox[c]
    PROVE  PassesOn(c)
<1>1. SentOrdered(c) /\ SentOrdered(c)'
  BY SentOrder
<1> QED BY <1>1, EmptyOrder DEF PassesOn, SentOrdered

LEMMA EventDropped ==
    ASSUME SentTypes, SentTypes', NEW c \in Consumers,
           pending[c] # <<>>, pending'[c] = Tail(pending[c]), queue'[c] = queue[c],
           shown'[c] = shown[c], outbox'[c] = outbox[c]
    PROVE  PassesOn(c)
<1>0. SentOrdered(c) /\ SentOrdered(c)'
  BY SentOrder
<1>1. pending[c] \in Seq(Int)
  BY DEF SentTypes
<1>2. /\ \A x : Has(pending'[c], x) => Has(pending[c], x)
      /\ \A x, y : Follows(pending'[c], x, y) => Follows(pending[c], x, y)
  BY <1>1, HeadOrder
<1> QED BY <1>0, <1>2 DEF PassesOn, SentOrdered

LEMMA EventSent ==
    ASSUME SentTypes, SentTypes', NEW c \in Consumers,
           pending[c] # <<>>, pending'[c] = Tail(pending[c]), queue'[c] = queue[c],
           shown'[c] = shown[c], outbox'[c] = Append(outbox[c], Head(pending[c]))
    PROVE  PassesOn(c)
<1>0. SentOrdered(c) /\ SentOrdered(c)'
  BY SentOrder
<1>1. pending[c] \in Seq(Int) /\ outbox[c] \in Seq(Int)
  BY DEF SentTypes
<1>2. /\ Head(pending[c]) \in Int
      /\ \A x : Has(pending[c], x) <=> x = Head(pending[c]) \/ Has(pending'[c], x)
      /\ \A x, y : Follows(pending[c], x, y) <=>
           Follows(pending'[c], x, y) \/ (x = Head(pending[c]) /\ Has(pending'[c], y))
  BY <1>1, HeadOrder
<1>3. /\ \A x : Has(outbox'[c], x) <=> Has(outbox[c], x) \/ x = Head(pending[c])
      /\ \A x, y : Follows(outbox'[c], x, y) <=>
           Follows(outbox[c], x, y) \/ (Has(outbox[c], x) /\ y = Head(pending[c]))
  BY <1>1, <1>2, AppendOrder
<1> QED BY <1>2, <1>3, <1>0 DEF PassesOn, SentOrdered

LEMMA HistorySent ==
    ASSUME SentTypes, SentTypes', NEW c \in Consumers,
           outbox'[c] = Append(outbox[c], History),
           pending'[c] = pending[c], queue'[c] = queue[c], shown'[c] = shown[c]
    PROVE  PassesOn(c)
<1>0. SentOrdered(c) /\ SentOrdered(c)'
  BY SentOrder
<1>1. outbox[c] \in Seq(Int) /\ History \in Int /\ ~(History > 0)
  BY DEF SentTypes, History
<1>2. /\ \A x : Has(outbox'[c], x) <=> Has(outbox[c], x) \/ x = History
      /\ \A x, y : Follows(outbox'[c], x, y) <=>
           Follows(outbox[c], x, y) \/ (Has(outbox[c], x) /\ y = History)
  BY <1>1, AppendOrder
<1> QED BY <1>1, <1>2, <1>0 DEF PassesOn, SentOrdered

LEMMA LineShown ==
    ASSUME SentTypes, SentTypes', NEW c \in Consumers,
           outbox[c] # <<>>, outbox'[c] = Tail(outbox[c]),
           shown'[c] = shown[c] \/ shown'[c] = Append(shown[c], Head(outbox[c])),
           pending'[c] = pending[c], queue'[c] = queue[c]
    PROVE  PassesOn(c)
<1>0. SentOrdered(c) /\ SentOrdered(c)'
  BY SentOrder
<1>1. outbox[c] \in Seq(Int) /\ shown[c] \in Seq(Int)
  BY DEF SentTypes
<1>2. /\ Head(outbox[c]) \in Int
      /\ \A x : Has(outbox[c], x) <=> x = Head(outbox[c]) \/ Has(outbox'[c], x)
      /\ \A x, y : Follows(outbox[c], x, y) <=>
           Follows(outbox'[c], x, y) \/ (x = Head(outbox[c]) /\ Has(outbox'[c], y))
  BY <1>1, HeadOrder
<1>3. CASE shown'[c] = shown[c]
  BY <1>2, <1>3, <1>0 DEF PassesOn, SentOrdered
<1>4. CASE shown'[c] = Append(shown[c], Head(outbox[c]))
  <2>1. /\ \A x : Has(shown'[c], x) <=> Has(shown[c], x) \/ x = Head(outbox[c])
        /\ \A x, y : Follows(shown'[c], x, y) <=>
             Follows(shown[c], x, y) \/ (Has(shown[c], x) /\ y = Head(outbox[c]))
    BY <1>1, <1>2, <1>4, AppendOrder
  <2> QED BY <1>2, <2>1, <1>0 DEF PassesOn, SentOrdered
<1> QED BY <1>3, <1>4

LEMMA NothingMoved ==
    ASSUME NEW c, shown'[c] = shown[c], outbox'[c] = outbox[c],
           pending'[c] = pending[c], queue'[c] = queue[c]
    PROVE  PassesOn(c)
  BY DEF PassesOn, Sent

(* Nothing is out of order when all that happens is such a step.           *)
LEMMA PassingKeeps ==
    ASSUME SentAsPublished, OfferedIsLast, published' = published,
           publish'[Loop] # "idle" => publish[Loop] # "idle" /\ offered'[Loop] = offered[Loop],
           \A c \in Consumers : PassesOn(c)
    PROVE  SentAsPublished' /\ OfferedIsLast'
<1>1. SentAsPublished'
  BY DEF SentAsPublished, PassesOn
<1>2. OfferedIsLast'
  <2> SUFFICES ASSUME publish'[Loop] # "idle", offered'[Loop] > 0
               PROVE  /\ Has(published, offered[Loop])
                      /\ \A c \in Consumers : \A x \in Int :
                           x > 0 /\ Has(Sent(c), x)' => Follows(published, x, offered[Loop])
    BY DEF OfferedIsLast
  <2> QED BY DEF OfferedIsLast, PassesOn
<1> QED BY <1>1, <1>2

-----------------------------------------------------------------------------
(* The steps of the bus and of the readers.                                *)

(* Nothing is sent yet.                                                    *)
LEMMA SentStarts == Init => SentInv
<1> SUFFICES ASSUME Init PROVE SentInv
  OBVIOUS
<1>1. /\ queue = [c \in Consumers |-> <<>>] /\ pending = [c \in Consumers |-> <<>>]
      /\ outbox = [c \in Consumers |-> <<>>] /\ shown = [c \in Consumers |-> <<>>]
      /\ publish = [p \in Publishers |-> "idle"] /\ offered = [p \in Publishers |-> Nothing]
      /\ Loop \in Publishers
  BY LogAssumption DEF Init, BusInit, Readers
<1>2. SentTypes /\ publish[Loop] = "idle"
  BY <1>1, EmptyOrder DEF SentTypes
<1>3. SentAsPublished
  <2>1. ASSUME NEW c \in Consumers
        PROVE  (\A x : ~Has(Sent(c), x)) /\ (\A x, y : ~Follows(Sent(c), x, y))
    BY <1>1, <1>2, SentOrder, EmptyOrder DEF SentOrdered
  <2> QED BY <2>1 DEF SentAsPublished
<1> QED BY <1>1, <1>2, <1>3 DEF SentInv, BatchDone, OfferedIsLast

(* A reader c takes one of the steps above; the bus publishes nothing.     *)
LEMMA ReaderKeeps ==
    ASSUME SentInv, NEW c \in Consumers, SentTypes', BatchDone', PassesOn(c),
           \A d \in Consumers : d # c =>
             /\ shown'[d] = shown[d] /\ outbox'[d] = outbox[d]
             /\ pending'[d] = pending[d] /\ queue'[d] = queue[d],
           published' = published, offered' = offered,
           publish'[Loop] # "idle" => publish[Loop] # "idle"
    PROVE  SentInv'
<1>1. \A d \in Consumers : PassesOn(d)
  BY NothingMoved
<1> QED BY <1>1, PassingKeeps DEF SentInv

(* Publish (event.go), called by broadcastLoop.                            *)
LEMMA PublishSent ==
    ASSUME SentInv, BusTypes, published \in Seq(Int), NEW e \in Int,
           Publish(Loop, e), published' = Append(published, e), UNCHANGED <<outbox, shown>>
    PROVE  SentInv'
<1>0. Loop \in Publishers
  BY LogAssumption
<1>1. /\ UNCHANGED <<queue, pending, listen>> /\ publish[Loop] = "idle"
      /\ \/ publish' = publish /\ offered' = offered
         \/ publish' = [publish EXCEPT ![Loop] = "locks"] /\ offered' = [offered EXCEPT ![Loop] = e]
  BY DEF Publish
<1>2. /\ \A x : Has(published', x) <=> Has(published, x) \/ x = e
      /\ \A x, y : Follows(published', x, y) <=>
           Follows(published, x, y) \/ (Has(published, x) /\ y = e)
  BY AppendOrder
<1>3. publish'[Loop] # "idle" => offered'[Loop] = e
  BY <1>0, <1>1 DEF SentInv, SentTypes
<1>4. SentTypes' /\ BatchDone'
  BY <1>0, <1>1, <1>3 DEF SentInv, SentTypes, BatchDone
<1>5. \A c \in Consumers : Sent(c)' = Sent(c)
  BY <1>1 DEF Sent
<1>6. SentAsPublished'
  BY <1>2, <1>5 DEF SentInv, SentAsPublished
<1>7. OfferedIsLast'
  <2> SUFFICES ASSUME publish'[Loop] # "idle", offered'[Loop] > 0
               PROVE  /\ Has(published', e)
                      /\ \A c \in Consumers : \A x \in Int :
                           x > 0 /\ Has(Sent(c), x) => Follows(published', x, e)
    BY <1>3, <1>5 DEF OfferedIsLast
  <2> QED BY <1>2 DEF SentInv, SentAsPublished
<1> QED BY <1>4, <1>6, <1>7 DEF SentInv

(* Broadcast (event.go): the event goes to the end of the queues.          *)
LEMMA BroadcastSent ==
    ASSUME SentInv, BusTypes, Broadcast(Loop), UNCHANGED <<published, outbox, shown>>
    PROVE  SentInv'
<1> DEFINE e == offered[Loop]
<1>0. Loop \in Publishers
  BY LogAssumption
<1>1. /\ UNCHANGED pending /\ publish[Loop] = "locks" /\ listen' = Woken(listen)
      /\ queue' = [c \in Consumers |-> IF c \in Subscribed THEN Append(queue[c], e) ELSE queue[c]]
      /\ publish' = Woken([publish EXCEPT ![Loop] = "idle"])
      /\ offered' = [offered EXCEPT ![Loop] = Nothing]
  BY DEF Broadcast
<1>2. publish'[Loop] = "idle"
  BY <1>0, <1>1 DEF BusTypes, Woken
<1>3. e \in Int
  BY <1>1 DEF SentInv, SentTypes
<1> HIDE DEF e
<1>4. \A c \in Consumers : Append(queue[c], e) \in Seq(Int)
  BY <1>3, AppendOrder DEF SentInv, SentTypes
<1>5. SentTypes'
  <2>1. queue' \in [Consumers -> Seq(Int)]
    BY <1>1, <1>4 DEF SentInv, SentTypes
  <2> QED BY <1>1, <1>2, <2>1 DEF SentInv, SentTypes
<1>6. BatchDone'
  <2>1. \A c \in Consumers : listen[c] = "works" => listen'[c] = "works"
    BY <1>1 DEF BusTypes, Woken
  <2> QED BY <1>1, <2>1 DEF SentInv, BatchDone
<1>7. ASSUME NEW c \in Consumers
      PROVE  /\ \A x \in Int : x > 0 /\ Has(Sent(c), x)' => Has(published, x)
             /\ \A x, y \in Int : x > 0 /\ y > 0 /\ Follows(Sent(c), x, y)'
                                    => Follows(published, x, y)
  <2>1. SentOrdered(c) /\ SentOrdered(c)'
    BY <1>5, SentOrder DEF SentInv
  <2>2. CASE queue'[c] = queue[c]
    <3>1. Sent(c)' = Sent(c)
      BY <1>1, <2>2 DEF Sent
    <3> QED BY <3>1 DEF SentInv, SentAsPublished
  <2>3. CASE queue'[c] = Append(queue[c], e)
    <3>1. queue[c] \in Seq(Int)
      BY DEF SentInv, SentTypes
    <3>2. /\ \A x : Has(queue'[c], x) <=> Has(queue[c], x) \/ x = e
          /\ \A x, y : Follows(queue'[c], x, y) <=>
               Follows(queue[c], x, y) \/ (Has(queue[c], x) /\ y = e)
      BY <1>3, <2>3, <3>1, AppendOrder
    <3>3. /\ \A x : Has(Sent(c), x)' <=> Has(Sent(c), x) \/ x = e
          /\ \A x, y : Follows(Sent(c), x, y)' <=>
               Follows(Sent(c), x, y) \/ (Has(Sent(c), x) /\ y = e)
      BY <1>1, <2>1, <3>2 DEF SentOrdered
    <3>4. e > 0 => /\ Has(published, e)
                   /\ \A x \in Int : x > 0 /\ Has(Sent(c), x) => Follows(published, x, e)
      BY <1>1 DEF SentInv, OfferedIsLast, e
    <3> QED BY <3>3, <3>4 DEF SentInv, SentAsPublished
  <2> QED BY <1>1, <2>2, <2>3
<1>8. SentAsPublished' /\ OfferedIsLast'
  BY <1>2, <1>7 DEF SentAsPublished, OfferedIsLast
<1> QED BY <1>5, <1>6, <1>8 DEF SentInv

(* Listen and what the callbacks do with an event.                         *)
LEMMA ConsumerSent ==
    ASSUME SentInv, BusTypes, NEW c \in Consumers, ConsumerStep(c)
    PROVE  SentInv'
<1>0. Loop \in Publishers
  BY LogAssumption
<1>1. UNCHANGED <<published, shown, offered>>
  BY DEF ConsumerStep, Listens, ListenStep, ListenWaits, ListenReturns, ListenTakes, ListenSignals,
         CallbackSends, StreamDrops, UIDrops, HandlerReturns, loopVars, readerVars
<1>2. CASE ListenTakes(c) /\ Listens(c)
  <2>1. /\ pending' = [pending EXCEPT ![c] = queue[c]] /\ queue' = [queue EXCEPT ![c] = <<>>]
        /\ listen[c] = "locks" /\ listen' = [listen EXCEPT ![c] = "works"]
        /\ UNCHANGED <<publish, outbox>>
    BY <1>2 DEF ListenTakes, Listens, readerVars
  <2>2. SentTypes' /\ BatchDone'
    BY <1>1, <2>1, EmptyOrder DEF SentInv, SentTypes, BatchDone, BusTypes
  <2>3. /\ pending[c] = <<>> /\ pending'[c] = queue[c] /\ queue'[c] = <<>>
        /\ \A d \in Consumers : d # c => pending'[d] = pending[d] /\ queue'[d] = queue[d]
    BY <2>1 DEF SentInv, SentTypes, BatchDone
  <2>4. PassesOn(c)
    BY <1>1, <2>1, <2>2, <2>3, QueueTaken DEF SentInv
  <2> QED BY <1>1, <2>1, <2>2, <2>3, <2>4, ReaderKeeps
<1>3. CASE Listens(c) /\ ~ListenTakes(c)
  <2>1. /\ UNCHANGED <<queue, pending, outbox>>
        /\ publish'[Loop] # "idle" => publish[Loop] # "idle"
        /\ \A d \in Consumers : listen'[d] # "works" => listen[d] # "works" \/ pending[d] = <<>>
    <3>1. CASE ListenWaits(c) \/ ListenReturns(c)
      BY <1>3, <3>1 DEF ListenWaits, ListenReturns, Listens, readerVars, BusTypes
    <3>2. CASE ListenSignals(c)
      <4>1. /\ listen' = Woken([listen EXCEPT ![c] = "locks"]) /\ publish' = Woken(publish)
            /\ pending[c] = <<>> /\ UNCHANGED <<queue, pending, outbox>>
        BY <1>3, <3>2 DEF ListenSignals, Listens, readerVars
      <4>2. publish'[Loop] # "idle" => publish[Loop] # "idle"
        BY <1>0, <4>1 DEF BusTypes, Woken
      <4>3. \A d \in Consumers : d # c /\ listen[d] = "works" => listen'[d] = "works"
        BY <4>1 DEF BusTypes, Woken
      <4> QED BY <4>1, <4>2, <4>3
    <3> QED BY <1>3, <3>1, <3>2 DEF Listens, ListenStep
  <2>2. SentTypes' /\ BatchDone'
    BY <1>1, <2>1 DEF SentInv, SentTypes, BatchDone
  <2>3. PassesOn(c)
    BY <1>1, <2>1, NothingMoved
  <2> QED BY <1>1, <2>1, <2>2, <2>3, ReaderKeeps
<1>4. CASE CallbackSends(c) \/ StreamDrops(c) \/ UIDrops(c)
  <2>1. /\ pending[c] # <<>> /\ listen[c] = "works" /\ pending' = [pending EXCEPT ![c] = Tail(@)]
        /\ UNCHANGED <<queue, listen, publish>>
    BY <1>4 DEF CallbackSends, StreamDrops, UIDrops, HandlerReturns
  <2>2. \/ outbox' = [outbox EXCEPT ![c] = Append(@, Head(pending[c]))]
        \/ outbox' = outbox
    BY <1>4 DEF CallbackSends, StreamDrops, UIDrops, readerVars
  <2>3. pending[c] \in Seq(Int) /\ outbox[c] \in Seq(Int)
    BY DEF SentInv, SentTypes
  <2>4. Tail(pending[c]) \in Seq(Int) /\ Append(outbox[c], Head(pending[c])) \in Seq(Int)
    BY <2>1, <2>3, HeadOrder, AppendOrder
  <2>5. SentTypes'
    BY <1>1, <2>1, <2>2, <2>4 DEF SentInv, SentTypes
  <2>6. BatchDone'
    BY <2>1 DEF SentInv, SentTypes, BatchDone
  <2>7. /\ pending'[c] = Tail(pending[c])
        /\ outbox'[c] = outbox[c] \/ outbox'[c] = Append(outbox[c], Head(pending[c]))
        /\ \A d \in Consumers : d # c => pending'[d] = pending[d] /\ outbox'[d] = outbox[d]
    BY <2>1, <2>2 DEF SentInv, SentTypes
  <2>8. PassesOn(c)
    BY <1>1, <2>1, <2>5, <2>7, EventDropped, EventSent DEF SentInv
  <2> QED BY <1>1, <2>1, <2>5, <2>6, <2>7, <2>8, ReaderKeeps
<1> QED BY <1>2, <1>3, <1>4 DEF ConsumerStep

(* The requests: subscribe, send the history, show a line, leave.          *)
LEMMA RequestSent ==
    ASSUME SentInv, BusInv, NEW c \in Consumers, RequestStep(c)
    PROVE  SentInv'
<1>1. UNCHANGED <<published, offered, publish, queue, pending>>
  BY DEF RequestStep, StreamHistory, StreamSubscribes, UISubscribes, UIHistory, ReaderWrites,
         ReaderLeaves, Subscribe, Del, busVars, loopVars
<1>2. BatchDone'
  <2>1. CASE listen' = listen
    BY <1>1, <2>1 DEF SentInv, BatchDone
  <2>2. CASE Subscribe(c)
    <3>1. listen[c] = "unborn" /\ listen' = [listen EXCEPT ![c] = "locks"]
      BY <2>2 DEF Subscribe, BusInv, Listened
    <3>2. \A d \in Consumers : listen'[d] # "works" => listen[d] # "works"
      BY <3>1 DEF BusInv, BusTypes
    <3> QED BY <1>1, <3>2 DEF SentInv, BatchDone
  <2> QED BY <2>1, <2>2 DEF RequestStep, StreamHistory, StreamSubscribes, UISubscribes, UIHistory,
                            ReaderWrites, ReaderLeaves, Del, busVars
<1>3. CASE UNCHANGED <<outbox, shown>>
  <2>1. SentTypes'
    BY <1>1, <1>3 DEF SentInv, SentTypes
  <2>2. PassesOn(c)
    BY <1>1, <1>3, NothingMoved
  <2> QED BY <1>1, <1>2, <1>3, <2>1, <2>2, ReaderKeeps
<1>4. CASE outbox' = [outbox EXCEPT ![c] = Append(@, History)] /\ UNCHANGED shown
  <2>1. outbox[c] \in Seq(Int) /\ History \in Int
    BY DEF SentInv, SentTypes, History
  <2>2. Append(outbox[c], History) \in Seq(Int)
    BY <2>1, AppendOrder
  <2>3. SentTypes'
    BY <1>1, <1>4, <2>2 DEF SentInv, SentTypes
  <2>4. /\ outbox'[c] = Append(outbox[c], History)
        /\ \A d \in Consumers : d # c => outbox'[d] = outbox[d]
    BY <1>4 DEF SentInv, SentTypes
  <2>5. PassesOn(c)
    BY <1>1, <1>4, <2>3, <2>4, HistorySent DEF SentInv
  <2> QED BY <1>1, <1>2, <1>4, <2>3, <2>4, <2>5, ReaderKeeps
<1>5. CASE ReaderWrites(c)
  <2>1. /\ outbox[c] # <<>> /\ outbox' = [outbox EXCEPT ![c] = Tail(@)]
        /\ \/ shown' = [shown EXCEPT ![c] = @]
           \/ shown' = [shown EXCEPT ![c] = Append(@, Head(outbox[c]))]
    BY <1>5 DEF ReaderWrites
  <2>2. outbox[c] \in Seq(Int) /\ shown[c] \in Seq(Int)
    BY DEF SentInv, SentTypes
  <2>3. Tail(outbox[c]) \in Seq(Int) /\ Append(shown[c], Head(outbox[c])) \in Seq(Int)
    BY <2>1, <2>2, HeadOrder, AppendOrder
  <2>4. SentTypes'
    BY <1>1, <2>1, <2>3 DEF SentInv, SentTypes
  <2>5. /\ outbox'[c] = Tail(outbox[c])
        /\ shown'[c] = shown[c] \/ shown'[c] = Append(shown[c], Head(outbox[c]))
        /\ \A d \in Consumers : d # c => outbox'[d] = outbox[d] /\ shown'[d] = shown[d]
    BY <2>1 DEF SentInv, SentTypes
  <2>6. PassesOn(c)
    BY <1>1, <2>1, <2>4, <2>5, LineShown DEF SentInv
  <2> QED BY <1>1, <1>2, <2>4, <2>5, <2>6, ReaderKeeps
<1> QED BY <1>3, <1>4, <1>5 DEF RequestStep, StreamHistory, StreamSubscribes, UISubscribes,
                                UIHistory, ReaderLeaves

(* No step loses it.                                                       *)
LEMMA SentStep == SentInv /\ BusInv /\ LineInv /\ [Next]_vars => SentInv'
<1> SUFFICES ASSUME SentInv, BusInv, LineInv, [Next]_vars PROVE SentInv'
  OBVIOUS
<1>0. ASSUME UNCHANGED <<busVars, published, outbox, shown>> PROVE SentInv'
  <2>1. SentTypes' /\ BatchDone'
    BY <1>0 DEF SentInv, SentTypes, BatchDone, busVars
  <2>2. \A c \in Consumers : PassesOn(c)
    BY <1>0, NothingMoved DEF busVars
  <2> QED BY <1>0, <2>1, <2>2, PassingKeeps DEF SentInv, busVars
<1>1. CASE UNCHANGED vars
  BY <1>0, <1>1 DEF vars, loopVars, readerVars
<1>2. CASE \E w \in Writers : Logs(w)
  BY <1>0, <1>2 DEF Logs, loopVars, readerVars
<1>3. CASE \E w \in AllWriters : WriteStep(w)
  BY <1>0, <1>3 DEF WriteStep, WriteKeeps, WriteSends, WriteCounts, loopVars, readerVars
<1>4. CASE LoopStep
  <2>0. BusTypes /\ published \in Seq(Int) /\ hand \in Int /\ -notice \in Int
    BY DEF BusInv, LineInv, LineTypes
  <2>1. CASE LoopReceives \/ LoopSwaps
    BY <1>0, <2>1 DEF LoopReceives, LoopSwaps, readerVars
  <2>2. CASE LoopNotices
    BY <2>0, <2>2, PublishSent DEF LoopNotices, readerVars
  <2>3. CASE LoopDelivers
    BY <2>0, <2>3, PublishSent DEF LoopDelivers, readerVars
  <2>4. CASE Broadcast(Loop) /\ LoopBroadcasts
    BY <2>0, <2>4, BroadcastSent DEF LoopBroadcasts, loopVars, readerVars
  <2>5. CASE BroadcastWaits(Loop) /\ LoopBroadcasts
    <3>1. /\ UNCHANGED <<queue, pending, listen, offered, published, outbox, shown>>
          /\ publish[Loop] # "idle"
      BY <2>5 DEF BroadcastWaits, LoopBroadcasts, loopVars, readerVars
    <3>2. SentTypes' /\ BatchDone'
      BY <3>1 DEF SentInv, SentTypes, BatchDone
    <3>3. \A c \in Consumers : PassesOn(c)
      BY <3>1, NothingMoved
    <3> QED BY <3>1, <3>2, <3>3, PassingKeeps DEF SentInv
  <2> QED BY <1>4, <2>1, <2>2, <2>3, <2>4, <2>5 DEF LoopStep, LoopBroadcasts
<1>5. CASE \E c \in Readers : ConsumerStep(c)
  BY <1>5, ConsumerSent DEF BusInv, Readers
<1>6. CASE \E c \in Readers : RequestStep(c)
  BY <1>6, RequestSent DEF Readers
<1> QED BY <1>1, <1>2, <1>3, <1>4, <1>5, <1>6 DEF Next

-----------------------------------------------------------------------------
(* The invariant, read at positions, is the property.                      *)
LEMMA SentInOrder == LineInv /\ SentInv => ShownInOrder
<1> SUFFICES ASSUME LineInv, SentInv, NEW c \in Consumers
             PROVE  LET sent == Sent(c)
                        Lines == {i \in DOMAIN sent : sent[i] > 0}
                    IN /\ \A i \in Lines : \E k \in DOMAIN published : published[k] = sent[i]
                       /\ \A i, j \in Lines : i < j =>
                            /\ sent[i] # sent[j]
                            /\ \E k, l \in DOMAIN published :
                                 k < l /\ published[k] = sent[i] /\ published[l] = sent[j]
  BY DEF ShownInOrder, Sent, Readers
<1> DEFINE s == Sent(c)
<1>1. s \in Seq(Int) /\ published \in Seq(Int)
  <2>1. shown[c] \in Seq(Int) /\ outbox[c] \in Seq(Int) /\ pending[c] \in Seq(Int) /\ queue[c] \in Seq(Int)
    BY DEF SentInv, SentTypes
  <2> QED BY <2>1, FourOrder DEF Sent, LineInv, LineTypes
<1>2. /\ \A x \in Int : x > 0 /\ Has(s, x) => Has(published, x) /\ ~Follows(published, x, x)
      /\ \A x, y \in Int : x > 0 /\ y > 0 /\ Follows(s, x, y) => Follows(published, x, y)
  BY DEF SentInv, SentAsPublished, LineInv, PublishedOnce
<1> HIDE DEF s
<1>3. DOMAIN s = 1 .. Len(s) /\ DOMAIN published = 1 .. Len(published)
  BY <1>1
<1>4. ASSUME NEW i \in 1 .. Len(s), s[i] > 0
      PROVE  s[i] \in Int /\ Has(s, s[i])
  BY <1>1 DEF Has
<1>5. ASSUME NEW i \in 1 .. Len(s), s[i] > 0
      PROVE  \E k \in 1 .. Len(published) : published[k] = s[i]
  BY <1>2, <1>4, <1>5 DEF Has
<1>6. ASSUME NEW i \in 1 .. Len(s), NEW j \in 1 .. Len(s), s[i] > 0, s[j] > 0, i < j
      PROVE  /\ s[i] # s[j]
             /\ \E k, l \in 1 .. Len(published) :
                  k < l /\ published[k] = s[i] /\ published[l] = s[j]
  <2>1. Follows(s, s[i], s[j])
    BY <1>6 DEF Follows
  <2>2. Follows(published, s[i], s[j])
    BY <1>2, <1>4, <1>6, <2>1
  <2>3. s[i] # s[j]
    BY <1>2, <1>4, <1>6, <2>2
  <2> QED BY <2>2, <2>3 DEF Follows
<1> DEFINE Lines == {i \in DOMAIN s : s[i] > 0}
<1>7. \A i \in Lines : i \in 1 .. Len(s) /\ s[i] > 0
  BY <1>3
<1> HIDE DEF Lines
<1>8. ASSUME NEW i \in Lines
      PROVE  \E k \in DOMAIN published : published[k] = s[i]
  <2>1. i \in 1 .. Len(s) /\ s[i] > 0
    BY ONLY <1>7, <1>8
  <2> QED BY ONLY <2>1, <1>3, <1>5
<1>9. ASSUME NEW i \in Lines, NEW j \in Lines, i < j
      PROVE  /\ s[i] # s[j]
             /\ \E k, l \in DOMAIN published :
                  k < l /\ published[k] = s[i] /\ published[l] = s[j]
  <2>1. i \in 1 .. Len(s) /\ s[i] > 0 /\ j \in 1 .. Len(s) /\ s[j] > 0
    BY ONLY <1>7, <1>9
  <2> QED BY ONLY <2>1, <1>3, <1>6, <1>9
<1> QED BY <1>8, <1>9 DEF s, Lines

(* In every reachable state of a log monitor, each reader's live lines are *)
(* published ones, in the order of publication and none of them twice,     *)
(* whatever its queue and its buffers drop (event.go Broadcast and Listen, *)
(* log.go handleLogStream, apigroup.go handleAPIEvents).                   *)
THEOREM LinesShownInOrder == Spec => []ShownInOrder
<1> DEFINE Inv == BusInv /\ LineInv /\ SentInv
<1>1. Init => Inv
  BY BusStarts, LinesStart, SentStarts
<1>2. Inv /\ [Next]_vars => Inv'
  BY BusStep, LinesStep, SentStep
<1>3. Inv => ShownInOrder
  BY SentInOrder
<1> HIDE DEF Inv
<1> QED BY <1>1, <1>2, <1>3, PTL DEF Spec

=============================================================================
