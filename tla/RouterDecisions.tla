-------------------------- MODULE RouterDecisions --------------------------
(***************************************************************************)
(* What the scheduler of Router decides: which swaps run beside each other *)
(* (collidesWith), whom they may stop (conflictsWithInFlight), and in      *)
(* which order the queue is served (enqueue, fairOrder, drainQueue).       *)
(*                                                                         *)
(* An Unload drops swaps whose goroutines go on: what is said of the       *)
(* goroutines below holds while nobody unloads (MaxUnloads = 0).           *)
(***************************************************************************)
EXTENDS RouterProofs, Swappers

-----------------------------------------------------------------------------
(* The steps, by what they do to the swaps.                                 *)

\* A request starts a swap, from OnRequest or from drainQueue.
Launches(r) ==
    /\ want[r] \in Models \ active /\ ~Blocked(want[r]) /\ startSwap(r)
    /\ loopPc \in {"select", "drain"}
    /\ UNCHANGED <<want, inFlight, fan, shut, ps>>

\* The goroutines go on, each with its target, to victims it had.
GoOn ==
    /\ UNCHANGED <<active, evict>>
    /\ \A t \in SwapIds :
         /\ swap'[t].model = swap[t].model /\ swap'[t].orphan = swap[t].orphan
         /\ swap'[t].left \subseteq swap[t].left
         /\ swap'[t].pc = "free" <=> swap[t].pc = "free"
         /\ swap'[t].pc = "stop" => swap[t].pc = "stop"

\* An aborted start reports; the goroutine is otherwise what it was.
LEMMA StartOverShape ==
    ASSUME TypeOK, NEW m \in Models, NEW err \in BOOLEAN, NEW t \in SwapIds
    PROVE  LET new == StartOver(swap, m, err)[t] IN
           /\ new \in Swaps
           /\ new.model = swap[t].model /\ new.orphan = swap[t].orphan /\ new.left = swap[t].left
           /\ new.pc = IF swap[t].pc = "start" /\ swap[t].model = m THEN "report" ELSE swap[t].pc
<1>1. swap[t] \in Swaps
  BY DEF TypeOK
<1>2. StartOver(swap, m, err)[t] =
        IF swap[t].pc = "start" /\ swap[t].model = m
        THEN [swap[t] EXCEPT !.pc = "report", !.err = err] ELSE swap[t]
  BY DEF StartOver
<1>3. CASE swap[t].pc = "start" /\ swap[t].model = m
  <2> DEFINE old == swap[t]
             new == [old EXCEPT !.pc = "report", !.err = err]
  <2>1. StartOver(swap, m, err)[t] = new
    BY ONLY <1>2, <1>3
  <2>2. /\ new \in Swaps /\ new.pc = "report"
        /\ new.model = old.model /\ new.orphan = old.orphan /\ new.left = old.left
    <3>1. old \in Swaps /\ err \in BOOLEAN
      BY <1>1
    <3> HIDE DEF old
    <3> QED BY ONLY <3>1 DEF Swaps, SwapPcs
  <2> HIDE DEF new
  <2> QED BY <1>3, <2>1, <2>2
<1>4. CASE ~(swap[t].pc = "start" /\ swap[t].model = m)
  BY <1>1, <1>2, <1>4
<1> QED BY <1>3, <1>4

\* So whoever stops a process lets the goroutines go on.
LEMMA StartOverGoesOn ==
    ASSUME TypeOK, NEW m \in Models, NEW err \in BOOLEAN,
           swap' = StartOver(swap, m, err), UNCHANGED <<active, evict>>
    PROVE  GoOn
<1>1. ASSUME NEW t \in SwapIds
      PROVE  /\ swap'[t].model = swap[t].model /\ swap'[t].orphan = swap[t].orphan
             /\ swap'[t].left = swap[t].left
             /\ swap'[t].pc = IF swap[t].pc = "start" /\ swap[t].model = m THEN "report" ELSE swap[t].pc
  BY StartOverShape
<1> QED BY <1>1 DEF GoOn

\* The own steps of a goroutine.
LEMMA SwapStepMoves ==
    ASSUME TypeOK, NEW s \in SwapIds, SwapStep(s)
    PROVE  GoOn \/ SwapGivesUp(s)
<1>1. ASSUME NEW v \in Models, SwapStops(s, v)
      PROVE  GoOn
  <2> DEFINE sw == StartOver(swap, v, TRUE)
  <2>1. \A t \in SwapIds :
          /\ sw[t] \in Swaps
          /\ sw[t].model = swap[t].model /\ sw[t].orphan = swap[t].orphan /\ sw[t].left = swap[t].left
          /\ sw[t].pc = IF swap[t].pc = "start" /\ swap[t].model = v THEN "report" ELSE swap[t].pc
    BY StartOverShape
  <2>2. sw \in [SwapIds -> Swaps]
    BY StopTyped
  <2>3. swap' = [sw EXCEPT ![s].left = @ \ {v}] /\ UNCHANGED <<active, evict>>
    BY <1>1 DEF SwapStops, swapTable
  <2> HIDE DEF sw
  <2>4. ASSUME NEW t \in SwapIds
        PROVE  /\ swap'[t].model = sw[t].model /\ swap'[t].orphan = sw[t].orphan
               /\ swap'[t].left \subseteq sw[t].left /\ swap'[t].pc = sw[t].pc
    BY <2>2, <2>3 DEF Swaps
  <2> QED BY <2>1, <2>3, <2>4 DEF GoOn
<1>2. CASE SwapStopped(s)
  <2>1. swap' = [swap EXCEPT ![s].pc = "ensure"] /\ swap[s].pc = "stop" /\ UNCHANGED <<active, evict>>
    BY <1>2 DEF SwapStopped, swapTable
  <2>2. swap \in [SwapIds -> Swaps]
    BY DEF TypeOK
  <2> QED BY <2>1, <2>2 DEF GoOn, Swaps
<1>3. CASE SwapEnsures(s)
  <2>1. /\ UNCHANGED <<active, evict>> /\ swap[s].pc = "ensure"
        /\ \/ swap' = [swap EXCEPT ![s].pc = "start"]
           \/ \E e \in BOOLEAN :
                swap' = [swap EXCEPT ![s].pc = "report", ![s].err = e]
    BY <1>3 DEF SwapEnsures, swapTable
  <2>2. swap \in [SwapIds -> Swaps] /\ swap[s] \in Swaps
    BY DEF TypeOK
  <2>3. ASSUME NEW x \in Swaps, \/ x = [swap[s] EXCEPT !.pc = "start"]
                                \/ \E e \in BOOLEAN : x = [swap[s] EXCEPT !.pc = "report", !.err = e],
               swap' = [swap EXCEPT ![s] = x]
        PROVE  GoOn
    <3>1. x.model = swap[s].model /\ x.orphan = swap[s].orphan /\ x.left = swap[s].left
          /\ x.pc \in {"start", "report"}
      BY <2>2, <2>3 DEF Swaps
    <3>2. \A t \in SwapIds : swap'[t] = IF t = s THEN x ELSE swap[t]
      BY <2>2, <2>3
    <3> QED BY <2>1, <3>1, <3>2 DEF GoOn
  <2>4. /\ [swap[s] EXCEPT !.pc = "start"] \in Swaps
        /\ \A e \in BOOLEAN : [swap[s] EXCEPT !.pc = "report", !.err = e] \in Swaps
    BY <2>2 DEF Swaps, SwapPcs
  <2>5. \/ swap' = [swap EXCEPT ![s] = [swap[s] EXCEPT !.pc = "start"]]
        \/ \E e \in BOOLEAN : swap' = [swap EXCEPT ![s] = [swap[s] EXCEPT !.pc = "report", !.err = e]]
    BY <2>1, <2>2
  <2> QED BY <2>3, <2>4, <2>5
<1> QED BY <1>1, <1>2, <1>3 DEF SwapStep

\* Every step leaves the swaps as they are, or is one of these.
LEMMA SwapMoves ==
    ASSUME IInv, [Next]_vars
    PROVE  \/ GoOn
           \/ \E r \in Requests : Launches(r)
           \/ \E s \in SwapIds : OnSwapDone(s) \/ SwapGivesUp(s)
           \/ \E T \in SUBSET Models : OnUnload(T)
<1> DEFINE Goal == \/ GoOn
                   \/ \E r \in Requests : Launches(r)
                   \/ \E s \in SwapIds : OnSwapDone(s) \/ SwapGivesUp(s)
                   \/ \E T \in SUBSET Models : OnUnload(T)
<1>0. TypeOK
  BY DEF IInv
<1>1. ASSUME UNCHANGED <<active, evict, swap>>
      PROVE  GoOn
  BY <1>1 DEF GoOn
<1>2. ASSUME NEW r \in Requests, OnRequest(r)
      PROVE  GoOn \/ Launches(r)
  <2>1. CASE RequestStartsSwap(r)
    BY <2>1 DEF RequestStartsSwap, Admitted, Launches, walkVars, ctlVars
  <2>2. CASE RejectRequest(r) \/ AdmitGone(r) \/ RequestJoins(r) \/ RequestFastPath(r) \/ RequestQueued(r)
    BY <1>1, <2>2 DEF RejectRequest, AdmitGone, RequestJoins, Join, RequestFastPath, RequestQueued,
       swapTable
  <2> QED BY <1>2, <2>1, <2>2 DEF OnRequest
<1>3. ASSUME NEW r \in Requests, DrainStep(r)
      PROVE  GoOn \/ Launches(r)
  <2>1. CASE DrainStartsSwap(r)
    <3>1. /\ AtItem(r) /\ Dequeue(r) /\ want[r] \notin active /\ ~Blocked(want[r]) /\ startSwap(r)
          /\ UNCHANGED inFlight
      BY <2>1 DEF DrainStartsSwap
    <3>2. want[r] \in Models
      BY <3>1, HeadPlaced
    <3> QED BY <3>1, <3>2 DEF Dequeue, AtItem, ctlVars, Launches
  <2>2. CASE DrainJoins(r) \/ DrainFastPath(r) \/ DrainKeeps(r)
    BY <1>1, <2>2 DEF DrainJoins, Join, DrainFastPath, DrainKeeps, swapTable
  <2> QED BY <1>3, <2>1, <2>2 DEF DrainStep
<1>4. ASSUME NEW m \in Models, UnloadStops(m) \/ ShutdownStops(m) \/ ProcessStep(m)
      PROVE  GoOn
  <2>1. UNCHANGED <<active, evict>>
    BY <1>4 DEF UnloadStops, ShutdownStops, ProcessStep, StartEnds, ProcessExits, ProviderLoads,
       ProcessShutdown, swapTable
  <2>2. swap' = swap \/ \E err \in BOOLEAN : swap' = StartOver(swap, m, err)
    BY <1>4 DEF UnloadStops, ShutdownStops, ProcessStep, StartEnds, ProcessExits, ProviderLoads,
       ProcessShutdown
  <2> QED BY <1>0, <1>1, <2>1, <2>2, StartOverGoesOn
<1>5. CASE LoopStep
  <2>1. ASSUME NEW r \in Requests, OnCancel(r) \/ OnServeDone(r) \/ AnswerWaiter(r) \/ UnloadDrops(r)
        PROVE  GoOn
    BY <1>1, <2>1 DEF OnCancel, OnServeDone, AnswerWaiter, UnloadDrops, swapTable
  <2>2. ASSUME WaitersAnswered \/ DrainEnds \/ UnloadEnds \/ OnShutdown \/ ShutdownEnds
        PROVE  GoOn
    BY <1>1, <2>2 DEF WaitersAnswered, DrainEnds, UnloadEnds, OnShutdown, ShutdownEnds, swapTable
  <2> HIDE DEF GoOn, Launches
  <2> QED BY <1>2, <1>3, <1>4, <1>5, <2>1, <2>2 DEF LoopStep
<1>6. CASE \/ CallShutdown
           \/ \E r \in Requests : ClientStep(r) \/ WaitElapses(r)
           \/ Quiescent \/ UNCHANGED vars
  BY <1>1, <1>6 DEF CallShutdown, ClientStep, Arrive, Disconnect, ServeReturns, LeaveOnShutdown,
     WaitElapses, Quiescent, vars, swapTable
<1>7. ASSUME NEW s \in SwapIds, SwapStep(s)
      PROVE  GoOn \/ SwapGivesUp(s)
  BY <1>0, <1>7, SwapStepMoves
<1> QED BY <1>4, <1>5, <1>6, <1>7 DEF Next

-----------------------------------------------------------------------------
(* Swaps that run beside each other.                                        *)

\* A swap that starts beside others touches neither their targets nor their
\* victims, and it stops nobody with a request in flight.
LEMMA LaunchApart ==
    ASSUME TypeOK, NEW r \in Requests, Launches(r)
    PROVE  LET m == want[r] IN
           /\ m \in Models /\ m \notin active /\ active' = active \union {m}
           /\ Evictions(m) \subseteq Models \ {m}
           /\ evict' = [evict EXCEPT ![m] = Evictions(m)]
           /\ \A a \in active : /\ a \notin Evictions(m) /\ m \notin evict[a]
                                /\ Evictions(m) \intersect evict[a] = {}
           /\ \A v \in Evictions(m) : ~(inFlight[v] > 0)
<1> DEFINE m == want[r]
<1>1. m \in Models /\ m \notin active /\ ~Blocked(m)
  BY DEF Launches
<1>2. active' = active \union {m} /\ evict' = [evict EXCEPT ![m] = Evictions(m)]
  BY DEF Launches, startSwap
<1>3. Evictions(m) \subseteq Models \ {m}
  <2>1. runningSet(m) \in SUBSET Models /\ Ready \in SUBSET Models
    BY DEF runningSet, Ready, TypeOK
  <2>2. Evictions(m) \subseteq (runningSet(m) \union Ready) \ {m}
    BY <1>1, <2>1, EvictionAssumption DEF Evictions
  <2> QED BY <2>1, <2>2
<1>4. \A a \in active : /\ a \notin Evictions(m) /\ m \notin evict[a]
                        /\ Evictions(m) \intersect evict[a] = {}
  BY <1>1 DEF Blocked, collidesWith
<1>5. \A v \in Evictions(m) : ~(inFlight[v] > 0)
  BY <1>1 DEF Blocked, conflictsWithInFlight
<1> QED BY <1>1, <1>2, <1>3, <1>4, <1>5

\* The result of a swap takes its entry out of the table.
LEMMA SwapDoneShape ==
    ASSUME TypeOK, NEW s \in SwapIds, OnSwapDone(s)
    PROVE  /\ swap[s].pc = "report" /\ loopPc = "select"
           /\ swap' = [swap EXCEPT ![s] = FreeSwap]
           /\ UNCHANGED <<want, inFlight, shut, ps>>
           /\ active' \subseteq active /\ active \ {swap[s].model} \subseteq active'
           /\ swap[s].model \in active =>
                swap[s].model \notin active' /\ fan' = waiters[swap[s].model]
           /\ swap[s].model \notin active => fan' = fan
           /\ \A a \in active' : evict'[a] = evict[a]
<1>1. /\ swap[s].pc = "report" /\ loopPc = "select"
      /\ swap' = [swap EXCEPT ![s] = FreeSwap]
      /\ UNCHANGED <<want, inFlight, shut, ps>>
  BY DEF OnSwapDone, clientVars, counters, ctlVars
<1>2. CASE swap[s].model \notin active
  BY <1>1, <1>2 DEF OnSwapDone, swapTable
<1>3. CASE swap[s].model \in active
  <2>1. /\ active' = active \ {swap[s].model} /\ fan' = waiters[swap[s].model]
        /\ evict' = [evict EXCEPT ![swap[s].model] = {}]
    BY <1>3 DEF OnSwapDone
  <2>2. evict \in [Models -> SUBSET Models] /\ active \subseteq Models
    BY DEF TypeOK
  <2> QED BY <1>1, <1>3, <2>1, <2>2
<1> QED BY <1>2, <1>3

\* Active swaps stay apart through every step.
LEMMA DisjointKept == IInv /\ SwapsDisjoint /\ [Next]_vars => SwapsDisjoint'
<1> SUFFICES ASSUME IInv, SwapsDisjoint, [Next]_vars
             PROVE  SwapsDisjoint'
  OBVIOUS
<1>0. TypeOK /\ active \subseteq Models /\ evict \in [Models -> SUBSET Models]
  BY DEF IInv, TypeOK
<1>1. ASSUME active' \subseteq active, \A a \in active' : evict'[a] = evict[a]
      PROVE  SwapsDisjoint'
  BY <1>1 DEF SwapsDisjoint
<1>2. CASE GoOn
  BY <1>1, <1>2 DEF GoOn
<1>3. ASSUME NEW r \in Requests, Launches(r)
      PROVE  SwapsDisjoint'
  <2> DEFINE m == want[r]
             ev == Evictions(m)
  <2>1. /\ m \in Models /\ m \notin active /\ active' = active \union {m}
        /\ ev \subseteq Models \ {m} /\ evict' = [evict EXCEPT ![m] = ev]
        /\ \A a \in active : a \notin ev /\ m \notin evict[a] /\ ev \intersect evict[a] = {}
    BY <1>0, <1>3, LaunchApart
  <2> HIDE DEF m, ev
  <2>2. evict'[m] = ev /\ \A a \in active : evict'[a] = evict[a]
    BY <1>0, <2>1
  <2>3. \A a \in active : ({a} \union evict[a]) \intersect ({m} \union ev) = {}
    BY <2>1
  <2>4. ASSUME NEW a \in active', NEW b \in active', a # b
        PROVE  ({a} \union evict'[a]) \intersect ({b} \union evict'[b]) = {}
    <3>1. CASE a \in active /\ b \in active
      BY <2>2, <2>4, <3>1 DEF SwapsDisjoint
    <3>2. CASE a = m \/ b = m
      BY <2>1, <2>2, <2>3, <2>4, <3>2
    <3> QED BY <2>1, <3>1, <3>2
  <2> QED BY <2>4 DEF SwapsDisjoint
<1>4. ASSUME NEW s \in SwapIds, OnSwapDone(s)
      PROVE  SwapsDisjoint'
  BY <1>0, <1>1, <1>4, SwapDoneShape
<1>5. ASSUME NEW s \in SwapIds, SwapGivesUp(s)
      PROVE  SwapsDisjoint'
  BY <1>1, <1>5 DEF SwapGivesUp, swapTable
<1>6. ASSUME NEW T \in SUBSET Models, OnUnload(T)
      PROVE  SwapsDisjoint'
  <2>1. /\ active' = active \ T
        /\ evict' = [m \in Models |-> IF m \in T THEN {} ELSE evict[m]]
    BY <1>6 DEF OnUnload
  <2> QED BY <1>0, <1>1, <2>1
<1> QED BY <1>2, <1>3, <1>4, <1>5, <1>6, SwapMoves

-----------------------------------------------------------------------------
(* The goroutines and their victims, while nobody unloads.                  *)

\* A goroutine works for an entry of its own, with victims of that entry.
Goroutines ==
    /\ \A s \in SwapIds : swap[s].pc # "free" =>
         /\ swap[s].model \in active /\ ~swap[s].orphan
         /\ swap[s].pc = "stop" => swap[s].left \subseteq evict[swap[s].model]
    /\ \A s, t \in SwapIds :
         swap[s].pc # "free" /\ swap[t].pc # "free" /\ swap[s].model = swap[t].model => s = t
    /\ ~shut => \A m \in active : \E s \in SwapIds : swap[s].pc # "free" /\ swap[s].model = m

\* A victim of an active swap has no request in flight, and none of the
\* requests about to be granted asks for it.
VictimsIdle ==
    ~shut => \A a \in active : /\ \A v \in evict[a] : ~(inFlight[v] > 0)
                               /\ \A r \in fan : want[r] \notin evict[a]

SwapInv == CountInv /\ SwapsDisjoint /\ Goroutines /\ VictimsIdle

\* Without Unload no swap is dropped.
LEMMA NobodyUnloads ==
    ASSUME TypeOK, MaxUnloads = 0
    PROVE  \A T : ~OnUnload(T)
BY DEF OnUnload, TypeOK

\* The goroutine a launch takes, and what it is told.
LEMMA LaunchTakes ==
    ASSUME TypeOK, NEW r \in Requests, Launches(r)
    PROVE  \E s \in SwapIds : \E x \in Swaps :
             /\ swap[s].pc = "free" /\ swap' = [swap EXCEPT ![s] = x]
             /\ x.pc = "stop" /\ x.model = want[r] /\ x.left = Evictions(want[r]) /\ ~x.orphan
<1> DEFINE s == CHOOSE i \in SwapIds : swap[i].pc = "free"
           x == [FreeSwap EXCEPT !.pc = "stop", !.model = want[r], !.left = Evictions(want[r])]
<1>1. s \in SwapIds /\ swap[s].pc = "free" /\ swap' = [swap EXCEPT ![s] = x]
  BY DEF Launches, startSwap
<1>2. Evictions(want[r]) \subseteq Models /\ want[r] \in Models
  BY LaunchApart DEF Launches
<1>3. /\ x \in Swaps /\ x.pc = "stop" /\ x.model = want[r] /\ x.left = Evictions(want[r]) /\ ~x.orphan
  BY <1>2 DEF Swaps, SwapPcs, FreeSwap, Ids
<1> QED BY <1>1, <1>3

\* The goroutines stay with their entries.
LEMMA GoroutinesKept ==
    ASSUME MaxUnloads = 0, SwapInv, [Next]_vars
    PROVE  Goroutines'
<1>0. /\ TypeOK /\ IInv /\ active \subseteq Models /\ evict \in [Models -> SUBSET Models]
      /\ swap \in [SwapIds -> Swaps]
      /\ ~shut' => ~shut
  BY ShutStays DEF SwapInv, CountInv, IInv, TypeOK
<1>1. CASE GoOn
  <2>1. Goroutines /\ active' = active /\ evict' = evict
    BY <1>1 DEF SwapInv, GoOn
  <2>2. \A t \in SwapIds : /\ swap'[t].model = swap[t].model /\ swap'[t].orphan = swap[t].orphan
                           /\ swap'[t].left \subseteq swap[t].left
                           /\ swap'[t].pc = "free" <=> swap[t].pc = "free"
                           /\ swap'[t].pc = "stop" => swap[t].pc = "stop"
    BY <1>1 DEF GoOn
  <2>3. ASSUME NEW t \in SwapIds, swap'[t].pc # "free"
        PROVE  /\ swap'[t].model \in active' /\ ~swap'[t].orphan
               /\ swap'[t].pc = "stop" => swap'[t].left \subseteq evict'[swap'[t].model]
    BY <2>1, <2>2, <2>3 DEF Goroutines
  <2>4. \A u, t \in SwapIds :
          swap'[u].pc # "free" /\ swap'[t].pc # "free" /\ swap'[u].model = swap'[t].model => u = t
    BY <2>1, <2>2 DEF Goroutines
  <2>5. ~shut' => \A m \in active' : \E u \in SwapIds : swap'[u].pc # "free" /\ swap'[u].model = m
    BY <1>0, <2>1, <2>2 DEF Goroutines
  <2> QED BY <2>3, <2>4, <2>5 DEF Goroutines
<1>2. ASSUME NEW r \in Requests, Launches(r)
      PROVE  Goroutines'
  <2> DEFINE m == want[r]
             ev == Evictions(m)
  <2>1. /\ m \in Models /\ m \notin active /\ active' = active \union {m}
        /\ evict' = [evict EXCEPT ![m] = ev]
    BY <1>0, <1>2, LaunchApart
  <2>2. PICK s \in SwapIds, x \in Swaps :
          /\ swap[s].pc = "free" /\ swap' = [swap EXCEPT ![s] = x]
          /\ x.pc = "stop" /\ x.model = m /\ x.left = ev /\ ~x.orphan
    BY <1>0, <1>2, LaunchTakes
  <2> HIDE DEF m, ev
  <2>3. evict'[m] = ev /\ \A a \in active : evict'[a] = evict[a]
    BY <1>0, <2>1
  <2>4. swap'[s] = x /\ \A t \in SwapIds : t # s => swap'[t] = swap[t]
    BY <1>0, <2>2
  <2>5. Goroutines
    BY DEF SwapInv
  <2>6. ASSUME NEW t \in SwapIds, swap'[t].pc # "free"
        PROVE  /\ swap'[t].model \in active' /\ ~swap'[t].orphan
               /\ swap'[t].pc = "stop" => swap'[t].left \subseteq evict'[swap'[t].model]
               /\ swap'[t].model = m => t = s
    BY <2>1, <2>2, <2>3, <2>4, <2>5, <2>6 DEF Goroutines
  <2>7. \A u, t \in SwapIds :
          swap'[u].pc # "free" /\ swap'[t].pc # "free" /\ swap'[u].model = swap'[t].model => u = t
    BY <2>2, <2>4, <2>5, <2>6 DEF Goroutines
  <2>8. ~shut' => \A a \in active' : \E u \in SwapIds : swap'[u].pc # "free" /\ swap'[u].model = a
    BY <1>0, <2>1, <2>2, <2>4, <2>5 DEF Goroutines
  <2> QED BY <2>6, <2>7, <2>8 DEF Goroutines
<1>3. ASSUME NEW s \in SwapIds, OnSwapDone(s)
      PROVE  Goroutines'
  <2>1. Goroutines /\ swap[s].pc = "report" /\ swap[s].model \in active
    BY <1>0, <1>3, SwapDoneShape DEF SwapInv, Goroutines
  <2>2. /\ active' \subseteq active /\ active \ {swap[s].model} \subseteq active'
        /\ swap[s].model \notin active' /\ \A a \in active' : evict'[a] = evict[a]
        /\ swap' = [swap EXCEPT ![s] = FreeSwap]
    BY <1>0, <1>3, <2>1, SwapDoneShape
  <2>3. swap'[s].pc = "free" /\ \A t \in SwapIds : t # s => swap'[t] = swap[t]
    BY <1>0, <2>2 DEF FreeSwap
  <2>4. ASSUME NEW t \in SwapIds, swap'[t].pc # "free"
        PROVE  /\ t # s /\ swap[t].model # swap[s].model
               /\ swap'[t].model \in active' /\ ~swap'[t].orphan
               /\ swap'[t].pc = "stop" => swap'[t].left \subseteq evict'[swap'[t].model]
    BY <2>1, <2>2, <2>3, <2>4 DEF Goroutines
  <2>5. \A u, t \in SwapIds :
          swap'[u].pc # "free" /\ swap'[t].pc # "free" /\ swap'[u].model = swap'[t].model => u = t
    BY <2>1, <2>3, <2>4 DEF Goroutines
  <2>6. ~shut' => \A m \in active' : \E u \in SwapIds : swap'[u].pc # "free" /\ swap'[u].model = m
    BY <1>0, <2>1, <2>2, <2>3 DEF Goroutines
  <2> QED BY <2>4, <2>5, <2>6 DEF Goroutines
<1>4. ASSUME NEW s \in SwapIds, SwapGivesUp(s)
      PROVE  Goroutines'
  <2>1. Goroutines /\ shut /\ shut' = shut /\ active' = active /\ evict' = evict
        /\ swap' = [swap EXCEPT ![s] = FreeSwap]
    BY <1>4 DEF SwapInv, SwapGivesUp, swapTable, ctlVars
  <2>2. swap'[s].pc = "free" /\ \A t \in SwapIds : t # s => swap'[t] = swap[t]
    BY <1>0, <2>1 DEF FreeSwap
  <2> QED BY <2>1, <2>2 DEF Goroutines
<1> QED BY <1>0, <1>1, <1>2, <1>3, <1>4, SwapMoves, NobodyUnloads

\* The steps, by what they do to the requests in flight and to those about to
\* be granted: nobody comes to be in flight, or one does.
Quiet ==
    /\ UNCHANGED <<active, evict>> /\ fan' \subseteq fan
    /\ \A r \in fan : want'[r] = want[r]
    /\ \A v \in Models : inFlight'[v] > 0 => inFlight[v] > 0

Grants(r) ==
    /\ UNCHANGED <<active, evict, want>> /\ fan' \subseteq fan
    /\ inFlight' = [inFlight EXCEPT ![want[r]] = @ + 1]
    /\ want[r] \in Models
    /\ r \in fan \/ (want[r] \notin active /\ FastPath(want[r]))

LEMMA FlightMoves ==
    ASSUME Counted, [Next]_vars
    PROVE  \/ Quiet
           \/ \E r \in Requests : Grants(r) \/ Launches(r)
           \/ \E s \in SwapIds : OnSwapDone(s)
           \/ \E T \in SUBSET Models : OnUnload(T)
           \/ OnShutdown
<1>0. /\ IInv /\ TypeOK /\ inFlight \in [Models -> Int]
      /\ \A r \in fan : r \in Requests /\ want[r] \in Models /\ cpc[r] \in {"waiting", "cancelling"}
  BY DEF Counted, IInv, TypeOK, PlacedOnce, AsWaiter
<1>1. ASSUME UNCHANGED <<active, evict, want, fan, inFlight>>
      PROVE  Quiet
  BY <1>1 DEF Quiet
<1>2. ASSUME NEW r \in Requests, OnRequest(r)
      PROVE  Quiet \/ Grants(r) \/ Launches(r)
  <2>1. CASE RequestStartsSwap(r)
    BY <2>1 DEF RequestStartsSwap, Admitted, Launches, walkVars, ctlVars
  <2>2. CASE RejectRequest(r) \/ AdmitGone(r) \/ RequestJoins(r) \/ RequestQueued(r)
    BY <1>1, <2>2 DEF RejectRequest, AdmitGone, RequestJoins, Join, RequestQueued, Admitted,
       swapTable, counters, walkVars
  <2>3. CASE RequestFastPath(r)
    <3>1. /\ UNCHANGED <<active, evict, want, fan>> /\ want[r] \in Models
          /\ want[r] \notin active /\ FastPath(want[r])
          /\ UNCHANGED inFlight \/ inFlight' = [inFlight EXCEPT ![want[r]] = @ + 1]
      BY <2>3 DEF RequestFastPath, Admitted, swapTable, walkVars
    <3> QED BY <1>1, <3>1 DEF Grants
  <2> QED BY <1>2, <2>1, <2>2, <2>3 DEF OnRequest
<1>3. ASSUME NEW r \in Requests, DrainStep(r)
      PROVE  Quiet \/ Grants(r) \/ Launches(r)
  <2>1. CASE DrainStartsSwap(r)
    <3>1. /\ AtItem(r) /\ Dequeue(r) /\ want[r] \notin active /\ ~Blocked(want[r]) /\ startSwap(r)
          /\ UNCHANGED inFlight
      BY <2>1 DEF DrainStartsSwap
    <3>2. want[r] \in Models
      BY <1>0, <3>1, HeadPlaced
    <3> QED BY <3>1, <3>2 DEF Dequeue, AtItem, ctlVars, Launches
  <2>2. CASE DrainJoins(r) \/ DrainKeeps(r)
    BY <1>1, <2>2 DEF DrainJoins, Join, DrainKeeps, Dequeue, swapTable, clientVars, counters
  <2>3. CASE DrainFastPath(r)
    <3>1. /\ UNCHANGED <<active, evict, want, fan>> /\ AtItem(r)
          /\ want[r] \notin active /\ FastPath(want[r])
          /\ UNCHANGED inFlight \/ inFlight' = [inFlight EXCEPT ![want[r]] = @ + 1]
      BY <2>3 DEF DrainFastPath, Dequeue, swapTable, grantHandler
    <3>2. want[r] \in Models
      BY <1>0, <3>1, HeadPlaced
    <3> QED BY <1>1, <3>1, <3>2 DEF Grants
  <2> QED BY <1>3, <2>1, <2>2, <2>3 DEF DrainStep
<1>4. ASSUME NEW r \in Requests, AnswerWaiter(r)
      PROVE  Quiet \/ Grants(r)
  <2>1. /\ UNCHANGED <<active, evict, want>> /\ r \in fan /\ fan' = fan \ {r}
        /\ UNCHANGED inFlight \/ inFlight' = [inFlight EXCEPT ![want[r]] = @ + 1]
    BY <1>4 DEF AnswerWaiter, swapTable, grantHandler
  <2>2. want[r] \in Models
    BY <1>0, <2>1
  <2> QED BY <2>1, <2>2 DEF Quiet, Grants
<1>5. ASSUME NEW r \in Requests, OnServeDone(r)
      PROVE  Quiet
  <2>1. UNCHANGED <<active, evict, want, fan>> /\ inFlight' = [inFlight EXCEPT ![want[r]] = @ - 1]
    BY <1>5 DEF OnServeDone, swapTable
  <2>2. \A v \in Models : inFlight'[v] > 0 => inFlight[v] > 0
    BY <1>0, <2>1
  <2> QED BY <2>1, <2>2 DEF Quiet
<1>6. ASSUME NEW r \in Requests, OnCancel(r) \/ UnloadDrops(r)
      PROVE  Quiet
  BY <1>1, <1>6 DEF OnCancel, UnloadDrops, swapTable, walkVars
<1>7. ASSUME \/ \E m \in Models : UnloadStops(m) \/ ShutdownStops(m)
             \/ WaitersAnswered \/ DrainEnds \/ UnloadEnds \/ ShutdownEnds
      PROVE  Quiet
  BY <1>1, <1>7 DEF UnloadStops, ShutdownStops, WaitersAnswered, DrainEnds, UnloadEnds, ShutdownEnds,
     clientVars, swapTable, counters, walkVars
<1>8. CASE LoopStep
  <2>1. \/ \E r \in Requests : \/ OnRequest(r) \/ OnCancel(r) \/ OnServeDone(r) \/ AnswerWaiter(r)
                              \/ DrainStep(r) \/ UnloadDrops(r)
        \/ \E s \in SwapIds : OnSwapDone(s)
        \/ \/ \E m \in Models : UnloadStops(m) \/ ShutdownStops(m)
           \/ WaitersAnswered \/ DrainEnds \/ UnloadEnds \/ ShutdownEnds
        \/ OnShutdown
    BY <1>8 DEF LoopStep
  <2>2. ASSUME NEW r \in Requests, \/ OnRequest(r) \/ OnCancel(r) \/ OnServeDone(r) \/ AnswerWaiter(r)
                                  \/ DrainStep(r) \/ UnloadDrops(r)
        PROVE  Quiet \/ Grants(r) \/ Launches(r)
    BY <1>2, <1>3, <1>4, <1>5, <1>6, <2>2
  <2> QED BY <1>7, <2>1, <2>2
<1>9. ASSUME NEW r \in Requests, ClientStep(r)
      PROVE  Quiet
  <2>1. UNCHANGED <<active, evict, fan, inFlight>>
    BY <1>9 DEF ClientStep, Arrive, Disconnect, ServeReturns, LeaveOnShutdown, swapTable, counters, walkVars
  <2>2. want' = want \/ (cpc[r] = "idle" /\ \E m \in Ids : want' = [want EXCEPT ![r] = m])
    <3>1. ASSUME NEW m \in Ids, Arrive(r, m)
          PROVE  cpc[r] = "idle" /\ want' = [want EXCEPT ![r] = m]
      BY <3>1 DEF Arrive
    <3>2. CASE Disconnect(r) \/ ServeReturns(r) \/ LeaveOnShutdown(r)
      BY <3>2 DEF Disconnect, ServeReturns, LeaveOnShutdown
    <3> QED BY <1>9, <3>1, <3>2 DEF ClientStep
  <2>3. \A q \in fan : want'[q] = want[q]
    <3>1. want \in [Requests -> Ids]
      BY <1>0 DEF TypeOK
    <3> QED BY <1>0, <2>2, <3>1
  <2> QED BY <2>1, <2>3 DEF Quiet
<1>10. ASSUME \/ CallShutdown \/ Quiescent \/ UNCHANGED vars
              \/ \E r \in Requests : WaitElapses(r)
       PROVE  Quiet
  BY <1>1, <1>10 DEF CallShutdown, Quiescent, WaitElapses, vars, clientVars, swapTable, counters, walkVars
<1>11. ASSUME NEW s \in SwapIds, SwapStep(s)
       PROVE  Quiet
  BY <1>1, <1>11 DEF SwapStep, SwapStops, SwapStopped, SwapEnsures, SwapGivesUp,
     clientVars, swapTable, counters, walkVars
<1>12. ASSUME NEW m \in Models, ProcessStep(m)
       PROVE  Quiet
  BY <1>1, <1>12 DEF ProcessStep, StartEnds, ProcessExits, ProviderLoads, ProcessShutdown,
     clientVars, swapTable, counters, walkVars
<1> QED BY <1>8, <1>9, <1>10, <1>11, <1>12 DEF Next

\* A victim stays without requests in flight until its swap is over: the fast
\* path and the walk of the queue ask collidesWith, and the waiters of a swap
\* that ends wait for a model no other swap touches.
LEMMA VictimsKept ==
    ASSUME MaxUnloads = 0, SwapInv, [Next]_vars
    PROVE  VictimsIdle'
<1> SUFFICES ASSUME ~shut'
             PROVE  \A a \in active' : /\ \A v \in evict'[a] : ~(inFlight'[v] > 0)
                                       /\ \A r \in fan' : want'[r] \notin evict'[a]
  BY DEF VictimsIdle
<1>0. /\ TypeOK /\ IInv /\ ~shut /\ Counted
      /\ active \subseteq Models /\ evict \in [Models -> SUBSET Models]
      /\ inFlight \in [Models -> Int]
  BY ShutStays DEF SwapInv, CountInv, Counted, IInv, TypeOK
<1>1. \A a \in active : /\ \A v \in evict[a] : v \in Models /\ ~(inFlight[v] > 0)
                        /\ \A r \in fan : want[r] \notin evict[a]
  BY <1>0 DEF SwapInv, VictimsIdle
<1>2. CASE Quiet
  <2>1. active' = active /\ evict' = evict /\ fan' \subseteq fan
    BY <1>2 DEF Quiet
  <2>2. (\A r \in fan : want'[r] = want[r]) /\ \A v \in Models : inFlight'[v] > 0 => inFlight[v] > 0
    BY <1>2 DEF Quiet
  <2> QED BY <1>1, <2>1, <2>2
<1>3. ASSUME NEW r \in Requests, Grants(r)
      PROVE  \A a \in active' : /\ \A v \in evict'[a] : ~(inFlight'[v] > 0)
                                /\ \A q \in fan' : want'[q] \notin evict'[a]
  <2>1. /\ active' = active /\ evict' = evict /\ want' = want /\ fan' \subseteq fan
        /\ want[r] \in Models /\ inFlight' = [inFlight EXCEPT ![want[r]] = @ + 1]
    BY <1>3 DEF Grants
  <2>2. \A a \in active : want[r] \notin evict[a]
    BY <1>1, <1>3 DEF Grants, FastPath, collidesWith
  <2>3. \A v \in Models : v # want[r] => inFlight'[v] = inFlight[v]
    BY <1>0, <2>1
  <2> QED BY <1>1, <2>1, <2>2, <2>3
<1>4. ASSUME NEW r \in Requests, Launches(r)
      PROVE  \A a \in active' : /\ \A v \in evict'[a] : ~(inFlight'[v] > 0)
                                /\ \A q \in fan' : want'[q] \notin evict'[a]
  <2> DEFINE m == want[r]
             ev == Evictions(m)
  <2>1. /\ m \in Models /\ m \notin active /\ active' = active \union {m}
        /\ evict' = [evict EXCEPT ![m] = ev]
        /\ \A v \in ev : ~(inFlight[v] > 0)
    BY <1>0, <1>4, LaunchApart
  <2>2. inFlight' = inFlight /\ fan' = {}
    BY <1>0, <1>4 DEF Launches, Counted, PlacedOnce
  <2> HIDE DEF m, ev
  <2>3. evict'[m] = ev /\ \A a \in active : evict'[a] = evict[a]
    BY <1>0, <2>1
  <2> QED BY <1>1, <2>1, <2>2, <2>3
<1>5. ASSUME NEW s \in SwapIds, OnSwapDone(s)
      PROVE  \A a \in active' : /\ \A v \in evict'[a] : ~(inFlight'[v] > 0)
                                /\ \A q \in fan' : want'[q] \notin evict'[a]
  <2> DEFINE m == swap[s].model
  <2>1. m \in active
    BY <1>0, <1>5, SwapDoneShape DEF SwapInv, Goroutines
  <2>2. /\ want' = want /\ inFlight' = inFlight /\ fan' = waiters[m]
        /\ active' \subseteq active /\ m \notin active' /\ \A a \in active' : evict'[a] = evict[a]
    BY <1>0, <1>5, <2>1, SwapDoneShape
  <2> HIDE DEF m
  <2>3. \A q \in fan' : want[q] = m
    BY <1>0, <2>1, <2>2 DEF Counted, PlacedOnce, TypeOK
  <2>4. \A a \in active : a # m => m \notin evict[a]
    BY <2>1 DEF SwapInv, SwapsDisjoint
  <2> QED BY <1>1, <2>2, <2>3, <2>4
<1>6. ~OnShutdown
  BY DEF OnShutdown
<1> QED BY <1>0, <1>2, <1>3, <1>4, <1>5, <1>6, FlightMoves, NobodyUnloads

\* The invariant of the swaps.
LEMMA InitSwaps == Init => SwapInv
<1> SUFFICES ASSUME Init
             PROVE  SwapInv
  OBVIOUS
<1>1. CountInv
  BY InitCounts
<1>2. SwapsDisjoint /\ VictimsIdle
  BY DEF Init, SwapsDisjoint, VictimsIdle
<1>3. Goroutines
  BY DEF Init, FreeSwap, Goroutines
<1> QED BY <1>1, <1>2, <1>3 DEF SwapInv

LEMMA SwapInvKept == MaxUnloads = 0 /\ SwapInv /\ [Next]_vars => SwapInv'
<1> SUFFICES ASSUME MaxUnloads = 0, SwapInv, [Next]_vars
             PROVE  SwapInv'
  OBVIOUS
<1>1. CountInv'
  BY CountInvKept DEF SwapInv
<1>2. SwapsDisjoint'
  BY DisjointKept DEF SwapInv, CountInv
<1> QED BY <1>1, <1>2, GoroutinesKept, VictimsKept DEF SwapInv

\* What a swap stops is a victim of an active swap, which serves nobody.
LEMMA VictimsServeNobody ==
    ASSUME SwapInv, NEW s \in SwapIds, NEW v \in Models, SwapStops(s, v), ~shut,
           NEW r \in Requests, want[r] = v
    PROVE  ~Served(r)
<1>1. swap[s].pc = "stop" /\ v \in swap[s].left
  BY DEF SwapStops
<1>2. swap[s].model \in active /\ v \in evict[swap[s].model]
  BY <1>1 DEF SwapInv, Goroutines
<1>3. ~(inFlight[v] > 0)
  BY <1>2 DEF SwapInv, VictimsIdle
<1> DEFINE flight == {q \in Requests : want[q] = v /\ Served(q)}
<1>4. Counted
  BY DEF SwapInv, CountInv, Counted
<1>5. inFlight[v] = Cardinality(flight) /\ IsFiniteSet(flight)
  BY <1>4, ExactBy, OwingCame
<1> HIDE DEF flight
<1>6. Cardinality(flight) \in Nat
  BY <1>5, FS_CardinalityType
<1>7. Cardinality(flight) = 0
  BY <1>3, <1>5, <1>6
<1>8. flight = {}
  BY <1>5, <1>7, FS_EmptySet
<1> QED BY <1>8 DEF flight

-----------------------------------------------------------------------------
(* The theorems about swaps.                                                *)

\* Active swaps never share a model, as target or as victim, whatever is
\* unloaded meanwhile: collidesWith sees to it when a swap is decided.
THEOREM SwapsStayApart == Spec => []SwapsDisjoint
<1>1. Init => IInv /\ SwapsDisjoint
  BY InitHolds DEF Init, SwapsDisjoint
<1>2. IInv /\ SwapsDisjoint /\ [Next]_vars => IInv' /\ SwapsDisjoint'
  BY StepKeeps, DisjointKept
<1> QED BY <1>1, <1>2, PTL DEF Spec

\* While nobody unloads, every active entry has one doSwap goroutine, and every
\* goroutine an entry, so a result is never taken for that of another swap.
THEOREM EachSwapHasItsGoroutine == MaxUnloads = 0 => (Spec => []OneGoroutinePerSwap)
<1> SUFFICES ASSUME MaxUnloads = 0
             PROVE  Spec => []OneGoroutinePerSwap
  OBVIOUS
<1>1. SwapInv => OneGoroutinePerSwap
  BY DEF SwapInv, Goroutines, OneGoroutinePerSwap
<1>2. SwapInv /\ [Next]_vars => SwapInv'
  BY SwapInvKept
<1> QED BY <1>1, <1>2, InitSwaps, PTL DEF Spec

\* While nobody unloads, no swap stops a model that serves a request, though
\* the request may come after the swap was decided (conflictsWithInFlight is
\* asked before, p.Stop is called later in a goroutine).
THEOREM SwapsSpareTheBusy == MaxUnloads = 0 => (Spec => NoBusyEviction)
<1> SUFFICES ASSUME MaxUnloads = 0
             PROVE  Spec => NoBusyEviction
  OBVIOUS
<1>1. SwapInv => \A s \in SwapIds : \A v \in Models :
                   SwapStops(s, v) /\ ~shut => \A r \in Requests : want[r] = v => ~Served(r)
  BY VictimsServeNobody
<1>2. SwapInv /\ [Next]_vars => SwapInv'
  BY SwapInvKept
<1> QED BY <1>1, <1>2, InitSwaps, PTL DEF Spec, NoBusyEviction

-----------------------------------------------------------------------------
(* Siblings, for a router of its own processes.                             *)

\* A policy whose mind about two siblings does not depend on what else runs.
Steady ==
    \A a, b \in Models : Excludes(a, b) =>
        \A R, S \in SUBSET Models : b \in R => b \in EvictionFor(a, R, S)

Up(b) == ps[b] \notin {"stopped", "shutdown"}

\* Siblings are not swapped in together, a sibling of a swap's target that is
\* up is still to be stopped by it, and so siblings are never both up.
Apart ==
    /\ \A a, b \in active : ~Excludes(a, b)
    /\ \A a \in active, b \in Models : Excludes(a, b) /\ Up(b) =>
         \E s \in SwapIds : swap[s].pc = "stop" /\ swap[s].model = a /\ b \in swap[s].left
    /\ SiblingsExclusive

\* No model is its own sibling, and siblings are each other's.
LEMMA ExcludesOthers ==
    ASSUME NEW a \in Models, NEW b \in Models, Excludes(a, b)
    PROVE  a # b /\ Excludes(b, a)
<1>1. {b} \in SUBSET Models /\ {} \in SUBSET Models
  OBVIOUS
<1>2. EvictionFor(a, {b}, {}) \subseteq ({b} \union {}) \ {a}
  BY <1>1, EvictionAssumption
<1>3. b \in EvictionFor(a, {b}, {})
  BY DEF Excludes
<1> QED BY <1>2, <1>3 DEF Excludes

\* A launch of a model stops its siblings that are up, and waits for those
\* that are being swapped in.
LEMMA LaunchSeesSiblings ==
    ASSUME TypeOK, Steady, NEW m \in Models, NEW b \in Models, Excludes(m, b),
           Up(b) \/ b \in active
    PROVE  b \in Evictions(m)
<1>1. b # m
  BY ExcludesOthers
<1>2. b \in runningSet(m)
  BY <1>1 DEF runningSet, Up
<1>3. runningSet(m) \in SUBSET Models /\ Ready \in SUBSET Models
  BY DEF runningSet, Ready, TypeOK
<1> QED BY <1>2, <1>3 DEF Steady, Evictions

\* The steps, by what they do to the processes: nobody comes up, and a victim
\* that is up is still to be stopped.
Calm ==
    /\ active' \subseteq active
    /\ \A x \in Models : Up(x)' => Up(x)
    /\ \A s \in SwapIds : \A b \in swap[s].left :
         swap[s].pc = "stop" /\ b \in Models /\ Up(b)' =>
           swap'[s].pc = "stop" /\ swap'[s].model = swap[s].model /\ b \in swap'[s].left

LEMMA ProcMoves ==
    ASSUME IInv, Leased = {}, [Next]_vars
    PROVE  \/ Calm
           \/ \E r \in Requests : Launches(r)
           \/ \E s \in SwapIds : SwapEnsures(s)
           \/ \E T \in SUBSET Models : OnUnload(T)
<1>0. /\ TypeOK /\ ps \in [Models -> ProcStates] /\ swap \in [SwapIds -> Swaps]
  BY DEF IInv, TypeOK
<1>1. ASSUME UNCHANGED ps, swap' = swap, active' \subseteq active
      PROVE  Calm
  BY <1>1 DEF Calm, Up
<1>2. ASSUME NEW m \in Models, Stop(m), UNCHANGED active
      PROVE  ~Up(m)' /\ \A x \in Models : Up(x)' => Up(x)
  BY <1>0, <1>2 DEF Stop, Up
<1>3. ASSUME NEW m \in Models, UnloadStops(m) \/ ShutdownStops(m)
      PROVE  Calm
  <2>1. Stop(m) /\ swap' = StartOver(swap, m, TRUE) /\ active' = active
    BY <1>3 DEF UnloadStops, ShutdownStops, swapTable
  <2>2. \A x \in Models : Up(x)' => Up(x)
    BY <1>2, <2>1
  <2>3. \A s \in SwapIds : swap[s].pc = "stop" =>
          swap'[s].pc = "stop" /\ swap'[s].model = swap[s].model /\ swap'[s].left = swap[s].left
    BY <1>0, <2>1, StartOverShape
  <2> QED BY <2>1, <2>2, <2>3 DEF Calm
<1>4. ASSUME NEW m \in Models, ProcessStep(m)
      PROVE  Calm
  <2>1. active' = active
    BY <1>4 DEF ProcessStep, StartEnds, ProcessExits, ProviderLoads, ProcessShutdown, swapTable
  <2>2. swap' = swap \/ \E err \in BOOLEAN : swap' = StartOver(swap, m, err)
    BY <1>4 DEF ProcessStep, StartEnds, ProcessExits, ProviderLoads, ProcessShutdown
  <2>3. \A s \in SwapIds : swap[s].pc = "stop" =>
          swap'[s].pc = "stop" /\ swap'[s].model = swap[s].model /\ swap'[s].left = swap[s].left
    BY <1>0, <2>2, StartOverShape
  <2>4. \A x \in Models : Up(x)' => Up(x)
    BY <1>0, <1>4 DEF ProcessStep, StartEnds, ProcessExits, ProviderLoads, ProcessShutdown, Up
  <2> QED BY <2>1, <2>3, <2>4 DEF Calm
<1>5. ASSUME NEW r \in Requests, OnRequest(r)
      PROVE  Calm \/ Launches(r)
  <2>1. CASE RequestStartsSwap(r)
    BY <2>1 DEF RequestStartsSwap, Admitted, Launches, walkVars, ctlVars
  <2>2. CASE RejectRequest(r) \/ AdmitGone(r) \/ RequestJoins(r) \/ RequestFastPath(r) \/ RequestQueued(r)
    BY <1>1, <2>2 DEF RejectRequest, AdmitGone, RequestJoins, Join, RequestFastPath, RequestQueued,
       Admitted, swapTable
  <2> QED BY <1>5, <2>1, <2>2 DEF OnRequest
<1>6. ASSUME NEW r \in Requests, DrainStep(r)
      PROVE  Calm \/ Launches(r)
  <2>1. CASE DrainStartsSwap(r)
    <3>1. /\ AtItem(r) /\ Dequeue(r) /\ want[r] \notin active /\ ~Blocked(want[r]) /\ startSwap(r)
          /\ UNCHANGED inFlight
      BY <2>1 DEF DrainStartsSwap
    <3>2. want[r] \in Models
      BY <3>1, HeadPlaced
    <3> QED BY <3>1, <3>2 DEF Dequeue, AtItem, ctlVars, Launches
  <2>2. CASE DrainJoins(r) \/ DrainFastPath(r) \/ DrainKeeps(r)
    BY <1>1, <2>2 DEF DrainJoins, Join, DrainFastPath, DrainKeeps, Dequeue, swapTable
  <2> QED BY <1>6, <2>1, <2>2 DEF DrainStep
<1>7. ASSUME NEW s \in SwapIds, OnSwapDone(s)
      PROVE  Calm
  <2>1. /\ swap[s].pc = "report" /\ swap' = [swap EXCEPT ![s] = FreeSwap] /\ ps' = ps
        /\ active' \subseteq active
    BY <1>0, <1>7, SwapDoneShape
  <2>2. \A t \in SwapIds : swap[t].pc = "stop" => swap'[t] = swap[t]
    BY <1>0, <2>1
  <2> QED BY <2>1, <2>2 DEF Calm, Up
<1>8. ASSUME NEW r \in Requests, OnCancel(r) \/ OnServeDone(r) \/ AnswerWaiter(r) \/ UnloadDrops(r)
      PROVE  Calm
  BY <1>1, <1>8 DEF OnCancel, OnServeDone, AnswerWaiter, UnloadDrops, swapTable
<1>9. ASSUME WaitersAnswered \/ DrainEnds \/ UnloadEnds \/ OnShutdown \/ ShutdownEnds
      PROVE  Calm
  BY <1>1, <1>9 DEF WaitersAnswered, DrainEnds, UnloadEnds, OnShutdown, ShutdownEnds, swapTable
<1>10. CASE LoopStep
  <2>1. \/ \E r \in Requests : \/ OnRequest(r) \/ OnCancel(r) \/ OnServeDone(r) \/ AnswerWaiter(r)
                              \/ DrainStep(r) \/ UnloadDrops(r)
        \/ \E s \in SwapIds : OnSwapDone(s)
        \/ \E m \in Models : UnloadStops(m) \/ ShutdownStops(m)
        \/ WaitersAnswered \/ DrainEnds \/ UnloadEnds \/ OnShutdown \/ ShutdownEnds
    BY <1>10 DEF LoopStep
  <2> QED BY <1>3, <1>5, <1>6, <1>7, <1>8, <1>9, <2>1
<1>11. CASE \/ CallShutdown
            \/ \E r \in Requests : ClientStep(r) \/ WaitElapses(r)
            \/ Quiescent \/ UNCHANGED vars
  BY <1>1, <1>11 DEF CallShutdown, ClientStep, Arrive, Disconnect, ServeReturns, LeaveOnShutdown,
     WaitElapses, Quiescent, vars, swapTable
<1>12. ASSUME NEW s \in SwapIds, NEW v \in Models, SwapStops(s, v)
       PROVE  Calm
  <2> DEFINE sw == StartOver(swap, v, TRUE)
  <2>1. \A t \in SwapIds :
          /\ sw[t].model = swap[t].model /\ sw[t].left = swap[t].left
          /\ swap[t].pc = "stop" => sw[t].pc = "stop"
    <3>1. ASSUME NEW t \in SwapIds
          PROVE  /\ sw[t].model = swap[t].model /\ sw[t].left = swap[t].left
                 /\ sw[t].pc = IF swap[t].pc = "start" /\ swap[t].model = v THEN "report" ELSE swap[t].pc
      <4>1. \A err \in BOOLEAN :
              LET new == StartOver(swap, v, err)[t] IN
              /\ new.model = swap[t].model /\ new.left = swap[t].left
              /\ new.pc = IF swap[t].pc = "start" /\ swap[t].model = v THEN "report" ELSE swap[t].pc
        BY <1>0, StartOverShape
      <4> QED BY ONLY <4>1
    <3> HIDE DEF sw
    <3> QED BY ONLY <3>1
  <2>2. sw \in [SwapIds -> Swaps]
    BY <1>0, StopTyped
  <2>3. swap' = [sw EXCEPT ![s].left = @ \ {v}] /\ active' = active /\ Stop(v)
    BY <1>12 DEF SwapStops, swapTable
  <2> HIDE DEF sw
  <2>4. ~Up(v)' /\ \A x \in Models : Up(x)' => Up(x)
    BY <1>2, <2>3
  <2>5. ASSUME NEW t \in SwapIds
        PROVE  /\ swap'[t].model = sw[t].model /\ swap'[t].pc = sw[t].pc
               /\ sw[t].left \ {v} \subseteq swap'[t].left
    BY <2>2, <2>3 DEF Swaps
  <2> QED BY <2>1, <2>3, <2>4, <2>5 DEF Calm
<1>13. ASSUME NEW s \in SwapIds, SwapStopped(s) \/ SwapGivesUp(s)
       PROVE  Calm
  <2>1. /\ active' = active /\ ps' = ps
        /\ \E x : swap' = [swap EXCEPT ![s] = x]
        /\ swap[s].pc = "stop" => swap[s].left = {}
    BY <1>0, <1>13 DEF SwapStopped, SwapGivesUp, swapTable
  <2>2. \A t \in SwapIds : t # s => swap'[t] = swap[t]
    BY <1>0, <2>1
  <2> QED BY <2>1, <2>2 DEF Calm, Up
<1>14. ASSUME NEW s \in SwapIds, SwapStep(s)
       PROVE  Calm \/ SwapEnsures(s)
  BY <1>12, <1>13, <1>14 DEF SwapStep
<1> QED BY <1>4, <1>10, <1>11, <1>14 DEF Next

\* Siblings stay apart.
LEMMA ApartKept ==
    ASSUME MaxUnloads = 0, Leased = {}, Steady, SwapInv, Apart, [Next]_vars
    PROVE  Apart'
<1>0. /\ TypeOK /\ IInv /\ active \subseteq Models /\ ps \in [Models -> ProcStates]
      /\ swap \in [SwapIds -> Swaps]
  BY DEF SwapInv, CountInv, IInv, TypeOK
<1>1. CASE Calm
  <2>1. /\ active' \subseteq active /\ \A x \in Models : Up(x)' => Up(x)
        /\ \A s \in SwapIds : \A b \in swap[s].left :
             swap[s].pc = "stop" /\ b \in Models /\ Up(b)' =>
               swap'[s].pc = "stop" /\ swap'[s].model = swap[s].model /\ b \in swap'[s].left
    BY <1>1 DEF Calm
  <2>2. \A a, b \in active' : ~Excludes(a, b)
    BY <2>1 DEF Apart
  <2>3. ASSUME NEW a \in active', NEW b \in Models, Excludes(a, b), Up(b)'
        PROVE  \E s \in SwapIds : swap'[s].pc = "stop" /\ swap'[s].model = a /\ b \in swap'[s].left
    <3>1. PICK s \in SwapIds : swap[s].pc = "stop" /\ swap[s].model = a /\ b \in swap[s].left
      BY <2>1, <2>3 DEF Apart
    <3> QED BY <2>1, <2>3, <3>1
  <2>4. SiblingsExclusive'
    BY <2>1 DEF Apart, SiblingsExclusive, Up
  <2> QED BY <2>2, <2>3, <2>4 DEF Apart
<1>2. ASSUME NEW r \in Requests, Launches(r)
      PROVE  Apart'
  <2> DEFINE m == want[r]
             ev == Evictions(m)
  <2>1. /\ m \in Models /\ m \notin active /\ active' = active \union {m} /\ ps' = ps
        /\ \A a \in active : a \notin ev
    BY <1>0, <1>2, LaunchApart DEF Launches
  <2>2. PICK s \in SwapIds, x \in Swaps :
          /\ swap[s].pc = "free" /\ swap' = [swap EXCEPT ![s] = x]
          /\ x.pc = "stop" /\ x.model = m /\ x.left = ev
    BY <1>0, <1>2, LaunchTakes
  <2>3. \A b \in Models : Excludes(m, b) /\ (Up(b) \/ b \in active) => b \in ev
    BY <1>0, <2>1, LaunchSeesSiblings
  <2> HIDE DEF m, ev
  <2>4. swap'[s] = x /\ \A t \in SwapIds : t # s => swap'[t] = swap[t]
    BY <1>0, <2>2
  <2>5. \A a, b \in active' : ~Excludes(a, b)
    <3>1. \A b \in active : ~Excludes(m, b) /\ ~Excludes(b, m)
      BY <1>0, <2>1, <2>3, ExcludesOthers
    <3>2. ~Excludes(m, m)
      BY <2>1, ExcludesOthers
    <3> QED BY <2>1, <3>1, <3>2 DEF Apart
  <2>6. ASSUME NEW a \in active', NEW b \in Models, Excludes(a, b), Up(b)'
        PROVE  \E t \in SwapIds : swap'[t].pc = "stop" /\ swap'[t].model = a /\ b \in swap'[t].left
    <3>1. Up(b)
      BY <2>1, <2>6 DEF Up
    <3>2. CASE a = m
      BY <2>2, <2>3, <2>4, <2>6, <3>1, <3>2
    <3>3. CASE a \in active
      <4>1. PICK t \in SwapIds : swap[t].pc = "stop" /\ swap[t].model = a /\ b \in swap[t].left
        BY <2>6, <3>1, <3>3 DEF Apart
      <4> QED BY <2>2, <2>4, <4>1
    <3> QED BY <2>1, <3>2, <3>3
  <2>7. SiblingsExclusive'
    BY <2>1 DEF Apart, SiblingsExclusive
  <2> QED BY <2>5, <2>6, <2>7 DEF Apart
<1>3. ASSUME NEW s \in SwapIds, SwapEnsures(s)
      PROVE  Apart'
  <2> DEFINE m == swap[s].model
  <2>1. /\ swap[s].pc = "ensure" /\ active' = active /\ \E x : swap' = [swap EXCEPT ![s] = x]
        /\ ps' = ps \/ ps' = [ps EXCEPT ![m] = "starting"]
    <3>1. swap[s].pc = "ensure" /\ active' = active
      BY <1>3 DEF SwapEnsures, swapTable
    <3>2. \/ ps' = [ps EXCEPT ![m] = "starting"] /\ swap' = [swap EXCEPT ![s].pc = "start"]
          \/ ps' = ps /\ \E e : swap' = [swap EXCEPT ![s].pc = "report", ![s].err = e]
      BY <1>3 DEF SwapEnsures
    <3> QED BY <1>0, <3>1, <3>2
  <2>2. m \in active /\ m \in Models
    BY <1>0, <2>1 DEF SwapInv, Goroutines
  <2>3. \A t \in SwapIds : swap[t].pc = "stop" => swap'[t] = swap[t] /\ swap[t].model # m
    BY <1>0, <2>1 DEF SwapInv, Goroutines
  <2> HIDE DEF m
  <2>4. \A b \in Models : Up(b)' => Up(b) \/ b = m
    BY <1>0, <2>1, <2>2 DEF Up
  <2>5. \A b \in Models : Excludes(m, b) \/ Excludes(b, m) => ~Up(b) /\ b # m
    BY <2>2, <2>3, ExcludesOthers DEF Apart
  <2>6. \A a, b \in active' : ~Excludes(a, b)
    BY <2>1 DEF Apart
  <2>7. ASSUME NEW a \in active', NEW b \in Models, Excludes(a, b), Up(b)'
        PROVE  \E t \in SwapIds : swap'[t].pc = "stop" /\ swap'[t].model = a /\ b \in swap'[t].left
    <3>1. a \in active /\ Up(b)
      BY <1>0, <2>1, <2>2, <2>4, <2>7 DEF Apart
    <3>2. PICK t \in SwapIds : swap[t].pc = "stop" /\ swap[t].model = a /\ b \in swap[t].left
      BY <2>7, <3>1 DEF Apart
    <3> QED BY <2>3, <3>2
  <2>8. ASSUME NEW a \in Models, NEW b \in Models, Excludes(a, b)
        PROVE  ~Up(a)' \/ ~Up(b)'
    <3>1. ~Up(a) \/ ~Up(b)
      BY <2>8 DEF Apart, SiblingsExclusive, Up
    <3> QED BY <2>4, <2>5, <2>8, <3>1
  <2>9. SiblingsExclusive'
    BY <2>8 DEF SiblingsExclusive, Up
  <2> QED BY <2>6, <2>7, <2>9 DEF Apart
<1> QED BY <1>0, <1>1, <1>2, <1>3, ProcMoves, NobodyUnloads

\* Siblings that evict each other are never both up, while nobody unloads: a
\* swap sees those that run and those that other swaps are about to start.
THEOREM SiblingsNeverMeet ==
    (MaxUnloads = 0 /\ Leased = {} /\ Steady) => (Spec => []SiblingsExclusive)
<1> SUFFICES ASSUME MaxUnloads = 0, Leased = {}, Steady
             PROVE  Spec => []SiblingsExclusive
  OBVIOUS
<1>1. Init => SwapInv /\ Apart
  <2> SUFFICES ASSUME Init
               PROVE  SwapInv /\ Apart
    OBVIOUS
  <2>1. active = {} /\ \A m \in Models : ps[m] = "stopped"
    BY LoadedAssumption DEF Init
  <2> QED BY <2>1, InitSwaps DEF Apart, SiblingsExclusive
<1>2. SwapInv /\ Apart /\ [Next]_vars => SwapInv' /\ Apart'
  BY SwapInvKept, ApartKept
<1>3. Apart => SiblingsExclusive
  BY DEF Apart
<1> QED BY <1>1, <1>2, <1>3, PTL DEF Spec

\* The group swapper is such a policy: whether it evicts a sibling is a matter
\* of the two groups (groupSwapper.EvictionFor).
LEMMA GroupsAreSteady ==
    ASSUME \A m \in Models : \A R, S \in SUBSET Models :
             EvictionFor(m, R, S) = GroupEvictionFor(m, R)
    PROVE  Steady
<1> SUFFICES ASSUME NEW a \in Models, NEW b \in Models, Excludes(a, b),
                    NEW R \in SUBSET Models, NEW S \in SUBSET Models, b \in R
             PROVE  b \in EvictionFor(a, R, S)
  BY DEF Steady
<1>1. {b} \in SUBSET Models /\ {} \in SUBSET Models
  OBVIOUS
<1>2. b \in GroupEvictionFor(a, {b})
  BY <1>1 DEF Excludes
<1>3. b \in GroupEvictionFor(a, R)
  BY <1>2 DEF GroupEvictionFor
<1> QED BY <1>3

-----------------------------------------------------------------------------
(* The order of the queue.                                                  *)

\* The models of a resident-first pool have one priority.  Across priorities
\* fairOrder leaves the queue out of order, and drainQueue stores it so.
UniformPools ==
    \A p \in ResidentFirst : \A m, n \in Models :
        PoolOf[m] = p /\ PoolOf[n] = p => Priority[m] = Priority[n]

\* Higher priority first.
Falling ==
    \A i, j \in 1..Len(queued) :
        i < j => Priority[want[queued[j]]] <= Priority[want[queued[i]]]

\* x may leave a walk before y: nothing of the queue's order is lost.
Ahead(x, y) ==
    /\ Priority[want[y]] <= Priority[want[x]]
    /\ want[x] = want[y] =>
         \E i, j \in 1..Len(queued) : i < j /\ queued[i] = x /\ queued[j] = y

\* What drainQueue has put back comes before what it has not looked at, and
\* both are in order.
WalkInOrder ==
    /\ \A i, j \in 1..Len(remaining) : i < j => Ahead(remaining[i], remaining[j])
    /\ \A i, j \in 1..Len(pending) : i < j => Ahead(pending[i], pending[j])
    /\ \A i \in 1..Len(remaining) : \A j \in 1..Len(pending) : Ahead(remaining[i], pending[j])

OrderInv ==
    /\ CountInv
    /\ shut => loopPc \in {"fanout", "shutdown", "exited"}
    /\ loopPc # "drain" => remaining = <<>>
    /\ ~shut => Falling /\ WalkInOrder

\* The steps, by what they do to the queue.
QueueRests ==
    UNCHANGED <<queued, pending, remaining>> /\ (loopPc' = "drain" <=> loopPc = "drain")
WalkGoesOn(r) ==
    /\ AtItem(r) /\ pending' = Tail(pending)
    /\ remaining' = remaining \/ remaining' = Append(remaining, r)
    /\ UNCHANGED <<want, queued, loopPc>>
WalkStarts == loopPc # "drain" /\ BeginDrain /\ UNCHANGED <<want, queued, remaining>>
OneLeaves(r) ==
    /\ loopPc \in {"select", "unload"} /\ queued' = RemoveFirst(queued, r)
    /\ UNCHANGED <<want, pending, remaining, loopPc>>
OneEnters(r) ==
    /\ loopPc = "select" /\ cpc[r] = "arriving" /\ want[r] \in Models /\ enqueue(r)
    /\ UNCHANGED <<want, pending, remaining, loopPc>>

LEMMA QueueMoves ==
    ASSUME TypeOK, [Next]_vars
    PROVE  \/ QueueRests \/ WalkStarts \/ DrainEnds
           \/ \E r \in Requests : WalkGoesOn(r) \/ OneLeaves(r) \/ OneEnters(r)
<1>1. ASSUME NEW r \in Requests, OnRequest(r)
      PROVE  QueueRests \/ OneEnters(r)
  BY <1>1 DEF OnRequest, RejectRequest, AdmitGone, RequestJoins, RequestFastPath, RequestQueued,
     RequestStartsSwap, Admitted, QueueRests, OneEnters, queueVars, walkVars
<1>2. ASSUME NEW r \in Requests, OnCancel(r) \/ UnloadDrops(r)
      PROVE  OneLeaves(r)
  BY <1>2 DEF OnCancel, UnloadDrops, OneLeaves, walkVars
<1>3. ASSUME NEW r \in Requests, OnServeDone(r)
      PROVE  QueueRests \/ WalkStarts
  BY <1>3 DEF OnServeDone, QueueRests, WalkStarts, queueVars
<1>4. ASSUME NEW r \in Requests, AnswerWaiter(r)
      PROVE  QueueRests
  BY <1>4 DEF AnswerWaiter, QueueRests, queueVars
<1>5. ASSUME NEW r \in Requests, DrainStep(r)
      PROVE  WalkGoesOn(r)
  BY <1>5 DEF DrainStep, DrainJoins, DrainFastPath, DrainStartsSwap, DrainKeeps, Dequeue, WalkGoesOn,
     clientVars, queueVars
<1>6. CASE WaitersAnswered \/ UnloadEnds
  BY <1>6 DEF WaitersAnswered, UnloadEnds, QueueRests, WalkStarts, clientVars, queueVars
<1>7. ASSUME \/ \E s \in SwapIds : OnSwapDone(s)
             \/ \E m \in Models : UnloadStops(m) \/ ShutdownStops(m)
             \/ OnShutdown \/ ShutdownEnds
      PROVE  QueueRests
  BY <1>7 DEF OnSwapDone, UnloadStops, ShutdownStops, OnShutdown, ShutdownEnds, QueueRests,
     queueVars, walkVars
<1>8. ASSUME \/ \E T \in SUBSET Models \ {{}} : OnUnload(T)
             \/ CallShutdown
             \/ \E r \in Requests : ClientStep(r) \/ WaitElapses(r)
      PROVE  QueueRests
  BY <1>8 DEF OnUnload, CallShutdown, ClientStep, Arrive, Disconnect, ServeReturns, LeaveOnShutdown,
     WaitElapses, QueueRests, queueVars, walkVars
<1>9. ASSUME \/ \E s \in SwapIds : SwapStep(s)
             \/ \E m \in Models : ProcessStep(m)
             \/ Quiescent \/ UNCHANGED vars
      PROVE  QueueRests
  BY <1>9 DEF SwapStep, SwapStops, SwapStopped, SwapEnsures, SwapGivesUp, ProcessStep, StartEnds,
     ProcessExits, ProviderLoads, ProcessShutdown, Quiescent, vars, QueueRests, queueVars, walkVars
<1>10. CASE LoopStep
  BY <1>1, <1>2, <1>3, <1>4, <1>5, <1>6, <1>7, <1>10 DEF LoopStep
<1> QED BY <1>8, <1>9, <1>10 DEF Next

\* A request that has come goes on to ask for the same model.
LEMMA WantStays ==
    ASSUME TypeOK, [Next]_vars, NEW q \in Requests, cpc[q] # "idle"
    PROVE  want'[q] = want[q]
<1>1. ASSUME NEW r \in Requests, NEW m \in Ids, Arrive(r, m)
      PROVE  want'[q] = want[q]
  BY <1>1 DEF Arrive, TypeOK
<1>2. ASSUME NEW r \in Requests, \/ OnRequest(r) \/ OnCancel(r) \/ OnServeDone(r) \/ AnswerWaiter(r)
                                 \/ DrainStep(r) \/ UnloadDrops(r) \/ WaitElapses(r)
                                 \/ Disconnect(r) \/ ServeReturns(r) \/ LeaveOnShutdown(r)
      PROVE  want' = want
  BY <1>2 DEF OnRequest, RejectRequest, AdmitGone, RequestJoins, RequestFastPath, RequestQueued,
     RequestStartsSwap, Admitted, OnCancel, OnServeDone, AnswerWaiter, DrainStep, DrainJoins,
     DrainFastPath, DrainStartsSwap, DrainKeeps, Dequeue, UnloadDrops, WaitElapses, Disconnect,
     ServeReturns, LeaveOnShutdown, clientVars
<1>3. ASSUME \/ \E s \in SwapIds : OnSwapDone(s)
             \/ \E m \in Models : UnloadStops(m) \/ ShutdownStops(m)
             \/ WaitersAnswered \/ DrainEnds \/ UnloadEnds \/ OnShutdown \/ ShutdownEnds
             \/ \E T \in SUBSET Models \ {{}} : OnUnload(T)
             \/ CallShutdown
      PROVE  want' = want
  BY <1>3 DEF OnSwapDone, UnloadStops, ShutdownStops, WaitersAnswered, DrainEnds, UnloadEnds,
     OnShutdown, ShutdownEnds, OnUnload, CallShutdown, clientVars
<1>4. ASSUME \/ \E s \in SwapIds : SwapStep(s)
             \/ \E m \in Models : ProcessStep(m)
             \/ Quiescent \/ UNCHANGED vars
      PROVE  want' = want
  BY <1>4 DEF SwapStep, SwapStops, SwapStopped, SwapEnsures, SwapGivesUp, ProcessStep, StartEnds,
     ProcessExits, ProviderLoads, ProcessShutdown, Quiescent, vars, clientVars
<1> QED BY <1>1, <1>2, <1>3, <1>4 DEF Next, LoopStep, ClientStep

\* While the router shuts down its loop only answers and stops.
LEMMA ShutPlaces ==
    ASSUME TypeOK, [Next]_vars, shut => loopPc \in {"fanout", "shutdown", "exited"}
    PROVE  shut' => loopPc' \in {"fanout", "shutdown", "exited"}
<1>1. ASSUME NEW r \in Requests, \/ OnRequest(r) \/ OnCancel(r) \/ OnServeDone(r) \/ AnswerWaiter(r)
                                 \/ DrainStep(r) \/ UnloadDrops(r)
      PROVE  shut' => loopPc' \in {"fanout", "shutdown", "exited"}
  BY <1>1 DEF OnRequest, RejectRequest, AdmitGone, RequestJoins, RequestFastPath, RequestQueued,
     RequestStartsSwap, Admitted, OnCancel, OnServeDone, AnswerWaiter, DrainStep, DrainJoins,
     DrainFastPath, DrainStartsSwap, DrainKeeps, Dequeue, AtItem, UnloadDrops, ctlVars
<1>2. ASSUME \/ \E s \in SwapIds : OnSwapDone(s)
             \/ \E m \in Models : UnloadStops(m) \/ ShutdownStops(m)
             \/ WaitersAnswered \/ DrainEnds \/ UnloadEnds \/ OnShutdown \/ ShutdownEnds
      PROVE  shut' => loopPc' \in {"fanout", "shutdown", "exited"}
  BY <1>2 DEF OnSwapDone, UnloadStops, ShutdownStops, WaitersAnswered, DrainEnds, UnloadEnds,
     OnShutdown, ShutdownEnds, ctlVars
<1>3. CASE \/ \E T \in SUBSET Models \ {{}} : OnUnload(T)
           \/ CallShutdown
           \/ \E r \in Requests : ClientStep(r) \/ WaitElapses(r)
  BY <1>3 DEF OnUnload, CallShutdown, ClientStep, Arrive, Disconnect, ServeReturns, LeaveOnShutdown,
     WaitElapses, ctlVars
<1>4. CASE \/ \E s \in SwapIds : SwapStep(s)
           \/ \E m \in Models : ProcessStep(m)
           \/ Quiescent \/ UNCHANGED vars
  BY <1>4 DEF SwapStep, SwapStops, SwapStopped, SwapEnsures, SwapGivesUp, ProcessStep, StartEnds,
     ProcessExits, ProviderLoads, ProcessShutdown, Quiescent, vars, ctlVars
<1> QED BY <1>1, <1>2, <1>3, <1>4 DEF Next, LoopStep

\* No step puts x before y when both ask for one model and y was there before.
OrderKept ==
    \A k, l \in 1..Len(queued') :
        (/\ k < l /\ want[queued'[k]] = want[queued'[l]]
         /\ \E j \in 1..Len(queued) : queued[j] = queued'[l]) =>
           \E i, j \in 1..Len(queued) :
               i < j /\ queued[i] = queued'[k] /\ queued[j] = queued'[l]

\* Where enqueue puts a request: behind those of its priority, before the rest.
LEMMA EnqueuePlace ==
    ASSUME TypeOK, Placed(queued), Falling, NEW r \in Requests, want[r] \in Models, enqueue(r)
    PROVE  \E k \in 1..(Len(queued) + 1) :
             /\ queued' = InsertAt(queued, k, r)
             /\ \A i \in 1..Len(queued) :
                  IF i < k THEN Priority[want[r]] <= Priority[want[queued[i]]]
                           ELSE Priority[want[queued[i]]] < Priority[want[r]]
<1> DEFINE rank(i) == Priority[want[queued[i]]]
           lower == {j \in DOMAIN queued : rank(j) < Priority[want[r]]}
           IsPlace(k) == (k \in lower \/ k = Len(queued) + 1) /\ \A j \in lower : k <= j
           place == CHOOSE k \in 1..(Len(queued) + 1) : IsPlace(k)
<1>1. queued \in Seq(Requests) /\ Len(queued) \in Nat /\ DOMAIN queued = 1..Len(queued)
  BY DEF TypeOK
<1>2. /\ Priority[want[r]] \in Int /\ \A i \in 1..Len(queued) : rank(i) \in Int
      /\ \A i, j \in 1..Len(queued) : i < j => rank(j) <= rank(i)
  BY PolicyAssumption DEF Placed, Falling
<1>3. queued' = InsertAt(queued, place, r)
  BY DEF enqueue
<1>4. \A j : j \in lower <=> j \in 1..Len(queued) /\ rank(j) < Priority[want[r]]
  BY <1>1
<1> HIDE DEF lower, rank
<1>5. \E k \in 1..(Len(queued) + 1) : IsPlace(k)
  <2>1. CASE lower = {}
    <3>1. Len(queued) + 1 \in 1..(Len(queued) + 1)
      BY <1>1
    <3> QED BY <2>1, <3>1
  <2>2. CASE lower # {}
    <3>1. lower \in SUBSET Nat
      BY <1>1, <1>4
    <3>2. PICK k \in lower : \A j \in lower : k <= j
      BY <2>2, <3>1, LeastElement
    <3>3. k \in 1..(Len(queued) + 1)
      BY <1>1, <1>4
    <3> QED BY <3>2, <3>3
  <2> QED BY <2>1, <2>2
<1>6. place \in 1..(Len(queued) + 1) /\ IsPlace(place)
  BY <1>5
<1> HIDE DEF place
<1>7. ASSUME NEW i \in 1..Len(queued)
      PROVE  IF i < place THEN Priority[want[r]] <= rank(i) ELSE rank(i) < Priority[want[r]]
  <2>1. CASE i < place
    <3>1. i \notin lower
      BY <1>1, <1>6, <2>1
    <3> QED BY <1>2, <1>4, <2>1, <3>1
  <2>2. CASE ~ (i < place)
    <3>1. place \in lower
      BY <1>1, <1>6, <2>2
    <3>2. place = i \/ place < i
      BY <1>1, <1>6, <2>2
    <3> QED BY <1>2, <1>4, <2>2, <3>1, <3>2
  <2> QED BY <2>1, <2>2
<1> QED BY <1>3, <1>6, <1>7 DEF rank

\* A newcomer leaves the queue sorted and passes nobody of its model.
LEMMA EnterKeepsOrder ==
    ASSUME TypeOK, Placed(queued), Falling, NEW r \in Requests, OneEnters(r), r \notin ToSet(queued)
    PROVE  Falling' /\ OrderKept
<1>1. PICK k \in 1..(Len(queued) + 1) :
        /\ queued' = InsertAt(queued, k, r)
        /\ \A i \in 1..Len(queued) :
             IF i < k THEN Priority[want[r]] <= Priority[want[queued[i]]]
                      ELSE Priority[want[queued[i]]] < Priority[want[r]]
  BY EnqueuePlace DEF OneEnters
<1>2. /\ Len(queued') = Len(queued) + 1
      /\ \A i \in 1..(Len(queued) + 1) :
           queued'[i] = IF i < k THEN queued[i] ELSE IF i = k THEN r ELSE queued[i - 1]
  <2>1. queued \in Seq(Requests)
    BY DEF TypeOK
  <2>2. /\ Len(InsertAt(queued, k, r)) = Len(queued) + 1
        /\ \A i \in 1..(Len(queued) + 1) :
             InsertAt(queued, k, r)[i] = IF i < k THEN queued[i] ELSE IF i = k THEN r ELSE queued[i - 1]
    BY ONLY <2>1, k \in 1..(Len(queued) + 1), r \in Requests, InsertAtShape
  <2>3. queued' = InsertAt(queued, k, r)
    BY ONLY <1>1
  <2> QED BY ONLY <2>2, <2>3
<1>3. Len(queued) \in Nat /\ \A i \in 1..Len(queued) : queued[i] # r
  <2>1. queued \in Seq(Requests)
    BY DEF TypeOK
  <2> QED BY <2>1, InSeq
<1>4. /\ Priority[want[r]] \in Int /\ want' = want
      /\ \A i \in 1..Len(queued) : Priority[want[queued[i]]] \in Int
  BY PolicyAssumption DEF Placed, OneEnters
<1> DEFINE old(n) == IF n < k THEN n ELSE n - 1
<1>5. ASSUME NEW n \in 1..(Len(queued) + 1), n # k
      PROVE  old(n) \in 1..Len(queued) /\ queued'[n] = queued[old(n)]
  BY <1>2, <1>3, <1>5
<1>6. queued'[k] = r
  BY <1>2
<1>7. ASSUME NEW i \in 1..Len(queued'), NEW j \in 1..Len(queued'), i < j
      PROVE  Priority[want[queued'[j]]] <= Priority[want[queued'[i]]]
  <2>1. i \in 1..(Len(queued) + 1) /\ j \in 1..(Len(queued) + 1)
    BY <1>2
  <2>2. CASE i = k
    <3>1. old(j) \in 1..Len(queued) /\ ~ (old(j) < k) /\ queued'[j] = queued[old(j)]
      BY <1>3, <1>5, <1>7, <2>1, <2>2
    <3> QED BY <1>1, <1>4, <1>6, <2>2, <3>1
  <2>3. CASE j = k
    <3>1. old(i) \in 1..Len(queued) /\ old(i) < k /\ queued'[i] = queued[old(i)]
      BY <1>3, <1>5, <1>7, <2>1, <2>3
    <3> QED BY <1>1, <1>6, <2>3, <3>1
  <2>4. CASE i # k /\ j # k
    <3>1. /\ old(i) \in 1..Len(queued) /\ queued'[i] = queued[old(i)]
          /\ old(j) \in 1..Len(queued) /\ queued'[j] = queued[old(j)]
      BY <1>5, <2>1, <2>4
    <3>2. old(i) < old(j)
      BY <1>3, <1>7, <2>1, <2>4
    <3> HIDE DEF old
    <3> QED BY <3>1, <3>2 DEF Falling
  <2> QED BY <2>2, <2>3, <2>4
<1>8. Falling'
  BY <1>4, <1>7 DEF Falling
<1>9. ASSUME NEW i \in 1..Len(queued'), NEW j \in 1..Len(queued'), i < j,
             want[queued'[i]] = want[queued'[j]],
             \E n \in 1..Len(queued) : queued[n] = queued'[j]
      PROVE  \E m, n \in 1..Len(queued) : m < n /\ queued[m] = queued'[i] /\ queued[n] = queued'[j]
  <2>1. i \in 1..(Len(queued) + 1) /\ j \in 1..(Len(queued) + 1)
    BY <1>2
  <2>2. j # k
    BY <1>3, <1>6, <1>9
  <2>3. old(j) \in 1..Len(queued) /\ queued'[j] = queued[old(j)]
    BY <1>5, <2>1, <2>2
  <2>4. i # k
    <3> SUFFICES ASSUME i = k
                 PROVE  FALSE
      OBVIOUS
    <3>1. ~ (old(j) < k)
      BY <1>3, <1>9, <2>1
    <3>2. Priority[want[queued[old(j)]]] < Priority[want[r]]
      BY <1>1, <2>3, <3>1
    <3>3. want[queued[old(j)]] = want[r]
      BY <1>6, <1>9, <2>3
    <3> HIDE DEF old
    <3> QED BY <1>4, <3>2, <3>3
  <2>5. old(i) \in 1..Len(queued) /\ queued'[i] = queued[old(i)]
    BY <1>5, <2>1, <2>4
  <2>6. old(i) < old(j)
    BY <1>3, <1>9, <2>1, <2>2, <2>4
  <2> HIDE DEF old
  <2> QED BY <2>3, <2>5, <2>6
<1>10. OrderKept
  BY <1>9 DEF OrderKept
<1> QED BY <1>8, <1>10

\* Who leaves lets the others stand as they stood.
LEMMA LeaveKeepsOrder ==
    ASSUME TypeOK, NEW r \in Requests, OneLeaves(r)
    PROVE  OrderKept /\ (Falling => Falling')
<1>1. queued \in Seq(Requests) /\ Len(queued) \in Nat /\ want' = want
      /\ queued' = RemoveFirst(queued, r)
  BY DEF TypeOK, OneLeaves
<1>2. CASE r \notin ToSet(queued)
  <2>1. queued' = queued
    BY <1>1, <1>2, InSeq DEF RemoveFirst
  <2> QED BY <1>1, <2>1 DEF OrderKept, Falling
<1>3. CASE r \in ToSet(queued)
  <2>1. PICK k \in 1..Len(queued) :
          /\ Len(queued') = Len(queued) - 1
          /\ \A i \in 1..(Len(queued) - 1) :
               queued'[i] = IF i < k THEN queued[i] ELSE queued[i + 1]
    <3>1. queued \in Seq(Requests)
      BY <1>1
    <3>2. \E k \in 1..Len(queued) :
            /\ queued[k] = r
            /\ RemoveFirst(queued, r) \in Seq(Requests)
            /\ Len(RemoveFirst(queued, r)) = Len(queued) - 1
            /\ \A i \in 1..(Len(queued) - 1) :
                 RemoveFirst(queued, r)[i] = IF i < k THEN queued[i] ELSE queued[i + 1]
      BY ONLY <1>3, <3>1, RemoveFirstShape
    <3> QED BY <1>1, <3>2
  <2> DEFINE old(n) == IF n < k THEN n ELSE n + 1
  <2>2. \A i \in 1..Len(queued') : old(i) \in 1..Len(queued) /\ queued'[i] = queued[old(i)]
    BY <1>1, <2>1
  <2>3. \A i, j \in 1..Len(queued') : i < j => old(i) < old(j)
    BY <1>1, <2>1
  <2> HIDE DEF old
  <2>4. OrderKept
    BY <2>2, <2>3 DEF OrderKept
  <2>5. ASSUME Falling
        PROVE  Falling'
    BY <1>1, <2>2, <2>3, <2>5 DEF Falling
  <2> QED BY <2>4, <2>5
<1> QED BY <1>2, <1>3

\* The walk keeps who may leave it before whom.
LEMMA WalkKeepsOrder ==
    ASSUME TypeOK, WalkInOrder, NEW r \in Requests, WalkGoesOn(r)
    PROVE  WalkInOrder'
<1>1. /\ pending \in Seq(Requests) /\ remaining \in Seq(Requests)
      /\ Len(pending) \in Nat /\ Len(remaining) \in Nat /\ pending # <<>> /\ r = Head(pending)
  BY DEF TypeOK, WalkGoesOn, AtItem
<1>2. /\ Len(pending) > 0 /\ r = pending[1] /\ Len(pending') = Len(pending) - 1
      /\ \A i \in 1..Len(pending') : pending'[i] = pending[i + 1]
  BY <1>1 DEF WalkGoesOn
<1>3. \A x, y : Ahead(x, y) => Ahead(x, y)'
  BY DEF Ahead, WalkGoesOn
<1>4. \A i \in 1..Len(pending') : i + 1 \in 1..Len(pending) /\ 1 < i + 1
  BY <1>1, <1>2
<1>5. \A i, j \in 1..Len(pending') : i < j => Ahead(pending'[i], pending'[j])
  <2> SUFFICES ASSUME NEW i \in 1..Len(pending'), NEW j \in 1..Len(pending'), i < j
               PROVE  Ahead(pending'[i], pending'[j])
    OBVIOUS
  <2>1. i + 1 \in 1..Len(pending) /\ j + 1 \in 1..Len(pending) /\ i + 1 < j + 1
    BY <1>1, <1>2, <1>4
  <2>2. Ahead(pending[i + 1], pending[j + 1])
    BY <2>1 DEF WalkInOrder
  <2> QED BY <1>2, <2>2
<1>6. /\ \A i \in 1..Len(pending') : Ahead(r, pending'[i])
      /\ \A i \in 1..Len(remaining) : Ahead(remaining[i], r)
      /\ \A i \in 1..Len(remaining) : \A j \in 1..Len(pending') : Ahead(remaining[i], pending'[j])
  <2>1. 1 \in 1..Len(pending)
    BY <1>1, <1>2
  <2> QED BY <1>2, <1>4, <2>1 DEF WalkInOrder
<1>7. \A i, j \in 1..Len(remaining) : i < j => Ahead(remaining[i], remaining[j])
  BY DEF WalkInOrder
<1>8. CASE remaining' = remaining
  BY <1>3, <1>5, <1>6, <1>7, <1>8 DEF WalkInOrder
<1>9. CASE remaining' = Append(remaining, r)
  <2>1. /\ Len(remaining') = Len(remaining) + 1 /\ remaining'[Len(remaining) + 1] = r
        /\ \A i \in 1..Len(remaining) : remaining'[i] = remaining[i]
    BY <1>1, <1>9
  <2>2. \A i \in 1..Len(remaining') : i \in 1..Len(remaining) \/ i = Len(remaining) + 1
    BY <1>1, <2>1
  <2>3. ASSUME NEW i \in 1..Len(remaining'), NEW j \in 1..Len(remaining'), i < j
        PROVE  Ahead(remaining'[i], remaining'[j])
    <3>1. i \in 1..Len(remaining)
      BY <1>1, <2>1, <2>2, <2>3
    <3> QED BY <1>6, <1>7, <2>1, <2>2, <2>3, <3>1
  <2>4. ASSUME NEW i \in 1..Len(remaining'), NEW j \in 1..Len(pending')
        PROVE  Ahead(remaining'[i], pending'[j])
    BY <1>6, <2>1, <2>2
  <2> QED BY <1>3, <1>5, <2>3, <2>4 DEF WalkInOrder
<1> QED BY <1>8, <1>9 DEF WalkGoesOn

\* What the walk has kept is the queue again, as sorted as it was.
LEMMA EndKeepsOrder ==
    ASSUME TypeOK, WalkInOrder, DrainEnds
    PROVE  OrderKept /\ Falling'
<1>1. queued' = remaining /\ want' = want
  BY DEF DrainEnds, clientVars
<1>2. \A i, j \in 1..Len(queued') : i < j => Ahead(queued'[i], queued'[j])
  BY <1>1 DEF WalkInOrder
<1>3. OrderKept
  BY <1>2 DEF OrderKept, Ahead
<1>4. Falling'
  BY <1>1, <1>2 DEF Falling, Ahead
<1> QED BY <1>3, <1>4

\* The fair order moves no model out of its own order, and, with one priority
\* to a pool, nothing out of the order of priorities.
LEMMA FairOrderKeeps ==
    ASSUME UniformPools, TypeOK, Placed(queued), Falling, BeginDrain, queued # <<>>
    PROVE  \A i, j \in 1..Len(pending') : i < j => Ahead(pending'[i], pending'[j])
<1> DEFINE n == Len(queued)
           model(i) == want[queued[i]]
<1>1. queued \in Seq(Requests) /\ n \in Nat /\ DOMAIN queued = 1..n
  BY DEF TypeOK
<1>2. PICK pi \in [1..n -> 1..n] :
        IsFairOrder(pi) /\ pending' = [i \in 1..n |-> queued[pi[i]]]
  BY <1>1 DEF BeginDrain
<1>3. Len(pending') = n /\ \A i \in 1..n : pending'[i] = queued[pi[i]] /\ pi[i] \in 1..n
  <2> DEFINE shown == [i \in 1..n |-> queued[pi[i]]]
  <2>1. Len(shown) = n /\ \A i \in 1..n : shown[i] = queued[pi[i]]
    BY ONLY n \in Nat, <1>1
  <2>2. pending' = shown /\ \A i \in 1..n : pi[i] \in 1..n
    BY ONLY <1>2
  <2> HIDE DEF shown
  <2> QED BY ONLY <2>1, <2>2
<1>4. \A i \in 1..n : model(i) \in Models
  BY DEF Placed
<1>5. ASSUME NEW i \in 1..n
      PROVE  /\ PoolOf[model(pi[i])] = PoolOf[model(i)]
             /\ IF PoolOf[model(i)] \in ResidentFirst /\ ColdQueued(PoolOf[model(i)]) # {}
                THEN \A j \in 1..n :
                       (i < j /\ PoolOf[model(j)] = PoolOf[model(i)]) =>
                         \/ FairRank(pi[i]) < FairRank(pi[j])
                         \/ FairRank(pi[i]) = FairRank(pi[j]) /\ pi[i] < pi[j]
                ELSE pi[i] = i
  BY <1>1, <1>2 DEF IsFairOrder
<1>6. ASSUME NEW i \in 1..n
      PROVE  Priority[model(pi[i])] = Priority[model(i)]
  <2>1. pi[i] \in 1..n /\ model(i) \in Models /\ model(pi[i]) \in Models
    BY <1>3, <1>4
  <2>2. PoolOf[model(pi[i])] = PoolOf[model(i)]
        /\ (PoolOf[model(i)] \in ResidentFirst \/ pi[i] = i)
    BY <1>5
  <2> HIDE DEF model
  <2> QED BY <2>1, <2>2 DEF UniformPools
<1>7. ASSUME NEW i \in 1..n, NEW j \in 1..n, i < j
      PROVE  Priority[model(pi[j])] <= Priority[model(pi[i])]
  BY <1>1, <1>6, <1>7 DEF Falling
<1>8. ASSUME NEW a \in 1..n, NEW b \in 1..n, model(a) = model(b), FairRank(a) < FairRank(b)
      PROVE  a < b
  <2> DEFINE cold(k) == PoolOf[model(k)] = PoolOf[model(a)] /\ isCold(model(k))
             lead(k) == BoundReached(PoolOf[model(a)]) /\ \A i \in 1..(k - 1) : ~cold(i)
  <2>1. /\ FairRank(a) = IF ~cold(a) THEN 1 ELSE IF lead(a) THEN 0 ELSE 2
        /\ FairRank(b) = IF ~cold(b) THEN 1 ELSE IF lead(b) THEN 0 ELSE 2
    BY <1>8 DEF FairRank
  <2>2. cold(a) <=> cold(b)
    BY <1>8
  <2> HIDE DEF cold, lead
  <2>3. cold(b) /\ lead(a) /\ ~lead(b)
    BY <1>8, <2>1, <2>2
  <2>4. b \notin 1..(a - 1)
    BY <2>3 DEF lead
  <2>5. a # b
    BY <2>3
  <2> QED BY <1>1, <2>4, <2>5
<1>9. ASSUME NEW i \in 1..n, NEW j \in 1..n, i < j, model(pi[i]) = model(pi[j])
      PROVE  pi[i] < pi[j]
  <2>1. PoolOf[model(j)] = PoolOf[model(i)]
    BY <1>5, <1>9
  <2>2. CASE PoolOf[model(i)] \in ResidentFirst /\ ColdQueued(PoolOf[model(i)]) # {}
    <3>1. \/ FairRank(pi[i]) < FairRank(pi[j])
          \/ FairRank(pi[i]) = FairRank(pi[j]) /\ pi[i] < pi[j]
      BY <1>5, <1>9, <2>1, <2>2
    <3> QED BY <1>3, <1>8, <1>9, <3>1
  <2>3. CASE ~ (PoolOf[model(i)] \in ResidentFirst /\ ColdQueued(PoolOf[model(i)]) # {})
    <3>1. pi[i] = i /\ pi[j] = j
      BY <1>5, <2>1, <2>3
    <3> QED BY <1>9, <3>1
  <2> QED BY <2>2, <2>3
<1> SUFFICES ASSUME NEW i \in 1..n, NEW j \in 1..n, i < j
             PROVE  Ahead(queued[pi[i]], queued[pi[j]])
  BY <1>3
<1>10. pi[i] \in 1..n /\ pi[j] \in 1..n
  BY <1>3
<1> QED BY <1>7, <1>9, <1>10 DEF Ahead

\* Those in a queue have come, so a step does not change what they ask for.
LEMMA QueuedWant ==
    ASSUME TypeOK, [Next]_vars, NEW s \in Seq(Requests), Placed(s)
    PROVE  \A i \in 1..Len(s) : want'[s[i]] = want[s[i]]
<1> SUFFICES ASSUME NEW i \in 1..Len(s)
             PROVE  want'[s[i]] = want[s[i]]
  OBVIOUS
<1>1. s[i] \in Requests /\ cpc[s[i]] # "idle"
  BY DEF Placed
<1> QED BY <1>1, WantStays

\* Every step keeps the order, and what the order rests on.
LEMMA StepKeepsOrder ==
    ASSUME UniformPools, OrderInv, [Next]_vars
    PROVE  OrderInv' /\ OrderKept
<1>1. /\ TypeOK /\ Placed(queued) /\ Placed(pending) /\ Placed(remaining)
      /\ queued \in Seq(Requests) /\ pending \in Seq(Requests) /\ remaining \in Seq(Requests)
  BY DEF OrderInv, CountInv, IInv, TypeOK
<1>2. CountInv'
  BY CountInvKept DEF OrderInv
<1>3. shut' => loopPc' \in {"fanout", "shutdown", "exited"}
  BY <1>1, ShutPlaces DEF OrderInv
<1>4. ~shut' => Falling /\ WalkInOrder /\ QueuesOnce /\ PlacedOnce
  BY <1>1, ShutStays DEF OrderInv, CountInv
<1>5. /\ \A i \in 1..Len(queued) : want'[queued[i]] = want[queued[i]]
      /\ \A i \in 1..Len(pending) : want'[pending[i]] = want[pending[i]]
      /\ \A i \in 1..Len(remaining) : want'[remaining[i]] = want[remaining[i]]
  BY <1>1, QueuedWant
<1>6. loopPc # "drain" => remaining = <<>>
  BY DEF OrderInv
<1>7. ASSUME loopPc \in {"select", "unload", "drain"}
      PROVE  Falling /\ WalkInOrder /\ QueuesOnce /\ PlacedOnce
  BY <1>7 DEF OrderInv, CountInv
<1>8. \A i, j : (queued' = queued /\ i \in 1..Len(queued) /\ j \in 1..Len(queued) /\ i < j) =>
        \E a, b \in 1..Len(queued) : a < b /\ queued[a] = queued'[i] /\ queued[b] = queued'[j]
  OBVIOUS
<1>9. queued' = queued => OrderKept
  BY <1>8 DEF OrderKept
<1>10. (queued' = queued /\ Falling) => Falling'
  BY <1>5 DEF Falling
<1>11. (pending' = <<>> /\ remaining' = <<>>) => WalkInOrder'
  BY DEF WalkInOrder
<1>12. CASE QueueRests
  <2>1. ASSUME WalkInOrder
        PROVE  WalkInOrder'
    <3>1. queued' = queued /\ pending' = pending /\ remaining' = remaining
      BY <1>12 DEF QueueRests
    <3>2. \A x, y : (want'[x] = want[x] /\ want'[y] = want[y] /\ Ahead(x, y)) => Ahead(x, y)'
      BY <3>1 DEF Ahead
    <3> QED BY <1>5, <2>1, <3>1, <3>2 DEF WalkInOrder
  <2> QED BY <1>2, <1>3, <1>4, <1>6, <1>9, <1>10, <1>12, <2>1 DEF QueueRests, OrderInv
<1>13. ASSUME NEW r \in Requests, WalkGoesOn(r)
       PROVE  OrderInv' /\ OrderKept
  <2>1. loopPc = "drain" /\ loopPc' = "drain" /\ queued' = queued
    BY <1>13 DEF WalkGoesOn, AtItem
  <2>2. ~shut' => Falling' /\ WalkInOrder'
    BY <1>1, <1>4, <1>10, <1>13, <2>1, WalkKeepsOrder
  <2> QED BY <1>2, <1>3, <1>9, <2>1, <2>2 DEF OrderInv
<1>14. CASE DrainEnds
  <2>1. loopPc = "drain" /\ loopPc' = "select" /\ remaining' = <<>> /\ pending' = <<>>
    BY <1>14 DEF DrainEnds
  <2>2. OrderKept /\ Falling'
    BY <1>1, <1>7, <1>14, <2>1, EndKeepsOrder
  <2> QED BY <1>2, <1>3, <1>11, <2>1, <2>2 DEF OrderInv
<1>15. CASE WalkStarts
  <2>1. loopPc # "drain" /\ queued' = queued /\ want' = want /\ remaining' = <<>> /\ BeginDrain
    BY <1>6, <1>15 DEF WalkStarts
  <2>2. ASSUME ~shut'
        PROVE  WalkInOrder'
    <3>1. CASE queued = <<>>
      <4>1. pending' = <<>>
        BY <1>4, <2>1, <2>2, <3>1 DEF BeginDrain, QueuesOnce
      <4> QED BY <1>11, <2>1, <4>1
    <3>2. CASE queued # <<>>
      <4>1. \A i, j \in 1..Len(pending') : i < j => Ahead(pending'[i], pending'[j])
        BY <1>1, <1>4, <2>1, <2>2, <3>2, FairOrderKeeps
      <4>2. \A x, y : Ahead(x, y) => Ahead(x, y)'
        BY <2>1 DEF Ahead
      <4> QED BY <2>1, <4>1, <4>2 DEF WalkInOrder
    <3> QED BY <3>1, <3>2
  <2> QED BY <1>2, <1>3, <1>4, <1>9, <1>10, <2>1, <2>2 DEF OrderInv
<1>16. ASSUME NEW r \in Requests, OneLeaves(r) \/ OneEnters(r)
       PROVE  OrderInv' /\ OrderKept
  <2>1. /\ loopPc \in {"select", "unload"} /\ loopPc' = loopPc
        /\ pending' = pending /\ remaining' = remaining
    BY <1>16 DEF OneLeaves, OneEnters
  <2>2. Falling /\ QueuesOnce /\ PlacedOnce
    BY <1>7, <2>1
  <2>3. pending' = <<>> /\ remaining' = <<>>
    BY <1>6, <2>1, <2>2 DEF QueuesOnce
  <2>4. OneEnters(r) => r \notin ToSet(queued)
    BY <2>2 DEF OneEnters, PlacedOnce, InQueue
  <2>5. OrderKept /\ Falling'
    BY <1>1, <1>16, <2>2, <2>4, LeaveKeepsOrder, EnterKeepsOrder
  <2> QED BY <1>2, <1>3, <1>11, <2>1, <2>3, <2>5 DEF OrderInv
<1> QED BY <1>1, <1>12, <1>13, <1>14, <1>15, <1>16, QueueMoves

\* Requests for one model are served in the order they came, whatever priority
\* (enqueue) and fairness (fairOrder, drainQueue) do around them, if the models
\* of a resident-first pool share a priority.
THEOREM RequestsKeepTheirOrder == UniformPools => (Spec => PerModelOrder)
<1> SUFFICES ASSUME UniformPools
             PROVE  Spec => PerModelOrder
  OBVIOUS
<1>1. Init => OrderInv
  <2> SUFFICES ASSUME Init
               PROVE  OrderInv
    OBVIOUS
  <2>1. queued = <<>> /\ pending = <<>> /\ remaining = <<>> /\ ~shut
    BY DEF Init
  <2> QED BY <2>1, InitCounts DEF OrderInv, Falling, WalkInOrder
<1> DEFINE PassesNobody ==
      \A k, l \in DOMAIN queued' :
         (/\ k < l /\ want[queued'[k]] = want[queued'[l]]
          /\ \E j \in DOMAIN queued : queued[j] = queued'[l]) =>
            \E i, j \in DOMAIN queued :
                i < j /\ queued[i] = queued'[k] /\ queued[j] = queued'[l]
<1>2. OrderInv /\ [Next]_vars => OrderInv' /\ [PassesNobody]_vars
  <2> SUFFICES ASSUME OrderInv, [Next]_vars
               PROVE  OrderInv' /\ PassesNobody
    OBVIOUS
  <2>1. OrderInv' /\ OrderKept
    BY StepKeepsOrder
  <2>2. queued \in Seq(Requests) /\ queued' \in Seq(Requests)
    BY <2>1 DEF OrderInv, CountInv, IInv, TypeOK
  <2>3. DOMAIN queued = 1..Len(queued) /\ DOMAIN queued' = 1..Len(queued')
    BY <2>2
  <2> QED BY <2>1, <2>3 DEF OrderKept
<1> QED BY <1>1, <1>2, PTL DEF Spec, PerModelOrder

=============================================================================
