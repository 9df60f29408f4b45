---------------------------- MODULE RouterProofs ----------------------------
(***************************************************************************)
(* Theorems about Router, for every set of models and requests, every      *)
(* eviction policy and every bound.                                        *)
(*                                                                         *)
(* The first part is about the queue, the slots and the capacity; the      *)
(* second about what the scheduler owes to whom: every request it has      *)
(* admitted is in one place, and the counters it decides by, reserved and  *)
(* inFlight, are exact until the router shuts down.                        *)
(***************************************************************************)
EXTENDS Router, SequenceTheorems, FiniteSetTheorems, WellFoundedInduction, TLAPS

-----------------------------------------------------------------------------
(* Sequences.                                                               *)

\* A nonempty set of natural numbers has a least element.
LEMMA LeastElement ==
    ASSUME NEW T \in SUBSET Nat, T # {}
    PROVE  \E x \in T : \A y \in T : x <= y
<1> DEFINE Less == {p \in Nat \X Nat : p[1] < p[2]}
<1>1. IsWellFoundedOn(Less, Nat)
  <2>1. OpToRel(<, Nat) = Less
    BY DEF OpToRel
  <2> QED BY <2>1, NatLessThanWellFounded
<1>2. \E x \in T : \A y \in T : ~ (<<y, x>> \in Less)
    BY <1>1, WFMin
<1>3. ASSUME NEW x \in Nat, NEW y \in Nat, y < x
      PROVE  <<y, x>> \in Less
    BY <1>3
<1> HIDE DEF Less
<1>4. PICK x \in T : \A y \in T : ~ (<<y, x>> \in Less)
    BY <1>2
<1>5. \A y \in T : ~ (y < x)
    BY <1>3, <1>4
<1>6. \A y \in T : x <= y
    BY <1>5
<1> QED BY <1>6

\* Taking one item out of a sequence leaves a sequence of the same items.
LEMMA RemoveFirstItems ==
    ASSUME NEW S, NEW s \in Seq(S), NEW e
    PROVE  /\ RemoveFirst(s, e) \in Seq(S)
           /\ \A i \in 1..Len(RemoveFirst(s, e)) :
                \E j \in 1..Len(s) : RemoveFirst(s, e)[i] = s[j]
<1>1. CASE ~ \E i \in 1..Len(s) : s[i] = e
    BY <1>1 DEF RemoveFirst
<1>2. CASE \E i \in 1..Len(s) : s[i] = e
  <2> DEFINE T == {i \in 1..Len(s) : s[i] = e}
  <2>1. T \in SUBSET Nat /\ T # {}
    BY <1>2
  <2>2. PICK x \in T : \A y \in T : x <= y
    BY <2>1, LeastElement
  <2> DEFINE k == CHOOSE z \in T : \A y \in T : z <= y
  <2>3. k \in 1..Len(s)
    BY <2>2
  <2>4. RemoveFirst(s, e) = RemoveAt(s, k)
    BY <1>2, <2>1 DEF RemoveFirst, SelectInSeq, Min
  <2> HIDE DEF k
  <2> DEFINE a == SubSeq(s, 1, k - 1)
             b == SubSeq(s, k + 1, Len(s))
  <2>5. /\ a \in Seq(S) /\ Len(a) = k - 1 /\ \A i \in 1..(k - 1) : a[i] = s[i]
    BY <2>3
  <2>6. /\ b \in Seq(S) /\ Len(b) = Len(s) - k
        /\ \A i \in 1..(Len(s) - k) : b[i] = s[k + i]
    BY <2>3
  <2>7. RemoveFirst(s, e) = a \o b
    BY <2>4 DEF RemoveAt
  <2> HIDE DEF a, b
  <2>8. /\ a \o b \in Seq(S) /\ Len(a \o b) = Len(a) + Len(b)
        /\ \A i \in 1..(Len(a) + Len(b)) :
             (a \o b)[i] = IF i <= Len(a) THEN a[i] ELSE b[i - Len(a)]
    <3>1. a \in Seq(S) /\ b \in Seq(S)
      BY <2>5, <2>6
    <3> QED BY ONLY <3>1
  <2>9. ASSUME NEW i \in 1..Len(a \o b)
        PROVE  \E j \in 1..Len(s) : (a \o b)[i] = s[j]
    <3>1. CASE i <= Len(a)
      <4>1. i \in 1..Len(s) /\ (a \o b)[i] = s[i]
        BY <2>3, <2>5, <2>6, <2>8, <3>1
      <4> QED BY <4>1
    <3>2. CASE ~ (i <= Len(a))
      <4>1. /\ k + (i - Len(a)) \in 1..Len(s)
            /\ (a \o b)[i] = s[k + (i - Len(a))]
        BY <2>3, <2>5, <2>6, <2>8, <3>2
      <4> QED BY <4>1
    <3> QED BY <3>1, <3>2
  <2> QED BY <2>7, <2>8, <2>9
<1> QED BY <1>1, <1>2

\* An insertion adds the item inserted and nothing else.
LEMMA InsertAtItems ==
    ASSUME NEW S, NEW s \in Seq(S), NEW e \in S, NEW k \in 1..(Len(s) + 1)
    PROVE  /\ InsertAt(s, k, e) \in Seq(S)
           /\ InsertAt(s, k, e) # <<>>
           /\ \A i \in 1..Len(InsertAt(s, k, e)) :
                \/ InsertAt(s, k, e)[i] = e
                \/ \E j \in 1..Len(s) : InsertAt(s, k, e)[i] = s[j]
<1> DEFINE a == SubSeq(s, 1, k - 1) \o <<e>>
           b == SubSeq(s, k, Len(s))
<1>1. /\ a \in Seq(S) /\ Len(a) = k
      /\ \A i \in 1..k : a[i] = IF i = k THEN e ELSE s[i]
  <2> DEFINE c == SubSeq(s, 1, k - 1)
  <2>1. /\ c \in Seq(S) /\ Len(c) = k - 1 /\ \A i \in 1..(k - 1) : c[i] = s[i]
    OBVIOUS
  <2> HIDE DEF c
  <2> QED BY <2>1
<1>2. /\ b \in Seq(S) /\ Len(b) = Len(s) - k + 1
      /\ \A i \in 1..(Len(s) - k + 1) : b[i] = s[k + i - 1]
    OBVIOUS
<1>3. InsertAt(s, k, e) = a \o b
    BY DEF InsertAt
<1> HIDE DEF a, b
<1>4. /\ a \o b \in Seq(S) /\ Len(a \o b) = Len(a) + Len(b)
      /\ \A i \in 1..(Len(a) + Len(b)) :
           (a \o b)[i] = IF i <= Len(a) THEN a[i] ELSE b[i - Len(a)]
    BY <1>1, <1>2
<1>5. ASSUME NEW i \in 1..Len(a \o b)
      PROVE  (a \o b)[i] = e \/ \E j \in 1..Len(s) : (a \o b)[i] = s[j]
  <2>1. CASE i < k
    <3>1. i \in 1..Len(s) /\ (a \o b)[i] = s[i]
      BY <1>1, <1>4, <2>1
    <3> QED BY <3>1
  <2>2. CASE i = k
    BY <1>1, <1>4, <2>2
  <2>3. CASE i > k
    <3>1. i - 1 \in 1..Len(s) /\ (a \o b)[i] = s[i - 1]
      BY <1>1, <1>2, <1>4, <2>3
    <3> QED BY <3>1
  <2> QED BY <2>1, <2>2, <2>3, <1>1, <1>4
<1>6. a \o b # <<>>
  BY <1>1, <1>2, <1>4
<1> QED BY <1>3, <1>4, <1>5, <1>6

-----------------------------------------------------------------------------
(* The inductive invariant.                                                 *)

\* A queue holds requests for models of the router that were once admitted.
Placed(s) ==
    \A i \in 1..Len(s) : want[s[i]] \in Models /\ cpc[s[i]] # "idle"

\* A request that waits or is served asks for a model of the router.
KnownModel ==
    \A r \in Requests :
        cpc[r] \in {"waiting", "serving", "finishing"} => want[r] \in Models

\* A swap result or the end of a request in flight is still to come.
Watched == active # {} \/ \E m \in Models : inFlight[m] > 0

\* The items a walk has put back are watched, and no walk leaves any behind.
KeptIsWatched ==
    /\ loopPc = "drain" /\ remaining # <<>> /\ ~shut => Watched
    /\ loopPc # "drain" => remaining = <<>>

IInv ==
    /\ TypeOK
    /\ Placed(queued) /\ Placed(pending) /\ Placed(remaining)
    /\ KnownModel
    /\ QueueIsWatched
    /\ KeptIsWatched

-----------------------------------------------------------------------------
(* Pieces of the handlers.                                                  *)

\* Every eviction set names models of the router.
LEMMA EvictsModels ==
    ASSUME TypeOK, NEW m \in Models
    PROVE  Evictions(m) \subseteq Models
<1>1. runningSet(m) \in SUBSET Models /\ Ready \in SUBSET Models
  BY DEF runningSet, Ready, TypeOK
<1>2. EvictionFor(m, runningSet(m), Ready) \subseteq (runningSet(m) \union Ready) \ {m}
  BY <1>1, EvictionAssumption
<1> QED BY <1>1, <1>2 DEF Evictions

\* What blocks a request is still to end, and will walk the queue then.
LEMMA BlockedIsWatched ==
    ASSUME TypeOK, NEW m \in Models, Blocked(m)
    PROVE  Watched
BY EvictsModels DEF Blocked, collidesWith, conflictsWithInFlight, Watched

\* The walk that ends a handler starts from the items of the queue.
LEMMA DrainBegins ==
    ASSUME TypeOK, BeginDrain
    PROVE  \/ queued = <<>> /\ loopPc' = "select" /\ pending' = pending
           \/ /\ loopPc' = "drain" /\ pending' \in Seq(Requests)
              /\ \A i \in 1..Len(pending') :
                   \E j \in 1..Len(queued) : pending'[i] = queued[j]
<1>1. CASE queued = <<>>
  BY <1>1 DEF BeginDrain
<1>2. CASE queued # <<>>
  <2>1. PICK pi \in [DOMAIN queued -> DOMAIN queued] :
          pending' = [i \in DOMAIN queued |-> queued[pi[i]]]
    BY <1>2 DEF BeginDrain
  <2>2. queued \in Seq(Requests) /\ DOMAIN queued = 1..Len(queued) /\ Len(queued) \in Nat
    BY DEF TypeOK
  <2>3. pending' \in [1..Len(queued) -> Requests]
    BY <2>1, <2>2
  <2>4. pending' \in Seq(Requests) /\ Len(pending') = Len(queued)
    BY <2>2, <2>3
  <2> QED BY <1>2, <2>1, <2>2, <2>4 DEF BeginDrain
<1> QED BY <1>1, <1>2

\* Arrive, Disconnect, ServeReturns and LeaveOnShutdown.
LEMMA ClientKeeps ==
    ASSUME IInv, NEW r \in Requests, ClientStep(r)
    PROVE  IInv'
<1> USE DEF IInv
<1>1. ASSUME NEW m \in Ids, Arrive(r, m)
      PROVE  IInv'
  <2>1. TypeOK'
    BY <1>1 DEF TypeOK, Arrive, ClientPcs, Ids, swapTable, queueVars, counters, walkVars, ctlVars
  <2>2. Placed(queued)' /\ Placed(pending)' /\ Placed(remaining)'
    BY <1>1 DEF TypeOK, Arrive, Placed, queueVars, walkVars
  <2>3. KnownModel'
    BY <1>1 DEF TypeOK, Arrive, KnownModel
  <2>4. QueueIsWatched' /\ KeptIsWatched'
    BY <1>1 DEF Arrive, QueueIsWatched, KeptIsWatched, Watched, swapTable, queueVars, counters, walkVars, ctlVars
  <2> QED BY <2>1, <2>2, <2>3, <2>4
<1>2. ASSUME Disconnect(r) \/ ServeReturns(r) \/ LeaveOnShutdown(r)
      PROVE  IInv'
  <2>1. TypeOK'
    BY <1>2 DEF TypeOK, Disconnect, ServeReturns, LeaveOnShutdown, ClientPcs, swapTable, queueVars, counters, walkVars, ctlVars
  <2>2. Placed(queued)' /\ Placed(pending)' /\ Placed(remaining)'
    BY <1>2 DEF TypeOK, Disconnect, ServeReturns, LeaveOnShutdown, Placed, queueVars, walkVars
  <2>3. KnownModel'
    BY <1>2 DEF TypeOK, Disconnect, ServeReturns, LeaveOnShutdown, KnownModel
  <2>4. QueueIsWatched' /\ KeptIsWatched'
    BY <1>2 DEF Disconnect, ServeReturns, LeaveOnShutdown, QueueIsWatched, KeptIsWatched, Watched, swapTable, queueVars, counters, walkVars, ctlVars
  <2> QED BY <2>1, <2>2, <2>3, <2>4
<1> QED BY <1>1, <1>2 DEF ClientStep

\* startSwap keeps the scheduler's tables well typed and tracks the swap.
LEMMA StartSwapTyped ==
    ASSUME TypeOK, NEW r \in Requests, want[r] \in Models, startSwap(r)
    PROVE  /\ active' \subseteq Models /\ active' # {}
           /\ evict' \in [Models -> SUBSET Models]
           /\ waiters' \in [Models -> SUBSET Requests]
           /\ residentBursts' \in [Pools -> Nat]
           /\ swap' \in [SwapIds -> Swaps]
<1> DEFINE ev == Evictions(want[r])
           s == CHOOSE i \in SwapIds : swap[i].pc = "free"
<1>1. ev \subseteq Models
  BY EvictsModels
<1>2. s \in SwapIds
  BY DEF startSwap
<1>3. swap' = [swap EXCEPT ![s] = [FreeSwap EXCEPT
                 !.pc = "stop", !.model = want[r], !.left = ev]]
  BY DEF startSwap
<1> HIDE DEF s, ev
<1>4. swap' \in [SwapIds -> Swaps]
  BY <1>1, <1>2, <1>3 DEF TypeOK, Swaps, SwapPcs, FreeSwap, Ids
<1> QED BY <1>1, <1>4 DEF TypeOK, startSwap, ev

\* A request put in the queue keeps it a queue of placed requests.
LEMMA EnqueueAdds ==
    ASSUME TypeOK, NEW r \in Requests, enqueue(r)
    PROVE  /\ queued' \in Seq(Requests) /\ queued' # <<>>
           /\ \A i \in 1..Len(queued') :
                queued'[i] = r \/ \E j \in 1..Len(queued) : queued'[i] = queued[j]
<1> DEFINE lower == {j \in DOMAIN queued :
                       Priority[want[queued[j]]] < Priority[want[r]]}
           place == CHOOSE k \in 1..(Len(queued) + 1) :
                       /\ k \in lower \/ k = Len(queued) + 1
                       /\ \A j \in lower : k <= j
<1>1. queued \in Seq(Requests) /\ Len(queued) \in Nat /\ lower \subseteq 1..Len(queued)
  BY DEF TypeOK
<1>2. \E k \in 1..(Len(queued) + 1) :
         /\ k \in lower \/ k = Len(queued) + 1
         /\ \A j \in lower : k <= j
  <2> HIDE DEF lower
  <2>1. CASE lower = {}
    <3> WITNESS Len(queued) + 1 \in 1..(Len(queued) + 1)
    <3> QED BY <2>1
  <2>2. CASE lower # {}
    <3>1. lower \in SUBSET Nat
      BY <1>1
    <3>2. PICK k \in lower : \A j \in lower : k <= j
      BY <2>2, <3>1, LeastElement
    <3>3. k \in 1..(Len(queued) + 1)
      BY <1>1
    <3> QED BY <3>2, <3>3
  <2> QED BY <2>1, <2>2
<1>3. place \in 1..(Len(queued) + 1)
  <2> HIDE DEF lower
  <2> QED BY <1>2
<1>4. queued' = InsertAt(queued, place, r)
  BY DEF enqueue
<1> HIDE DEF place
<1> QED BY ONLY <1>1, <1>3, <1>4, r \in Requests, InsertAtItems

\* The admission and the outcomes of OnRequest.
LEMMA RequestKeeps ==
    ASSUME IInv, NEW r \in Requests, OnRequest(r)
    PROVE  IInv'
<1> USE DEF IInv, swapTable, queueVars, counters, walkVars, ctlVars
<1>1. CASE RejectRequest(r) \/ AdmitGone(r)
  <2>1. TypeOK'
    BY <1>1 DEF TypeOK, RejectRequest, AdmitGone, ClientPcs
  <2>2. Placed(queued)' /\ Placed(pending)' /\ Placed(remaining)'
    BY <1>1 DEF TypeOK, RejectRequest, AdmitGone, Placed
  <2>3. KnownModel'
    BY <1>1 DEF TypeOK, RejectRequest, AdmitGone, KnownModel
  <2>4. QueueIsWatched' /\ KeptIsWatched'
    BY <1>1 DEF RejectRequest, AdmitGone, QueueIsWatched, KeptIsWatched, Watched
  <2> QED BY <2>1, <2>2, <2>3, <2>4
<1>2. CASE RequestJoins(r)
  <2> USE <1>2 DEF RequestJoins, Admitted, Reserve, Join
  <2>1. TypeOK'
    BY DEF TypeOK, ClientPcs
  <2>2. Placed(queued)' /\ Placed(pending)' /\ Placed(remaining)'
    BY DEF TypeOK, Placed
  <2>3. KnownModel'
    BY DEF TypeOK, KnownModel
  <2>4. QueueIsWatched' /\ KeptIsWatched'
    BY DEF QueueIsWatched, KeptIsWatched, Watched
  <2> QED BY <2>1, <2>2, <2>3, <2>4
<1>3. CASE RequestFastPath(r)
  <2> USE <1>3 DEF RequestFastPath, Admitted
  <2>1. TypeOK'
    <3>1. residentBursts' \in [Pools -> Nat]
      BY DEF TypeOK, recordResidentAdmission
    <3>2. cpc' \in [Requests -> ClientPcs]
      BY DEF TypeOK, ClientPcs
    <3>3. reserved' \in [Models -> Int] /\ inFlight' \in [Models -> Int]
      BY DEF TypeOK
    <3> QED BY <3>1, <3>2, <3>3 DEF TypeOK
  <2>2. Placed(queued)' /\ Placed(pending)' /\ Placed(remaining)'
    BY DEF TypeOK, Placed
  <2>3. KnownModel'
    BY DEF TypeOK, KnownModel
  <2>4. QueueIsWatched' /\ KeptIsWatched'
    <3>1. \A m \in Models : inFlight[m] > 0 => inFlight'[m] > 0
      BY DEF TypeOK
    <3> QED BY <3>1 DEF QueueIsWatched, KeptIsWatched, Watched
  <2> QED BY <2>1, <2>2, <2>3, <2>4
<1>4. CASE RequestQueued(r)
  <2> USE <1>4 DEF RequestQueued, Admitted, Reserve
  <2>1. /\ queued' \in Seq(Requests) /\ queued' # <<>>
        /\ \A i \in 1..Len(queued') :
             queued'[i] = r \/ \E j \in 1..Len(queued) : queued'[i] = queued[j]
    BY EnqueueAdds
  <2>2. TypeOK'
    BY <2>1 DEF TypeOK, ClientPcs
  <2>3. Placed(queued)' /\ Placed(pending)' /\ Placed(remaining)'
    <3>1. /\ \A q \in Requests : cpc[q] # "idle" => cpc'[q] # "idle"
          /\ want' = want /\ want[r] \in Models /\ cpc'[r] # "idle"
          /\ pending' = pending /\ remaining' = remaining
      BY DEF TypeOK
    <3>2. ASSUME NEW i \in 1..Len(queued')
          PROVE  want'[queued'[i]] \in Models /\ cpc'[queued'[i]] # "idle"
      <4>1. CASE queued'[i] = r
        BY ONLY <4>1, <3>1
      <4>2. CASE \E j \in 1..Len(queued) : queued'[i] = queued[j]
        <5>1. PICK j \in 1..Len(queued) : queued'[i] = queued[j]
          BY ONLY <4>2
        <5>2. queued[j] \in Requests
          BY <5>1 DEF TypeOK
        <5>3. want[queued[j]] \in Models /\ cpc[queued[j]] # "idle"
          BY <5>1 DEF Placed
        <5> QED BY ONLY <3>1, <5>1, <5>2, <5>3
      <4> QED BY <2>1, <4>1, <4>2
    <3>3. Placed(queued)'
      BY ONLY <3>2 DEF Placed
    <3>4. Placed(pending)' /\ Placed(remaining)'
      BY <3>1 DEF TypeOK, Placed
    <3> QED BY <3>3, <3>4
  <2>4. KnownModel'
    BY DEF TypeOK, KnownModel
  <2>5. Watched \/ shut
    <3>1. CASE Blocked(want[r])
      BY <3>1, BlockedIsWatched
    <3>2. CASE shouldYieldToCold(want[r])
      <4>1. queued # <<>>
        BY <3>2 DEF shouldYieldToCold, ColdQueued, ToSet
      <4> QED BY <4>1 DEF QueueIsWatched, Watched
    <3> QED BY <3>1, <3>2
  <2>6. QueueIsWatched' /\ KeptIsWatched'
    BY <2>5 DEF QueueIsWatched, KeptIsWatched, Watched
  <2> QED BY <2>2, <2>3, <2>4, <2>6
<1>5. CASE RequestStartsSwap(r)
  <2> USE <1>5 DEF RequestStartsSwap, Admitted, Reserve
  <2>1. TypeOK'
    BY StartSwapTyped DEF TypeOK, ClientPcs
  <2>2. Placed(queued)' /\ Placed(pending)' /\ Placed(remaining)'
    <3>1. /\ \A q \in Requests : cpc[q] # "idle" => cpc'[q] # "idle"
          /\ want' = want /\ queued' = queued
          /\ pending' = pending /\ remaining' = remaining
      BY DEF TypeOK
    <3>2. /\ queued \in Seq(Requests) /\ pending \in Seq(Requests)
          /\ remaining \in Seq(Requests)
          /\ Placed(queued) /\ Placed(pending) /\ Placed(remaining)
      BY DEF TypeOK
    <3>3. ASSUME NEW s \in Seq(Requests), Placed(s), NEW i \in 1..Len(s)
          PROVE  want'[s[i]] \in Models /\ cpc'[s[i]] # "idle"
      <4>1. s[i] \in Requests
        BY ONLY <3>3
      <4>2. want[s[i]] \in Models /\ cpc[s[i]] # "idle"
        BY ONLY <3>3 DEF Placed
      <4> QED BY ONLY <3>1, <4>1, <4>2
    <3>4. Placed(queued)'
      BY ONLY <3>1, <3>2, <3>3 DEF Placed
    <3>5. Placed(pending)'
      BY ONLY <3>1, <3>2, <3>3 DEF Placed
    <3>6. Placed(remaining)'
      BY ONLY <3>1, <3>2, <3>3 DEF Placed
    <3> QED BY <3>4, <3>5, <3>6
  <2>3. KnownModel'
    BY DEF TypeOK, KnownModel
  <2>4. QueueIsWatched' /\ KeptIsWatched'
    BY DEF QueueIsWatched, KeptIsWatched, Watched, startSwap
  <2> QED BY <2>1, <2>2, <2>3, <2>4
<1> QED BY <1>1, <1>2, <1>3, <1>4, <1>5 DEF OnRequest

\* OnCancel takes the request out of everything that held it.
LEMMA CancelKeeps ==
    ASSUME IInv, NEW r \in Requests, OnCancel(r)
    PROVE  IInv'
<1> USE DEF IInv
<1>1. /\ loopPc = "select" /\ queued' = RemoveFirst(queued, r)
      /\ waited' = waited \ {r} /\ waiters' = [m \in Models |-> waiters[m] \ {r}]
      /\ cpc' = [cpc EXCEPT ![r] = "done"]
      /\ UNCHANGED <<want, active, evict, inFlight, residentBursts, loopPc,
                     walkVars, ctlVars, swap, ps>>
  BY DEF OnCancel
<1>2. reserved' = reserved \/ reserved' = [reserved EXCEPT ![want[r]] = @ - 1]
  BY DEF OnCancel
<1>3. /\ queued' \in Seq(Requests)
      /\ \A i \in 1..Len(queued') :
           \E j \in 1..Len(queued) : queued'[i] = queued[j]
  <2>1. queued \in Seq(Requests) /\ queued' = RemoveFirst(queued, r)
    BY <1>1 DEF TypeOK
  <2> QED BY ONLY <2>1, RemoveFirstItems
<1>4. /\ \A q \in Requests : cpc[q] # "idle" => cpc'[q] # "idle"
      /\ cpc' \in [Requests -> ClientPcs]
  BY <1>1 DEF TypeOK, ClientPcs
<1>5. TypeOK'
  <2>1. reserved' \in [Models -> Int]
    BY <1>2 DEF TypeOK
  <2>2. waiters' \in [Models -> SUBSET Requests] /\ waited' \subseteq Requests
    BY <1>1 DEF TypeOK
  <2> QED BY <1>1, <1>3, <1>4, <2>1, <2>2 DEF TypeOK, walkVars, ctlVars
<1>6. Placed(queued)'
  BY <1>1, <1>3, <1>4 DEF TypeOK, Placed
<1>7. Placed(pending)' /\ Placed(remaining)'
  BY <1>1, <1>4 DEF TypeOK, Placed, walkVars
<1>8. KnownModel'
  BY <1>1 DEF TypeOK, KnownModel
<1>9. QueueIsWatched' /\ KeptIsWatched'
  <2>1. ASSUME queued' # <<>>
        PROVE  queued # <<>>
    <3>1. 1 \in 1..Len(queued')
      BY <1>3, <2>1
    <3>2. PICK j \in 1..Len(queued) : queued'[1] = queued[j]
      BY <1>3, <3>1
    <3> QED BY <3>2
  <2> QED BY <1>1, <2>1 DEF QueueIsWatched, KeptIsWatched, Watched, walkVars, ctlVars
<1> QED BY <1>5, <1>6, <1>7, <1>8, <1>9

\* The pieces of the grants that the answers to waiters share: a slot is
\* given back, a client returns, or a client is served.
LEMMA GrantTyped ==
    ASSUME TypeOK, KnownModel, NEW r \in Requests,
           \/ GrantError(r) /\ UNCHANGED inFlight
           \/ grantHandler(r),
           UNCHANGED want
    PROVE  /\ reserved' \in [Models -> Int] /\ inFlight' \in [Models -> Int]
           /\ cpc' \in [Requests -> ClientPcs]
           /\ \A q \in Requests : cpc[q] # "idle" => cpc'[q] # "idle"
           /\ KnownModel'
           /\ \A m \in Models : inFlight[m] > 0 => inFlight'[m] > 0
<1>1. reserved' \in [Models -> Int] /\ inFlight' \in [Models -> Int]
  BY DEF TypeOK, GrantError, grantHandler
<1>2. \/ cpc' = cpc
      \/ cpc' = [cpc EXCEPT ![r] = "done"]
      \/ cpc[r] = "waiting" /\ cpc' = [cpc EXCEPT ![r] = "serving"]
  BY DEF GrantError, grantHandler
<1>3. /\ cpc' \in [Requests -> ClientPcs]
      /\ \A q \in Requests : cpc[q] # "idle" => cpc'[q] # "idle"
  BY <1>2 DEF TypeOK, ClientPcs
<1>4. KnownModel'
  <2>1. want' = want
    OBVIOUS
  <2> QED BY <1>2, <2>1 DEF TypeOK, KnownModel
<1>5. \A m \in Models : inFlight[m] > 0 => inFlight'[m] > 0
  <2>1. inFlight' = inFlight \/ inFlight' = [inFlight EXCEPT ![want[r]] = @ + 1]
    BY DEF grantHandler
  <2>2. inFlight \in [Models -> Int]
    BY DEF TypeOK
  <2> QED BY ONLY <2>1, <2>2
<1> QED BY <1>1, <1>3, <1>4, <1>5

\* OnSwapDone and the answers to the waiters it collects.
LEMMA SwapDoneKeeps ==
    ASSUME IInv, NEW s \in SwapIds, OnSwapDone(s)
    PROVE  IInv'
<1> USE DEF IInv, OnSwapDone, clientVars, swapTable, queueVars, counters, ctlVars
<1>1. TypeOK'
  <2>1. swap' \in [SwapIds -> Swaps]
    BY DEF TypeOK, Swaps, SwapPcs, FreeSwap, Ids
  <2>2. swap[s].err \in BOOLEAN /\ swap[s].model \in Ids
    BY DEF TypeOK, Swaps
  <2>3. fanErr' \in BOOLEAN
    BY <2>2, Zenon DEF TypeOK
  <2>4. \/ UNCHANGED <<swapTable, loopPc, fan>>
        \/ /\ swap[s].model \in active /\ loopPc' = "fanout"
           /\ active' = active \ {swap[s].model}
           /\ evict' = [evict EXCEPT ![swap[s].model] = {}]
           /\ fan' = waiters[swap[s].model]
           /\ waiters' = [waiters EXCEPT ![swap[s].model] = {}]
    OBVIOUS
  <2>5. /\ active' \subseteq Models /\ evict' \in [Models -> SUBSET Models]
        /\ waiters' \in [Models -> SUBSET Requests] /\ fan' \subseteq Requests
        /\ loopPc' \in LoopPcs
    <3> HIDE DEF OnSwapDone
    <3> QED BY <2>4 DEF TypeOK, LoopPcs
  <2> QED BY <2>1, <2>3, <2>5 DEF TypeOK
<1>2. Placed(queued)' /\ Placed(pending)' /\ Placed(remaining)' /\ KnownModel'
  BY DEF Placed, KnownModel
<1>3. QueueIsWatched' /\ KeptIsWatched'
  BY DEF QueueIsWatched, KeptIsWatched, Watched
<1> QED BY <1>1, <1>2, <1>3

LEMMA AnswerWaiterKeeps ==
    ASSUME IInv, NEW r \in Requests, AnswerWaiter(r)
    PROVE  IInv'
<1> USE DEF IInv
<1>1. /\ loopPc = "fanout" /\ fan' = fan \ {r}
      /\ (GrantError(r) /\ UNCHANGED inFlight) \/ grantHandler(r)
      /\ UNCHANGED <<want, swapTable, queueVars, residentBursts, loopPc, fanErr,
                     pending, remaining, targets, toStop, ctlVars, swap, ps>>
  BY DEF AnswerWaiter
<1>2. /\ reserved' \in [Models -> Int] /\ inFlight' \in [Models -> Int]
      /\ cpc' \in [Requests -> ClientPcs]
      /\ \A q \in Requests : cpc[q] # "idle" => cpc'[q] # "idle"
      /\ KnownModel'
  BY <1>1, GrantTyped
<1>3. TypeOK'
  BY <1>1, <1>2 DEF TypeOK, swapTable, queueVars, ctlVars
<1>4. Placed(queued)' /\ Placed(pending)' /\ Placed(remaining)'
  BY <1>1, <1>2 DEF TypeOK, Placed, queueVars
<1>5. QueueIsWatched' /\ KeptIsWatched'
  BY <1>1 DEF QueueIsWatched, KeptIsWatched
<1> QED BY <1>2, <1>3, <1>4, <1>5

\* The end of a handler that walks the queue: WaitersAnswered, UnloadEnds.
LEMMA DrainBeginKeeps ==
    ASSUME IInv, BeginDrain, loopPc # "drain",
           targets' \subseteq Models,
           UNCHANGED <<clientVars, swapTable, queueVars, counters, fan, fanErr,
                       remaining, toStop, ctlVars, swap, ps>>
    PROVE  IInv'
<1> USE DEF IInv, clientVars, swapTable, queueVars, counters, ctlVars
<1>1. \/ queued = <<>> /\ loopPc' = "select" /\ pending' = pending
      \/ /\ loopPc' = "drain" /\ pending' \in Seq(Requests)
         /\ \A i \in 1..Len(pending') :
              \E j \in 1..Len(queued) : pending'[i] = queued[j]
  BY DrainBegins
<1>2. TypeOK'
  BY <1>1 DEF TypeOK, LoopPcs
<1>3. Placed(pending)'
  BY <1>1 DEF TypeOK, Placed
<1>4. Placed(queued)' /\ Placed(remaining)' /\ KnownModel'
  BY DEF Placed, KnownModel
<1>5. QueueIsWatched' /\ KeptIsWatched'
  BY <1>1 DEF QueueIsWatched, KeptIsWatched
<1> QED BY <1>2, <1>3, <1>4, <1>5

LEMMA WaitersAnsweredKeeps ==
    ASSUME IInv, WaitersAnswered
    PROVE  IInv'
<1>1. CASE BeginDrain
  <2>1. /\ targets' = targets /\ loopPc = "fanout"
        /\ UNCHANGED <<clientVars, swapTable, queueVars, counters, fan, fanErr,
                       remaining, toStop, ctlVars, swap, ps>>
    BY DEF WaitersAnswered
  <2> QED BY <1>1, <2>1, DrainBeginKeeps DEF IInv, TypeOK
<1>2. CASE ~BeginDrain
  <2>1. /\ loopPc = "fanout" /\ loopPc' \in {"shutdown", "unload"}
        /\ UNCHANGED <<clientVars, swapTable, queueVars, counters, walkVars,
                       ctlVars, swap, ps>>
    BY <1>2 DEF WaitersAnswered, walkVars
  <2>2. TypeOK'
    BY <2>1 DEF IInv, TypeOK, LoopPcs, clientVars, swapTable, queueVars, counters, walkVars, ctlVars
  <2>3. Placed(queued)' /\ Placed(pending)' /\ Placed(remaining)' /\ KnownModel'
    BY <2>1 DEF IInv, Placed, KnownModel, clientVars, queueVars, walkVars
  <2>4. QueueIsWatched' /\ KeptIsWatched'
    BY <2>1 DEF IInv, QueueIsWatched, KeptIsWatched, walkVars
  <2> QED BY <2>2, <2>3, <2>4 DEF IInv
<1> QED BY <1>1, <1>2

\* OnServeDone: the request in flight that ends may be the last that the
\* queue waited for; then the loop walks the queue.
LEMMA ServeDoneKeeps ==
    ASSUME IInv, NEW r \in Requests, OnServeDone(r)
    PROVE  IInv'
<1> USE DEF IInv
<1>1. /\ loopPc = "select" /\ cpc[r] = "finishing"
      /\ cpc' = [cpc EXCEPT ![r] = "done"]
      /\ inFlight' = [inFlight EXCEPT ![want[r]] = @ - 1]
      /\ reserved' = [reserved EXCEPT ![want[r]] = @ - 1]
      /\ UNCHANGED <<want, swapTable, queueVars, residentBursts, fan, fanErr,
                     remaining, targets, toStop, ctlVars, swap, ps>>
  BY DEF OnServeDone
<1>2. \/ queued = <<>> /\ loopPc' = "select" /\ pending' = pending
      \/ /\ loopPc' = "drain" /\ pending' \in Seq(Requests)
         /\ \A i \in 1..Len(pending') :
              \E j \in 1..Len(queued) : pending'[i] = queued[j]
      \/ inFlight[want[r]] - 1 > 0 /\ loopPc' = "select" /\ pending' = pending
  <2>1. CASE BeginDrain
    BY <2>1, DrainBegins
  <2>2. CASE ~BeginDrain
    <3>1. want[r] \in Models
      BY <1>1 DEF KnownModel
    <3>2. inFlight[want[r]] \in Int
      BY <3>1 DEF TypeOK
    <3> QED BY <1>1, <2>2, <3>2 DEF OnServeDone
  <2> QED BY <2>1, <2>2
<1>3. TypeOK'
  <2>1. reserved \in [Models -> Int] /\ inFlight \in [Models -> Int]
    BY DEF TypeOK
  <2>2. reserved' \in [Models -> Int] /\ inFlight' \in [Models -> Int]
    <3>1. want[r] \in Models
      BY <1>1 DEF KnownModel
    <3>2. inFlight' = [inFlight EXCEPT ![want[r]] = @ - 1]
      BY <1>1
    <3>3. inFlight' \in [Models -> Int]
      BY ONLY <2>1, <3>1, <3>2
    <3>4. reserved' = [reserved EXCEPT ![want[r]] = @ - 1]
      BY <1>1
    <3>5. reserved' \in [Models -> Int]
      BY ONLY <2>1, <3>1, <3>4
    <3> QED BY <3>3, <3>5
  <2>3. cpc' \in [Requests -> ClientPcs]
    BY <1>1 DEF TypeOK, ClientPcs
  <2>4. pending' \in Seq(Requests) /\ loopPc' \in LoopPcs
    BY <1>2 DEF TypeOK, LoopPcs
  <2> QED BY <1>1, <2>2, <2>3, <2>4 DEF TypeOK, swapTable, queueVars, ctlVars
<1>4. \A q \in Requests : cpc[q] # "idle" => cpc'[q] # "idle"
  BY <1>1 DEF TypeOK
<1>5. Placed(queued)' /\ Placed(remaining)'
  BY <1>1, <1>4 DEF TypeOK, Placed, queueVars
<1>6. Placed(pending)'
  <2>1. CASE pending' = pending
    BY <1>1, <1>4, <2>1 DEF TypeOK, Placed
  <2>2. CASE pending' # pending
    <3> SUFFICES ASSUME NEW i \in 1..Len(pending')
                 PROVE  want'[pending'[i]] \in Models /\ cpc'[pending'[i]] # "idle"
      BY DEF Placed
    <3>1. PICK j \in 1..Len(queued) : pending'[i] = queued[j]
      BY <1>2, <2>2
    <3>2. queued[j] \in Requests
      BY DEF TypeOK
    <3> QED BY <1>1, <1>4, <3>1, <3>2 DEF Placed
  <2> QED BY <2>1, <2>2
<1>7. KnownModel'
  BY <1>1 DEF TypeOK, KnownModel
<1>8. QueueIsWatched' /\ KeptIsWatched'
  <2>1. CASE inFlight[want[r]] - 1 > 0 /\ loopPc' = "select"
    <3>1. want[r] \in Models /\ inFlight'[want[r]] > 0
      BY <1>1, <2>1 DEF KnownModel, TypeOK
    <3> QED BY <1>1, <2>1, <3>1 DEF QueueIsWatched, KeptIsWatched, Watched
  <2>2. CASE ~ (inFlight[want[r]] - 1 > 0 /\ loopPc' = "select")
    BY <1>1, <1>2, <2>2 DEF QueueIsWatched, KeptIsWatched, queueVars
  <2> QED BY <2>1, <2>2
<1> QED BY <1>3, <1>5, <1>6, <1>7, <1>8

\* The head of a walk is a placed request, and so are those behind it.
LEMMA HeadPlaced ==
    ASSUME IInv, NEW r \in Requests, AtItem(r)
    PROVE  /\ loopPc = "drain" /\ want[r] \in Models /\ cpc[r] # "idle"
           /\ Tail(pending) \in Seq(Requests)
           /\ \A i \in 1..Len(Tail(pending)) :
                \E j \in 1..Len(pending) : Tail(pending)[i] = pending[j]
<1>1. /\ pending \in Seq(Requests) /\ Len(pending) \in Nat /\ pending # <<>>
      /\ Len(pending) > 0 /\ r = pending[1] /\ loopPc = "drain"
  BY DEF IInv, TypeOK, AtItem
<1>2. want[r] \in Models /\ cpc[r] # "idle"
  BY <1>1 DEF IInv, Placed
<1>3. /\ Tail(pending) \in Seq(Requests)
      /\ Len(Tail(pending)) = Len(pending) - 1
      /\ \A i \in 1..(Len(pending) - 1) : Tail(pending)[i] = pending[i + 1]
  BY <1>1
<1>4. ASSUME NEW i \in 1..Len(Tail(pending))
      PROVE  \E j \in 1..Len(pending) : Tail(pending)[i] = pending[j]
  <2>1. i + 1 \in 1..Len(pending)
    BY <1>1, <1>3
  <2> QED BY <1>3, <2>1
<1> QED BY <1>1, <1>2, <1>3, <1>4

\* One item of drainQueue.
LEMMA DrainKeepsIInv ==
    ASSUME IInv, NEW r \in Requests, DrainStep(r)
    PROVE  IInv'
<1> USE DEF IInv
<1>1. AtItem(r) /\ pending' = Tail(pending)
  BY DEF DrainStep, DrainJoins, DrainFastPath, DrainStartsSwap, DrainKeeps, Dequeue
<1>2. /\ loopPc = "drain" /\ want[r] \in Models /\ cpc[r] # "idle"
      /\ pending' \in Seq(Requests)
      /\ \A i \in 1..Len(pending') :
           \E j \in 1..Len(pending) : pending'[i] = pending[j]
  BY <1>1, HeadPlaced
<1>3. /\ loopPc' = "drain" /\ queued' = queued /\ want' = want
      /\ UNCHANGED <<fan, fanErr, targets, toStop, ctlVars, ps>>
  <2>1. CASE DrainKeeps(r)
    BY <1>2, <2>1 DEF DrainKeeps, queueVars, clientVars
  <2>2. CASE Dequeue(r)
    BY <1>2, <2>2 DEF Dequeue
  <2> QED BY <2>1, <2>2 DEF DrainStep, DrainJoins, DrainFastPath, DrainStartsSwap
<1>4. ASSUME \A q \in Requests : cpc[q] # "idle" => cpc'[q] # "idle"
      PROVE  Placed(queued)' /\ Placed(pending)'
  <2>1. Placed(queued)'
    BY <1>3, <1>4 DEF TypeOK, Placed
  <2>2. ASSUME NEW i \in 1..Len(pending')
        PROVE  want'[pending'[i]] \in Models /\ cpc'[pending'[i]] # "idle"
    <3>1. PICK j \in 1..Len(pending) : pending'[i] = pending[j]
      BY <1>2
    <3>2. pending[j] \in Requests
      BY DEF TypeOK
    <3> QED BY <1>3, <1>4, <3>1, <3>2 DEF Placed
  <2> QED BY <2>1, <2>2 DEF Placed
<1>5. ASSUME \A q \in Requests : cpc[q] # "idle" => cpc'[q] # "idle",
             remaining' = remaining
      PROVE  Placed(remaining)'
  BY <1>3, <1>5 DEF TypeOK, Placed
<1>6. CASE DrainJoins(r)
  <2>1. /\ waiters' \in [Models -> SUBSET Requests] /\ waited' \subseteq Requests
        /\ UNCHANGED <<remaining, active, evict, residentBursts, swap, cpc,
                       reserved, inFlight>>
    BY <1>6 DEF DrainJoins, Join, Dequeue, TypeOK
  <2>2. TypeOK'
    BY <1>2, <1>3, <2>1 DEF TypeOK, ctlVars
  <2>3. KnownModel'
    BY <1>3, <2>1 DEF KnownModel
  <2>4. QueueIsWatched' /\ KeptIsWatched'
    BY <1>2, <1>3, <2>1 DEF QueueIsWatched, KeptIsWatched, Watched, ctlVars
  <2> QED BY <1>4, <1>5, <2>1, <2>2, <2>3, <2>4
<1>7. CASE DrainFastPath(r)
  <2>1. /\ waited' \subseteq Requests /\ residentBursts' \in [Pools -> Nat]
        /\ UNCHANGED <<remaining, active, evict, waiters, swap>>
    BY <1>7 DEF DrainFastPath, recordResidentAdmission, Dequeue, TypeOK, swapTable
  <2>2. grantHandler(r)
    BY <1>7 DEF DrainFastPath
  <2>3. /\ reserved' \in [Models -> Int] /\ inFlight' \in [Models -> Int]
        /\ cpc' \in [Requests -> ClientPcs]
        /\ \A q \in Requests : cpc[q] # "idle" => cpc'[q] # "idle"
        /\ KnownModel'
        /\ \A m \in Models : inFlight[m] > 0 => inFlight'[m] > 0
    BY <1>3, <2>2, GrantTyped
  <2>4. TypeOK'
    BY <1>2, <1>3, <2>1, <2>3 DEF TypeOK, ctlVars
  <2>5. QueueIsWatched' /\ KeptIsWatched'
    BY <1>2, <1>3, <2>1, <2>3 DEF QueueIsWatched, KeptIsWatched, Watched, ctlVars
  <2> QED BY <1>4, <1>5, <2>1, <2>3, <2>4, <2>5
<1>8. CASE DrainStartsSwap(r)
  <2>1. /\ startSwap(r) /\ waited' \subseteq Requests
        /\ UNCHANGED <<remaining, cpc, reserved, inFlight>>
    BY <1>8 DEF DrainStartsSwap, Dequeue, TypeOK
  <2>2. /\ active' \subseteq Models /\ active' # {}
        /\ evict' \in [Models -> SUBSET Models]
        /\ waiters' \in [Models -> SUBSET Requests]
        /\ residentBursts' \in [Pools -> Nat]
        /\ swap' \in [SwapIds -> Swaps]
    BY <1>2, <2>1, StartSwapTyped
  <2>3. TypeOK'
    BY <1>2, <1>3, <2>1, <2>2 DEF TypeOK, ctlVars
  <2>4. KnownModel'
    BY <1>3, <2>1 DEF KnownModel
  <2>5. QueueIsWatched' /\ KeptIsWatched'
    BY <1>2, <1>3, <2>2 DEF QueueIsWatched, KeptIsWatched, Watched
  <2> QED BY <1>4, <1>5, <2>1, <2>3, <2>4, <2>5
<1>9. CASE DrainKeeps(r)
  <2>1. /\ remaining' = Append(remaining, r) /\ Blocked(want[r])
        /\ UNCHANGED <<clientVars, swapTable, queueVars, counters, swap>>
    BY <1>9 DEF DrainKeeps
  <2>2. TypeOK'
    BY <1>2, <1>3, <2>1 DEF TypeOK, clientVars, swapTable, queueVars, counters, ctlVars
  <2>3. KnownModel'
    BY <2>1 DEF KnownModel, clientVars
  <2>4. Placed(remaining)'
    <3>1. /\ remaining \in Seq(Requests) /\ Len(remaining) \in Nat
          /\ cpc' = cpc /\ want' = want
      BY <2>1 DEF TypeOK, clientVars
    <3> QED BY <1>2, <2>1, <3>1 DEF Placed
  <2>5. Watched'
    BY <1>2, <2>1, BlockedIsWatched DEF Watched, swapTable, counters
  <2>6. QueueIsWatched' /\ KeptIsWatched'
    BY <1>2, <1>3, <2>5 DEF QueueIsWatched, KeptIsWatched
  <2> QED BY <1>4, <2>1, <2>2, <2>3, <2>4, <2>6 DEF clientVars
<1> QED BY <1>6, <1>7, <1>8, <1>9 DEF DrainStep

\* A step that disturbs neither the requests nor what the scheduler keeps of
\* them: the doSwap goroutines, the processes, the stops and the clock.
LEMMA OutsideKeeps ==
    ASSUME IInv,
           swap' \in [SwapIds -> Swaps], ps' \in [Models -> ProcStates],
           toStop' \subseteq Models, waited' \subseteq Requests,
           shuttingDown' \in BOOLEAN,
           UNCHANGED <<clientVars, swapTable, queued, counters, loopPc, fan,
                       fanErr, pending, remaining, targets, unloads, shut>>
    PROVE  IInv'
<1> USE DEF IInv, clientVars, swapTable, counters
<1>1. TypeOK'
  BY DEF TypeOK
<1>2. Placed(queued)' /\ Placed(pending)' /\ Placed(remaining)' /\ KnownModel'
  BY DEF Placed, KnownModel
<1>3. QueueIsWatched' /\ KeptIsWatched'
  BY DEF QueueIsWatched, KeptIsWatched, Watched
<1> QED BY <1>1, <1>2, <1>3

\* Stopping a process ends a start in progress and nothing else.
LEMMA StopTyped ==
    ASSUME TypeOK, NEW m \in Models, NEW err \in BOOLEAN
    PROVE  /\ StartOver(swap, m, err) \in [SwapIds -> Swaps]
           /\ Stop(m) => ps' \in [Models -> ProcStates]
<1>1. StartOver(swap, m, err) \in [SwapIds -> Swaps]
  BY DEF TypeOK, StartOver, Swaps, SwapPcs
<1>2. Stop(m) => ps' \in [Models -> ProcStates]
  BY DEF TypeOK, Stop, ProcStates
<1> QED BY <1>1, <1>2

\* The doSwap goroutines.
LEMMA SwapKeeps ==
    ASSUME IInv, NEW s \in SwapIds, SwapStep(s)
    PROVE  IInv'
<1> USE DEF queueVars, walkVars, ctlVars
<1>1. TypeOK
  BY DEF IInv
<1>2. ASSUME NEW v \in Models, SwapStops(s, v)
      PROVE  IInv'
  <2> DEFINE sw == StartOver(swap, v, TRUE)
  <2>1. sw \in [SwapIds -> Swaps] /\ ps' \in [Models -> ProcStates]
    BY <1>1, <1>2, StopTyped DEF SwapStops
  <2>2. swap' = [sw EXCEPT ![s].left = @ \ {v}]
    BY <1>2 DEF SwapStops
  <2> HIDE DEF sw
  <2>3. swap' \in [SwapIds -> Swaps]
    BY <2>1, <2>2 DEF Swaps
  <2> QED BY <1>1, <1>2, <2>1, <2>3, OutsideKeeps DEF SwapStops, TypeOK
<1>3. CASE SwapStopped(s) \/ SwapEnsures(s) \/ SwapGivesUp(s)
  <2>1. swap' \in [SwapIds -> Swaps]
    <3>1. CASE SwapStopped(s)
      <4>1. swap' = [swap EXCEPT ![s].pc = "ensure"]
        BY <3>1 DEF SwapStopped
      <4>2. swap \in [SwapIds -> Swaps] /\ swap[s] \in Swaps
        BY <1>1 DEF TypeOK
      <4>3. [swap[s] EXCEPT !.pc = "ensure"] \in Swaps
        BY ONLY <4>2 DEF Swaps, SwapPcs
      <4> QED BY ONLY <4>1, <4>2, <4>3
    <3>2. CASE SwapEnsures(s)
      <4>1. \/ swap' = [swap EXCEPT ![s].pc = "start"]
            \/ \E e \in BOOLEAN :
                 swap' = [swap EXCEPT ![s].pc = "report", ![s].err = e]
        BY <3>2 DEF SwapEnsures
      <4>2. swap[s] \in Swaps
        BY <1>1 DEF TypeOK
      <4>3. /\ [swap[s] EXCEPT !.pc = "start"] \in Swaps
            /\ \A e \in BOOLEAN :
                 [swap[s] EXCEPT !.pc = "report", !.err = e] \in Swaps
        BY ONLY <4>2 DEF Swaps, SwapPcs
      <4> QED BY <1>1, <4>1, <4>3 DEF TypeOK
    <3>3. CASE SwapGivesUp(s)
      BY <1>1, <3>3 DEF TypeOK, SwapGivesUp, Swaps, SwapPcs, FreeSwap, Ids
    <3> QED BY <1>3, <3>1, <3>2, <3>3
  <2>2. ps' \in [Models -> ProcStates]
    <3>1. \/ ps' = ps
          \/ ps' = [ps EXCEPT ![swap[s].model] = "starting"]
      BY <1>3 DEF SwapStopped, SwapEnsures, SwapGivesUp
    <3> QED BY <1>1, <3>1 DEF TypeOK, ProcStates
  <2>3. UNCHANGED <<clientVars, swapTable, queueVars, counters, loopPc,
                    walkVars, ctlVars>>
    BY <1>3 DEF SwapStopped, SwapEnsures, SwapGivesUp
  <2> QED BY <1>1, <2>1, <2>2, <2>3, OutsideKeeps DEF TypeOK
<1> QED BY <1>2, <1>3 DEF SwapStep

\* The processes.
LEMMA ProcessKeeps ==
    ASSUME IInv, NEW m \in Models, ProcessStep(m)
    PROVE  IInv'
<1> USE DEF queueVars, walkVars, ctlVars
<1>1. TypeOK
  BY DEF IInv
<1>2. ASSUME NEW ok \in BOOLEAN, StartEnds(m, ok)
      PROVE  IInv'
  <2>1. swap' \in [SwapIds -> Swaps]
    BY <1>1, <1>2, StopTyped DEF StartEnds
  <2>2. ps' \in [Models -> ProcStates]
    BY <1>1, <1>2 DEF StartEnds, TypeOK, ProcStates
  <2> QED BY <1>1, <1>2, <2>1, <2>2, OutsideKeeps DEF StartEnds, TypeOK
<1>3. CASE ProcessExits(m) \/ ProviderLoads(m)
  <2>1. ps' \in [Models -> ProcStates]
    BY <1>1, <1>3 DEF ProcessExits, ProviderLoads, TypeOK, ProcStates
  <2> QED BY <1>1, <1>3, <2>1, OutsideKeeps DEF ProcessExits, ProviderLoads, TypeOK
<1>4. CASE ProcessShutdown(m)
  <2>1. swap' \in [SwapIds -> Swaps]
    BY <1>1, <1>4, StopTyped DEF ProcessShutdown
  <2>2. ps' \in [Models -> ProcStates]
    BY <1>1, <1>4 DEF ProcessShutdown, TypeOK, ProcStates
  <2> QED BY <1>1, <1>4, <2>1, <2>2, OutsideKeeps DEF ProcessShutdown, TypeOK
<1> QED BY <1>2, <1>3, <1>4 DEF ProcessStep

\* Unload, up to the walk that ends it.
LEMMA UnloadKeeps ==
    ASSUME IInv,
           \/ \E T \in SUBSET Models \ {{}} : OnUnload(T)
           \/ \E r \in Requests : UnloadDrops(r)
           \/ \E m \in Models : UnloadStops(m)
    PROVE  IInv'
<1>1. TypeOK
  BY DEF IInv
<1>2. ASSUME NEW T \in SUBSET Models, OnUnload(T)
      PROVE  IInv'
  <2> USE <1>2 DEF OnUnload, clientVars, queueVars, counters
  <2>1. swap' \in [SwapIds -> Swaps]
    <3>1. swap' = [s \in SwapIds |->
                     IF swap[s].model \in T
                     THEN [swap[s] EXCEPT !.orphan = TRUE] ELSE swap[s]]
      OBVIOUS
    <3>2. \A e \in Swaps : [e EXCEPT !.orphan = TRUE] \in Swaps
      BY ONLY DEF Swaps
    <3>3. swap \in [SwapIds -> Swaps]
      BY <1>1 DEF TypeOK
    <3> QED BY ONLY <3>1, <3>2, <3>3
  <2>2. evict' \in [Models -> SUBSET Models] /\ waiters' \in [Models -> SUBSET Requests]
    BY <1>1 DEF TypeOK
  <2>3. fan' \subseteq Requests /\ unloads' \in Nat /\ active' \subseteq Models
    BY <1>1 DEF TypeOK
  <2>4. TypeOK'
    BY <1>1, <2>1, <2>2, <2>3 DEF TypeOK, LoopPcs
  <2>5. Placed(queued)' /\ Placed(pending)' /\ Placed(remaining)' /\ KnownModel'
    BY DEF IInv, Placed, KnownModel
  <2>6. QueueIsWatched' /\ KeptIsWatched'
    BY DEF IInv, QueueIsWatched, KeptIsWatched
  <2> QED BY <2>4, <2>5, <2>6 DEF IInv
<1>3. ASSUME NEW r \in Requests, UnloadDrops(r)
      PROVE  IInv'
  <2>1. /\ loopPc = "unload" /\ queued' = RemoveFirst(queued, r)
        /\ waited' = waited \ {r} /\ GrantError(r)
        /\ UNCHANGED <<want, swapTable, inFlight, residentBursts, loopPc,
                       walkVars, ctlVars, swap, ps>>
    BY <1>3 DEF UnloadDrops
  <2>2. /\ queued' \in Seq(Requests)
        /\ \A i \in 1..Len(queued') :
             \E j \in 1..Len(queued) : queued'[i] = queued[j]
    <3>1. queued \in Seq(Requests) /\ queued' = RemoveFirst(queued, r)
      BY <1>1, <2>1 DEF TypeOK
    <3> QED BY ONLY <3>1, RemoveFirstItems
  <2>3. /\ reserved' \in [Models -> Int] /\ inFlight' \in [Models -> Int]
        /\ cpc' \in [Requests -> ClientPcs]
        /\ \A q \in Requests : cpc[q] # "idle" => cpc'[q] # "idle"
        /\ KnownModel'
    BY <1>1, <2>1, GrantTyped DEF IInv
  <2>4. TypeOK'
    BY <1>1, <2>1, <2>2, <2>3 DEF TypeOK, swapTable, walkVars, ctlVars
  <2>5. ASSUME NEW i \in 1..Len(queued')
        PROVE  want'[queued'[i]] \in Models /\ cpc'[queued'[i]] # "idle"
    <3>1. PICK j \in 1..Len(queued) : queued'[i] = queued[j]
      BY <2>2
    <3>2. queued[j] \in Requests
      BY <1>1 DEF TypeOK
    <3> QED BY <2>1, <2>3, <3>1, <3>2 DEF IInv, Placed
  <2>6. Placed(pending)' /\ Placed(remaining)'
    BY <1>1, <2>1, <2>3 DEF IInv, TypeOK, Placed, walkVars
  <2>7. QueueIsWatched' /\ KeptIsWatched'
    BY <2>1 DEF IInv, QueueIsWatched, KeptIsWatched, walkVars
  <2> QED BY <2>3, <2>4, <2>5, <2>6, <2>7 DEF IInv, Placed
<1>4. ASSUME NEW m \in Models, UnloadStops(m)
      PROVE  IInv'
  <2>1. swap' \in [SwapIds -> Swaps] /\ ps' \in [Models -> ProcStates]
    BY <1>1, <1>4, StopTyped DEF UnloadStops
  <2>2. toStop' \subseteq Models
    BY <1>1, <1>4 DEF UnloadStops, TypeOK
  <2> QED BY <1>1, <1>4, <2>1, <2>2, OutsideKeeps
          DEF UnloadStops, TypeOK, queueVars, ctlVars
<1> QED BY <1>2, <1>3, <1>4

LEMMA UnloadEndKeeps ==
    ASSUME IInv, UnloadEnds
    PROVE  IInv'
<1>1. BeginDrain /\ loopPc = "unload" /\ targets' = {}
  BY DEF UnloadEnds
<1>2. UNCHANGED <<clientVars, swapTable, queueVars, counters, fan, fanErr,
                  remaining, toStop, ctlVars, swap, ps>>
  BY DEF UnloadEnds
<1> QED BY <1>1, <1>2, DrainBeginKeeps

\* The end of drainQueue: what it put back is the queue.
LEMMA DrainEndKeeps ==
    ASSUME IInv, DrainEnds
    PROVE  IInv'
<1> USE DEF DrainEnds, clientVars, swapTable, counters, ctlVars
<1>1. TypeOK'
  BY DEF IInv, TypeOK, LoopPcs
<1>2. Placed(queued)' /\ Placed(pending)' /\ KnownModel'
  BY DEF IInv, Placed, KnownModel
<1>3. Placed(remaining)'
  BY DEF Placed
<1>4. QueueIsWatched' /\ KeptIsWatched'
  BY DEF IInv, QueueIsWatched, KeptIsWatched, Watched
<1> QED BY <1>1, <1>2, <1>3, <1>4 DEF IInv

\* Shutdown.
LEMMA ShutdownKeeps ==
    ASSUME IInv,
           \/ OnShutdown \/ ShutdownEnds \/ CallShutdown
           \/ \E m \in Models : ShutdownStops(m)
    PROVE  IInv'
<1> USE DEF clientVars, swapTable, queueVars, counters
<1>1. TypeOK
  BY DEF IInv
<1>2. CASE OnShutdown
  <2>1. fan' \subseteq Requests
    <3>1. ToSet(queued) \subseteq Requests
      BY <1>1 DEF TypeOK, ToSet
    <3> QED BY <1>1, <1>2, <3>1 DEF OnShutdown, TypeOK
  <2>2. TypeOK'
    BY <1>1, <1>2, <2>1 DEF OnShutdown, TypeOK, LoopPcs
  <2>3. Placed(queued)' /\ Placed(pending)' /\ Placed(remaining)' /\ KnownModel'
    BY <1>2 DEF OnShutdown, IInv, Placed, KnownModel
  <2>4. QueueIsWatched' /\ KeptIsWatched'
    BY <1>2 DEF OnShutdown, IInv, QueueIsWatched, KeptIsWatched
  <2> QED BY <2>2, <2>3, <2>4 DEF IInv
<1>3. CASE ShutdownEnds
  <2> USE <1>3 DEF ShutdownEnds, walkVars, ctlVars
  <2>1. TypeOK'
    BY <1>1 DEF TypeOK, LoopPcs
  <2>2. Placed(queued)' /\ Placed(pending)' /\ Placed(remaining)' /\ KnownModel'
    BY DEF IInv, Placed, KnownModel
  <2>3. QueueIsWatched' /\ KeptIsWatched'
    BY DEF IInv, QueueIsWatched, KeptIsWatched
  <2> QED BY <2>1, <2>2, <2>3 DEF IInv
<1>4. CASE CallShutdown
  BY <1>1, <1>4, OutsideKeeps DEF CallShutdown, TypeOK, walkVars
<1>5. ASSUME NEW m \in Models, ShutdownStops(m)
      PROVE  IInv'
  <2>1. swap' \in [SwapIds -> Swaps] /\ ps' \in [Models -> ProcStates]
    BY <1>1, <1>5, StopTyped DEF ShutdownStops, TypeOK
  <2>2. toStop' \subseteq Models
    BY <1>1, <1>5 DEF ShutdownStops, TypeOK
  <2> QED BY <1>1, <1>5, <2>1, <2>2, OutsideKeeps DEF ShutdownStops, TypeOK, ctlVars
<1> QED BY <1>2, <1>3, <1>4, <1>5

LEMMA WaitKeeps ==
    ASSUME IInv, NEW r \in Requests, WaitElapses(r)
    PROVE  IInv'
<1>1. waited' \subseteq Requests
  BY DEF IInv, TypeOK, WaitElapses
<1> QED BY <1>1, OutsideKeeps DEF IInv, TypeOK, WaitElapses, walkVars, ctlVars

-----------------------------------------------------------------------------
(* The theorems.                                                            *)

LEMMA InitHolds == Init => IInv
<1> SUFFICES ASSUME Init
             PROVE  IInv
  OBVIOUS
<1>1. TypeOK
  <2>1. swap \in [SwapIds -> Swaps]
    BY DEF Init, Swaps, SwapPcs, FreeSwap, Ids
  <2>2. ps \in [Models -> ProcStates]
    BY DEF Init, ProcStates
  <2>3. cpc \in [Requests -> ClientPcs] /\ want \in [Requests -> Ids]
    BY DEF Init, ClientPcs, Ids
  <2>4. queued \in Seq(Requests) /\ pending \in Seq(Requests) /\ remaining \in Seq(Requests)
    BY DEF Init
  <2>5. /\ evict \in [Models -> SUBSET Models] /\ waiters \in [Models -> SUBSET Requests]
        /\ reserved \in [Models -> Int] /\ inFlight \in [Models -> Int]
        /\ residentBursts \in [Pools -> Nat]
    BY DEF Init
  <2>6. /\ active \subseteq Models /\ waited \subseteq Requests /\ fan \subseteq Requests
        /\ targets \subseteq Models /\ toStop \subseteq Models
        /\ loopPc \in LoopPcs /\ unloads \in Nat
    BY DEF Init, LoopPcs
  <2>7. fanErr \in BOOLEAN /\ shuttingDown \in BOOLEAN /\ shut \in BOOLEAN
    BY DEF Init
  <2> QED BY ONLY <2>1, <2>2, <2>3, <2>4, <2>5, <2>6, <2>7 DEF TypeOK
<1>2. Placed(queued) /\ Placed(pending) /\ Placed(remaining) /\ KnownModel
  BY DEF Init, Placed, KnownModel
<1>3. QueueIsWatched /\ KeptIsWatched
  BY DEF Init, QueueIsWatched, KeptIsWatched
<1> QED BY <1>1, <1>2, <1>3 DEF IInv

\* Every step of the router keeps the inductive invariant.
LEMMA StepKeeps == IInv /\ [Next]_vars => IInv'
<1> SUFFICES ASSUME IInv, [Next]_vars
             PROVE  IInv'
  OBVIOUS
<1>1. CASE LoopStep
  BY <1>1, RequestKeeps, CancelKeeps, ServeDoneKeeps, AnswerWaiterKeeps,
     DrainKeepsIInv, UnloadKeeps, SwapDoneKeeps, ShutdownKeeps,
     WaitersAnsweredKeeps, DrainEndKeeps, UnloadEndKeeps DEF LoopStep
<1>2. CASE \E T \in SUBSET Models \ {{}} : OnUnload(T)
  BY <1>2, UnloadKeeps
<1>3. CASE CallShutdown
  BY <1>3, ShutdownKeeps
<1>4. CASE \E r \in Requests : ClientStep(r) \/ WaitElapses(r)
  BY <1>4, ClientKeeps, WaitKeeps
<1>5. CASE \E s \in SwapIds : SwapStep(s)
  BY <1>5, SwapKeeps
<1>6. CASE \E m \in Models : ProcessStep(m)
  BY <1>6, ProcessKeeps
<1>7. CASE Quiescent \/ UNCHANGED vars
  <2>1. UNCHANGED vars
    BY <1>7 DEF Quiescent
  <2> QED BY <2>1, OutsideKeeps DEF IInv, TypeOK, vars, queueVars, walkVars, ctlVars
<1> QED BY <1>1, <1>2, <1>3, <1>4, <1>5, <1>6, <1>7 DEF Next

\* The scheduler, the run loop, the clients and the processes are well typed
\* in every state, whatever the models, the eviction policy and the limits.
THEOREM TypeCorrect == Spec => []TypeOK
<1>1. IInv => TypeOK
  BY DEF IInv
<1> QED BY <1>1, InitHolds, StepKeeps, PTL DEF Spec

\* No request is ever left in the queue with nothing to come that would walk
\* the queue again (OnRequest, drainQueue, OnSwapDone, OnServeDone, OnUnload).
THEOREM QueueNeverForgotten == Spec => []QueueIsWatched
<1>1. IInv => QueueIsWatched
  BY DEF IInv
<1> QED BY <1>1, InitHolds, StepKeeps, PTL DEF Spec

-----------------------------------------------------------------------------
(* Sequences without repetition.                                            *)

Once(s) == \A i, j \in 1..Len(s) : s[i] = s[j] => i = j

\* What a sequence holds, by its positions.
LEMMA InSeq ==
    ASSUME NEW S, NEW s \in Seq(S)
    PROVE  /\ Len(s) \in Nat /\ DOMAIN s = 1..Len(s)
           /\ \A x : x \in ToSet(s) <=> \E i \in 1..Len(s) : s[i] = x
           /\ ToSet(s) \subseteq S
           /\ s = <<>> <=> ToSet(s) = {}
<1>1. Len(s) \in Nat /\ DOMAIN s = 1..Len(s)
  OBVIOUS
<1>2. \A x : x \in ToSet(s) <=> \E i \in 1..Len(s) : s[i] = x
  BY <1>1 DEF ToSet
<1>3. ToSet(s) \subseteq S
  BY <1>2
<1>4. ASSUME s # <<>>
      PROVE  ToSet(s) # {}
  <2>1. 1 \in 1..Len(s)
    BY <1>4
  <2> QED BY <1>2, <2>1
<1>5. ASSUME s = <<>>
      PROVE  ToSet(s) = {}
  BY <1>5 DEF ToSet
<1> QED BY <1>1, <1>2, <1>3, <1>4, <1>5

\* Taking one item out closes the gap it leaves.
LEMMA RemoveFirstShape ==
    ASSUME NEW S, NEW s \in Seq(S), NEW e, e \in ToSet(s)
    PROVE  \E k \in 1..Len(s) :
             /\ s[k] = e
             /\ RemoveFirst(s, e) \in Seq(S) /\ Len(RemoveFirst(s, e)) = Len(s) - 1
             /\ \A i \in 1..(Len(s) - 1) :
                  RemoveFirst(s, e)[i] = IF i < k THEN s[i] ELSE s[i + 1]
<1>1. \E i \in 1..Len(s) : s[i] = e
  BY InSeq
<1> DEFINE T == {i \in 1..Len(s) : s[i] = e}
<1>2. T \in SUBSET Nat /\ T # {}
  BY <1>1
<1>3. PICK x \in T : \A y \in T : x <= y
  BY <1>2, LeastElement
<1> DEFINE k == CHOOSE z \in T : \A y \in T : z <= y
<1>4. k \in 1..Len(s) /\ s[k] = e
  BY <1>3
<1>5. RemoveFirst(s, e) = RemoveAt(s, k)
  BY <1>1, <1>2 DEF RemoveFirst, SelectInSeq, Min
<1> HIDE DEF k
<1> DEFINE a == SubSeq(s, 1, k - 1)
           b == SubSeq(s, k + 1, Len(s))
<1>6. /\ a \in Seq(S) /\ Len(a) = k - 1 /\ \A i \in 1..(k - 1) : a[i] = s[i]
  BY <1>4
<1>7. /\ b \in Seq(S) /\ Len(b) = Len(s) - k
      /\ \A i \in 1..(Len(s) - k) : b[i] = s[k + i]
  BY <1>4
<1>8. RemoveFirst(s, e) = a \o b
  BY <1>5 DEF RemoveAt
<1> HIDE DEF a, b
<1>9. /\ a \o b \in Seq(S) /\ Len(a \o b) = Len(a) + Len(b)
      /\ \A i \in 1..(Len(a) + Len(b)) :
           (a \o b)[i] = IF i <= Len(a) THEN a[i] ELSE b[i - Len(a)]
  BY <1>6, <1>7
<1>10. Len(a \o b) = Len(s) - 1
  BY <1>4, <1>6, <1>7, <1>9
<1>11. ASSUME NEW i \in 1..(Len(s) - 1)
       PROVE  (a \o b)[i] = IF i < k THEN s[i] ELSE s[i + 1]
  <2>1. CASE i < k
    BY <1>4, <1>6, <1>7, <1>9, <2>1
  <2>2. CASE ~ (i < k)
    <3>1. i - Len(a) \in 1..(Len(s) - k) /\ k + (i - Len(a)) = i + 1 /\ ~ (i <= Len(a))
      BY <1>4, <1>6, <2>2
    <3>2. (a \o b)[i] = b[i - Len(a)]
      BY <1>4, <1>6, <1>7, <1>9, <3>1
    <3>3. b[i - Len(a)] = s[k + (i - Len(a))]
      BY <1>7, <3>1
    <3> QED BY <2>2, <3>1, <3>2, <3>3
  <2> QED BY <2>1, <2>2
<1> QED BY <1>4, <1>8, <1>9, <1>10, <1>11

\* From a sequence without repetition an item is gone with its removal.
LEMMA RemoveFirstOnce ==
    ASSUME NEW S, NEW s \in Seq(S), Once(s), NEW e
    PROVE  /\ RemoveFirst(s, e) \in Seq(S) /\ Once(RemoveFirst(s, e))
           /\ ToSet(RemoveFirst(s, e)) = ToSet(s) \ {e}
<1>1. CASE e \notin ToSet(s)
  <2>1. RemoveFirst(s, e) = s
    BY <1>1, InSeq DEF RemoveFirst
  <2> QED BY <1>1, <2>1
<1>2. CASE e \in ToSet(s)
  <2> DEFINE t == RemoveFirst(s, e)
  <2>1. PICK k \in 1..Len(s) :
          /\ s[k] = e
          /\ t \in Seq(S) /\ Len(t) = Len(s) - 1
          /\ \A i \in 1..(Len(s) - 1) : t[i] = IF i < k THEN s[i] ELSE s[i + 1]
    BY <1>2, RemoveFirstShape
  <2> HIDE DEF t
  <2>2. Len(s) \in Nat
    OBVIOUS
  <2>3. Once(t)
    <3> SUFFICES ASSUME NEW i \in 1..Len(t), NEW j \in 1..Len(t), t[i] = t[j]
                 PROVE  i = j
      BY DEF Once
    <3> DEFINE f(n) == IF n < k THEN n ELSE n + 1
    <3>1. f(i) \in 1..Len(s) /\ f(j) \in 1..Len(s) /\ s[f(i)] = s[f(j)]
      BY <2>1, <2>2
    <3>2. f(i) = f(j)
      BY <3>1 DEF Once
    <3> QED BY <2>1, <2>2, <3>2
  <2>4. ASSUME NEW x \in ToSet(t)
        PROVE  x \in ToSet(s) \ {e}
    <3>1. PICK i \in 1..Len(t) : t[i] = x
      BY <2>1, InSeq
    <3> DEFINE n == IF i < k THEN i ELSE i + 1
    <3>2. n \in 1..Len(s) /\ s[n] = x /\ n # k
      BY <2>1, <2>2, <3>1
    <3> QED BY <2>1, <3>2, InSeq DEF Once
  <2>5. ASSUME NEW x \in ToSet(s) \ {e}
        PROVE  x \in ToSet(t)
    <3>1. PICK n \in 1..Len(s) : s[n] = x
      BY InSeq
    <3> DEFINE i == IF n < k THEN n ELSE n - 1
    <3>2. n # k
      BY <2>1, <3>1
    <3>3. i \in 1..Len(t) /\ t[i] = x
      BY <2>1, <2>2, <3>1, <3>2
    <3> QED BY <2>1, <3>3, InSeq
  <2> QED BY <2>1, <2>3, <2>4, <2>5 DEF t
<1> QED BY <1>1, <1>2

\* An insertion opens a gap for its item.
LEMMA InsertAtShape ==
    ASSUME NEW S, NEW s \in Seq(S), NEW e \in S, NEW k \in 1..(Len(s) + 1)
    PROVE  /\ InsertAt(s, k, e) \in Seq(S) /\ Len(InsertAt(s, k, e)) = Len(s) + 1
           /\ \A i \in 1..(Len(s) + 1) :
                InsertAt(s, k, e)[i] = IF i < k THEN s[i] ELSE IF i = k THEN e ELSE s[i - 1]
<1> DEFINE c == SubSeq(s, 1, k - 1)
           a == c \o <<e>>
           b == SubSeq(s, k, Len(s))
           t == a \o b
<1>1. /\ c \in Seq(S) /\ Len(c) = k - 1 /\ \A i \in 1..(k - 1) : c[i] = s[i]
  <2>1. Len(s) \in Nat /\ k - 1 \in 0..Len(s)
    OBVIOUS
  <2> QED BY <2>1
<1>2. /\ b \in Seq(S) /\ Len(b) = Len(s) - k + 1
      /\ \A i \in 1..(Len(s) - k + 1) : b[i] = s[k + i - 1]
  <2>1. Len(s) \in Nat /\ k \in Nat /\ Len(s) - k + 1 \in Nat
    OBVIOUS
  <2>2. b \in Seq(S) /\ Len(b) = Len(s) - k + 1
    BY <2>1
  <2>3. \A i \in 1..(Len(s) - k + 1) : b[i] = s[k + i - 1]
    BY <2>1
  <2> QED BY <2>2, <2>3
<1>3. InsertAt(s, k, e) = t
  BY DEF InsertAt
<1> HIDE DEF b, c
<1>4. /\ a \in Seq(S) /\ Len(a) = k /\ \A i \in 1..k : a[i] = IF i = k THEN e ELSE s[i]
  BY <1>1
<1> HIDE DEF a
<1>5. /\ t \in Seq(S) /\ Len(t) = Len(s) + 1
      /\ \A i \in 1..(Len(s) + 1) : t[i] = IF i <= k THEN a[i] ELSE b[i - k]
  <2>1. /\ t \in Seq(S) /\ Len(t) = Len(a) + Len(b)
        /\ \A i \in 1..(Len(a) + Len(b)) : t[i] = IF i <= Len(a) THEN a[i] ELSE b[i - Len(a)]
    <3>1. a \in Seq(S) /\ b \in Seq(S)
      BY <1>2, <1>4
    <3> QED BY ONLY <3>1
  <2>2. Len(a) + Len(b) = Len(s) + 1
    BY <1>2, <1>4
  <2> HIDE DEF t
  <2> QED BY <1>4, <2>1, <2>2
<1> HIDE DEF t
<1>6. Len(s) \in Nat
  OBVIOUS
<1>7. ASSUME NEW i \in 1..(Len(s) + 1)
      PROVE  t[i] = IF i < k THEN s[i] ELSE IF i = k THEN e ELSE s[i - 1]
  <2>1. CASE i <= k
    BY <1>4, <1>5, <2>1
  <2>2. CASE ~ (i <= k)
    <3>1. i - k \in 1..(Len(s) - k + 1) /\ k + (i - k) - 1 = i - 1
      BY <1>6, <2>2
    <3> QED BY <1>2, <1>5, <2>2, <3>1
  <2> QED BY <2>1, <2>2
<1> QED BY <1>3, <1>5, <1>7

\* An item that is inserted where it is not yet is there once.
LEMMA InsertAtOnce ==
    ASSUME NEW S, NEW s \in Seq(S), Once(s), NEW e \in S, e \notin ToSet(s),
           NEW k \in 1..(Len(s) + 1)
    PROVE  /\ InsertAt(s, k, e) \in Seq(S) /\ Once(InsertAt(s, k, e))
           /\ ToSet(InsertAt(s, k, e)) = ToSet(s) \union {e}
<1> DEFINE t == InsertAt(s, k, e)
<1>1. /\ t \in Seq(S) /\ Len(t) = Len(s) + 1
      /\ \A i \in 1..(Len(s) + 1) : t[i] = IF i < k THEN s[i] ELSE IF i = k THEN e ELSE s[i - 1]
  BY ONLY s \in Seq(S), e \in S, k \in 1..(Len(s) + 1), InsertAtShape
<1> HIDE DEF t
<1>2. Len(s) \in Nat
  OBVIOUS
<1>3. \A i \in 1..Len(s) : s[i] # e
  BY InSeq
<1>4. Once(t)
  <2> SUFFICES ASSUME NEW i \in 1..Len(t), NEW j \in 1..Len(t), t[i] = t[j]
               PROVE  i = j
    BY DEF Once
  <2>1. i \in 1..(Len(s) + 1) /\ j \in 1..(Len(s) + 1)
    BY <1>1
  <2>2. ASSUME NEW n \in 1..(Len(s) + 1), n # k
        PROVE  t[n] # e
    <3>1. CASE n < k
      BY <1>1, <1>2, <1>3, <2>2, <3>1
    <3>2. CASE ~ (n < k)
      <4>1. n - 1 \in 1..Len(s)
        BY <1>2, <2>2, <3>2
      <4> QED BY <1>1, <1>3, <2>2, <3>2, <4>1
    <3> QED BY <3>1, <3>2
  <2>3. t[k] = e
    BY <1>1
  <2>4. CASE i = k \/ j = k
    BY <2>1, <2>2, <2>3, <2>4
  <2>5. CASE i # k /\ j # k
    <3> DEFINE f(n) == IF n < k THEN n ELSE n - 1
    <3>1. f(i) \in 1..Len(s) /\ f(j) \in 1..Len(s) /\ s[f(i)] = s[f(j)]
      BY <1>1, <1>2, <2>1, <2>5
    <3>2. f(i) = f(j)
      BY <3>1 DEF Once
    <3> QED BY <1>2, <2>1, <2>5, <3>2
  <2> QED BY <2>4, <2>5
<1>5. ASSUME NEW x \in ToSet(t)
       PROVE  x \in ToSet(s) \union {e}
  <2>1. PICK i \in 1..Len(t) : t[i] = x
    BY <1>1, InSeq
  <2>2. CASE i = k
    BY <1>1, <2>1, <2>2
  <2>3. CASE i # k
    <3> DEFINE n == IF i < k THEN i ELSE i - 1
    <3>1. n \in 1..Len(s) /\ s[n] = x
      BY <1>1, <1>2, <2>1, <2>3
    <3> QED BY <3>1, InSeq
  <2> QED BY <2>2, <2>3
<1>6. ASSUME NEW x \in ToSet(s) \union {e}
       PROVE  x \in ToSet(t)
  <2>1. CASE x = e
    <3>1. k \in 1..Len(t) /\ t[k] = x
      BY <1>1, <1>2, <2>1
    <3> QED BY <1>1, <3>1, InSeq
  <2>2. CASE x \in ToSet(s)
    <3>1. PICK n \in 1..Len(s) : s[n] = x
      BY <2>2, InSeq
    <3> DEFINE i == IF n < k THEN n ELSE n + 1
    <3>2. i \in 1..Len(t) /\ t[i] = x
      BY <1>1, <1>2, <3>1
    <3> QED BY <1>1, <3>2, InSeq
  <2> QED BY <2>1, <2>2
<1> QED BY <1>1, <1>4, <1>5, <1>6 DEF t

\* The walk of a sequence without repetition has seen its head.
LEMMA TailOnce ==
    ASSUME NEW S, NEW s \in Seq(S), Once(s), s # <<>>
    PROVE  /\ Tail(s) \in Seq(S) /\ Once(Tail(s)) /\ Head(s) \in ToSet(s)
           /\ ToSet(Tail(s)) = ToSet(s) \ {Head(s)}
<1>1. /\ Tail(s) \in Seq(S) /\ Len(s) \in Nat /\ Len(s) > 0 /\ Len(Tail(s)) = Len(s) - 1
      /\ Head(s) = s[1] /\ \A i \in 1..(Len(s) - 1) : Tail(s)[i] = s[i + 1]
  OBVIOUS
<1> DEFINE t == Tail(s)
<1> HIDE DEF t
<1>2. /\ t \in Seq(S) /\ Len(t) = Len(s) - 1 /\ \A i \in 1..(Len(s) - 1) : t[i] = s[i + 1]
  BY <1>1 DEF t
<1>3. Once(t)
  BY <1>1, <1>2 DEF Once
<1>4. ASSUME NEW x \in ToSet(t)
      PROVE  x \in ToSet(s) \ {Head(s)}
  <2>1. PICK i \in 1..Len(t) : t[i] = x
    BY <1>2, InSeq
  <2>2. i + 1 \in 1..Len(s) /\ s[i + 1] = x /\ 1 \in 1..Len(s) /\ i + 1 # 1
    BY <1>1, <1>2, <2>1
  <2> QED BY <1>1, <2>2, InSeq DEF Once
<1>5. ASSUME NEW x \in ToSet(s) \ {Head(s)}
      PROVE  x \in ToSet(t)
  <2>1. PICK n \in 1..Len(s) : s[n] = x
    BY InSeq
  <2>2. n - 1 \in 1..Len(t) /\ t[n - 1] = x
    BY <1>1, <1>2, <2>1
  <2> QED BY <1>2, <2>2, InSeq
<1>6. Head(s) \in ToSet(s)
  <2>1. 1 \in 1..Len(s)
    BY <1>1
  <2> QED BY <1>1, <2>1, InSeq
<1> QED BY <1>2, <1>3, <1>4, <1>5, <1>6 DEF t

\* What a walk puts back is put back once.
LEMMA AppendOnce ==
    ASSUME NEW S, NEW s \in Seq(S), Once(s), NEW e \in S, e \notin ToSet(s)
    PROVE  /\ Append(s, e) \in Seq(S) /\ Once(Append(s, e))
           /\ ToSet(Append(s, e)) = ToSet(s) \union {e}
<1> DEFINE t == Append(s, e)
<1>1. /\ t \in Seq(S) /\ Len(s) \in Nat /\ Len(t) = Len(s) + 1 /\ t[Len(s) + 1] = e
      /\ \A i \in 1..Len(s) : t[i] = s[i]
  OBVIOUS
<1> HIDE DEF t
<1>2. \A i \in 1..Len(s) : s[i] # e
  BY InSeq
<1>3. \A i \in 1..Len(t) : i \in 1..Len(s) \/ i = Len(s) + 1
  BY <1>1
<1>4. Once(t)
  BY <1>1, <1>2, <1>3 DEF Once
<1>5. ASSUME NEW x \in ToSet(t)
      PROVE  x \in ToSet(s) \union {e}
  <2>1. PICK i \in 1..Len(t) : t[i] = x
    BY <1>1, InSeq
  <2> QED BY <1>1, <1>3, <2>1, InSeq
<1>6. ASSUME NEW x \in ToSet(s) \union {e}
      PROVE  x \in ToSet(t)
  <2>1. CASE x = e
    <3>1. Len(s) + 1 \in 1..Len(t)
      BY <1>1
    <3> QED BY <1>1, <2>1, <3>1, InSeq
  <2>2. CASE x \in ToSet(s)
    <3>1. PICK n \in 1..Len(s) : s[n] = x
      BY <2>2, InSeq
    <3>2. n \in 1..Len(t) /\ t[n] = x
      BY <1>1, <3>1
    <3> QED BY <1>1, <3>2, InSeq
  <2> QED BY <2>1, <2>2
<1> QED BY <1>1, <1>4, <1>5, <1>6 DEF t

\* The walk of the queue in fair order meets each of its items once.
LEMMA DrainPermutes ==
    ASSUME TypeOK, BeginDrain, Once(queued), queued # <<>>
    PROVE  /\ loopPc' = "drain" /\ pending' \in Seq(Requests) /\ Once(pending')
           /\ ToSet(pending') = ToSet(queued)
<1> DEFINE n == Len(queued)
<1>1. queued \in Seq(Requests) /\ n \in Nat /\ DOMAIN queued = 1..n
  BY DEF TypeOK
<1>2. PICK pi \in [1..n -> 1..n] :
        Permutes(pi) /\ pending' = [i \in 1..n |-> queued[pi[i]]]
  BY <1>1 DEF BeginDrain
<1>3. \A i, j \in 1..n : pi[i] = pi[j] => i = j
  BY <1>2 DEF Permutes
<1>4. pi \in Surjection(1..n, 1..n)
  <2>1. pi \in Injection(1..n, 1..n)
    BY <1>3 DEF Injection, IsInjective
  <2>2. IsFiniteSet(1..n)
    BY <1>1, FS_Interval
  <2> QED BY <2>1, <2>2, FS_Injection
<1>5. \A k \in 1..n : \E i \in 1..n : pi[i] = k
  BY <1>4 DEF Surjection
<1>6. pending' \in [1..n -> Requests]
  BY <1>1, <1>2
<1>7. pending' \in Seq(Requests) /\ Len(pending') = n
  BY <1>1, <1>6
<1>8. Once(pending')
  <2> SUFFICES ASSUME NEW i \in 1..n, NEW j \in 1..n, pending'[i] = pending'[j]
               PROVE  i = j
    BY <1>7 DEF Once
  <2>1. pi[i] \in 1..n /\ pi[j] \in 1..n /\ queued[pi[i]] = queued[pi[j]]
    BY <1>2
  <2>2. pi[i] = pi[j]
    BY <2>1 DEF Once
  <2> QED BY <1>3, <2>2
<1>9. ASSUME NEW x
      PROVE  x \in ToSet(pending') <=> x \in ToSet(queued)
  <2>1. x \in ToSet(pending') <=> \E i \in 1..n : queued[pi[i]] = x
    <3>1. x \in ToSet(pending') <=> \E i \in 1..n : pending'[i] = x
      BY <1>7, InSeq
    <3>2. \A i \in 1..n : pending'[i] = queued[pi[i]]
      BY <1>2
    <3> QED BY <3>1, <3>2
  <2>2. x \in ToSet(queued) <=> \E k \in 1..n : queued[k] = x
    BY <1>1, InSeq
  <2> QED BY <1>2, <1>5, <2>1, <2>2
<1> QED BY <1>7, <1>8, <1>9 DEF BeginDrain

-----------------------------------------------------------------------------
(* The invariant.                                                           *)

\* A queue has each request once, also while drainQueue splits it.
QueuesOnce ==
    /\ Once(queued) /\ Once(pending) /\ Once(remaining)
    /\ ToSet(pending) \intersect ToSet(remaining) = {}
    /\ loopPc # "drain" => pending = <<>>

\* Who waits is in the queue or with a swap, and who is there waits or has a
\* cancellation on its way.
PlacedOnce ==
    /\ loopPc # "fanout" => fan = {}
    /\ \A r \in Requests :
         /\ r \in InQueue \/ AsWaiter(r) =>
              cpc[r] \in {"waiting", "cancelling"} /\ want[r] \in Models
         /\ cpc[r] = "waiting" => r \in InQueue \/ AsWaiter(r)
         /\ ~(r \in InQueue /\ AsWaiter(r))
         /\ \A m \in Models : r \in waiters[m] => want[r] = m /\ m \in active /\ r \notin fan

\* Whom the scheduler owes something to, and who has come at all.
Owing(r) == r \in InQueue \/ AsWaiter(r) \/ Served(r)
Came == {r \in Requests : cpc[r] # "idle"}

\* The requests that have come are finitely many, so they can be counted.
Counted ==
    /\ IInv /\ IsFiniteSet(Came) /\ ~shut
    /\ QueuesOnce /\ PlacedOnce /\ ReservationsExact /\ InFlightExact

\* Requests that never came are in no place.
LEMMA OwingCame ==
    ASSUME Counted
    PROVE  /\ {q \in Requests : Owing(q)} \subseteq Came
           /\ \A m \in Models :
                /\ IsFiniteSet({q \in Requests : want[q] = m /\ Owing(q)})
                /\ IsFiniteSet({q \in Requests : want[q] = m /\ Served(q)})
<1>1. ASSUME NEW q \in Requests, Owing(q)
      PROVE  q \in Came
  BY <1>1 DEF Counted, PlacedOnce, Owing, Served, Came
<1>2. \A m \in Models : {q \in Requests : want[q] = m /\ Owing(q)} \in SUBSET Came
  BY <1>1
<1>3. \A m \in Models : {q \in Requests : want[q] = m /\ Served(q)} \in SUBSET Came
  BY DEF Served, Came
<1>4. IsFiniteSet(Came)
  BY DEF Counted
<1>5. \A S \in SUBSET Came : IsFiniteSet(S)
  BY <1>4, FS_Subset
<1> QED BY <1>1, <1>2, <1>3, <1>5

\* The counts by whom they are about.
LEMMA ExactBy ==
    ASSUME Counted, NEW m \in Models
    PROVE  /\ reserved[m] = Cardinality({q \in Requests : want[q] = m /\ Owing(q)})
           /\ reserved[m] <= Limit[m]
           /\ inFlight[m] = Cardinality({q \in Requests : want[q] = m /\ Served(q)})
<1>1. {q \in Requests : want[q] = m /\ Owing(q)}
        = {q \in Requests : want[q] = m /\ (q \in InQueue \/ AsWaiter(q) \/ Served(q))}
  BY DEF Owing
<1>2. /\ reserved[m] = Cardinality({q \in Requests : want[q] = m /\
                          (q \in InQueue \/ AsWaiter(q) \/ Served(q))})
      /\ reserved[m] <= Limit[m]
  BY DEF Counted, ReservationsExact
<1>3. inFlight[m] = Cardinality({q \in Requests : want[q] = m /\ Served(q)})
  BY DEF Counted, InFlightExact
<1> QED BY <1>1, <1>2, <1>3

\* ... after a step.
LEMMA ReservedBy ==
    ASSUME \A m \in Models :
             /\ reserved'[m] = Cardinality({q \in Requests : want'[q] = m /\ Owing(q)'})
             /\ reserved'[m] <= Limit[m]
    PROVE  ReservationsExact'
<1>1. ASSUME NEW m \in Models
      PROVE  {q \in Requests : want'[q] = m /\ Owing(q)'}
               = {q \in Requests : want'[q] = m /\ (q \in InQueue' \/ AsWaiter(q)' \/ Served(q)')}
  BY DEF Owing
<1> QED BY <1>1 DEF ReservationsExact

\* A slot is reserved for one request more.
LEMMA SlotTaken ==
    ASSUME Counted, NEW r \in Requests, want[r] \in Models, want' = want,
           ~Owing(r), \A q \in Requests : Owing(q)' <=> (q = r \/ Owing(q)),
           reserved[want[r]] < Limit[want[r]],
           reserved' = [reserved EXCEPT ![want[r]] = @ + 1]
    PROVE  ReservationsExact'
<1> DEFINE was(m) == {q \in Requests : want[q] = m /\ Owing(q)}
<1>1. reserved \in [Models -> Int] /\ Limit \in [Models -> Nat \ {0}]
  BY LimitAssumption DEF Counted, IInv, TypeOK
<1>2. ASSUME NEW m \in Models
      PROVE  {q \in Requests : want'[q] = m /\ Owing(q)'}
               = IF m = want[r] THEN was(m) \union {r} ELSE was(m)
  OBVIOUS
<1>3. ASSUME NEW m \in Models
      PROVE  /\ reserved'[m] = Cardinality({q \in Requests : want'[q] = m /\ Owing(q)'})
             /\ reserved'[m] <= Limit[m]
  <2>1. IsFiniteSet(was(m)) /\ reserved[m] = Cardinality(was(m)) /\ reserved[m] <= Limit[m]
    BY OwingCame, ExactBy
  <2>2. r \notin was(m)
    OBVIOUS
  <2>3. Cardinality(was(m) \union {r}) = Cardinality(was(m)) + 1
    BY <2>1, <2>2, FS_AddElement
  <2> HIDE DEF was
  <2>4. CASE m = want[r]
    <3>1. reserved[m] \in Int /\ Limit[m] \in Nat /\ reserved'[m] = reserved[m] + 1
      BY <1>1, <2>4
    <3>2. reserved'[m] <= Limit[m]
      BY <2>1, <2>4, <3>1
    <3>3. reserved'[m] = Cardinality(was(m) \union {r})
      BY <2>1, <2>3, <2>4, <3>1
    <3> QED BY <1>2, <2>4, <3>2, <3>3
  <2>5. CASE m # want[r]
    BY <1>1, <1>2, <2>1, <2>5
  <2> QED BY <2>4, <2>5
<1> QED BY <1>3, ReservedBy

\* A slot is given back.
LEMMA SlotFreed ==
    ASSUME Counted, NEW r \in Requests, want[r] \in Models, want' = want,
           Owing(r), \A q \in Requests : Owing(q)' <=> (q # r /\ Owing(q)),
           reserved' = [reserved EXCEPT ![want[r]] = @ - 1]
    PROVE  ReservationsExact'
<1> DEFINE was(m) == {q \in Requests : want[q] = m /\ Owing(q)}
<1>1. reserved \in [Models -> Int] /\ Limit \in [Models -> Nat \ {0}]
  BY LimitAssumption DEF Counted, IInv, TypeOK
<1>2. ASSUME NEW m \in Models
      PROVE  {q \in Requests : want'[q] = m /\ Owing(q)'}
               = IF m = want[r] THEN was(m) \ {r} ELSE was(m)
  OBVIOUS
<1>3. ASSUME NEW m \in Models
      PROVE  /\ reserved'[m] = Cardinality({q \in Requests : want'[q] = m /\ Owing(q)'})
             /\ reserved'[m] <= Limit[m]
  <2>1. IsFiniteSet(was(m)) /\ reserved[m] = Cardinality(was(m)) /\ reserved[m] <= Limit[m]
    BY OwingCame, ExactBy
  <2>2. m = want[r] => r \in was(m)
    OBVIOUS
  <2>3. m = want[r] => Cardinality(was(m) \ {r}) = Cardinality(was(m)) - 1
    BY <2>1, <2>2, FS_RemoveElement
  <2> HIDE DEF was
  <2>4. CASE m = want[r]
    <3>1. reserved[m] \in Int /\ Limit[m] \in Nat /\ reserved'[m] = reserved[m] - 1
      BY <1>1, <2>4
    <3>2. reserved'[m] <= Limit[m]
      BY <2>1, <2>4, <3>1
    <3>3. reserved'[m] = Cardinality(was(m) \ {r})
      BY <2>1, <2>3, <2>4, <3>1
    <3> QED BY <1>2, <2>4, <3>2, <3>3
  <2>5. CASE m # want[r]
    BY <1>1, <1>2, <2>1, <2>5
  <2> QED BY <2>4, <2>5
<1> QED BY <1>3, ReservedBy

\* Nothing is owed to others than before.
LEMMA SlotsKept ==
    ASSUME Counted, reserved' = reserved,
           \A q \in Requests : Owing(q)' <=> Owing(q),
           \A q \in Requests : Owing(q) => want'[q] = want[q]
    PROVE  ReservationsExact'
<1>1. ASSUME NEW m \in Models
      PROVE  {q \in Requests : want'[q] = m /\ Owing(q)'} = {q \in Requests : want[q] = m /\ Owing(q)}
  OBVIOUS
<1> QED BY <1>1, ExactBy, ReservedBy

\* A handler starts, a handler has returned, and neither.
LEMMA FlightStarts ==
    ASSUME Counted, NEW r \in Requests, want[r] \in Models, want' = want,
           ~Served(r), \A q \in Requests : Served(q)' <=> (q = r \/ Served(q)),
           inFlight' = [inFlight EXCEPT ![want[r]] = @ + 1]
    PROVE  InFlightExact'
<1> DEFINE was(m) == {q \in Requests : want[q] = m /\ Served(q)}
<1>1. inFlight \in [Models -> Int]
  BY DEF Counted, IInv, TypeOK
<1>2. ASSUME NEW m \in Models
      PROVE  {q \in Requests : want'[q] = m /\ Served(q)'}
               = IF m = want[r] THEN was(m) \union {r} ELSE was(m)
  OBVIOUS
<1>3. ASSUME NEW m \in Models
      PROVE  inFlight'[m] = Cardinality({q \in Requests : want'[q] = m /\ Served(q)'})
  <2>1. IsFiniteSet(was(m)) /\ inFlight[m] = Cardinality(was(m))
    BY OwingCame, ExactBy
  <2>2. r \notin was(m)
    OBVIOUS
  <2>3. Cardinality(was(m) \union {r}) = Cardinality(was(m)) + 1
    BY <2>1, <2>2, FS_AddElement
  <2> HIDE DEF was
  <2>4. CASE m = want[r]
    BY <1>1, <1>2, <2>1, <2>3, <2>4
  <2>5. CASE m # want[r]
    BY <1>1, <1>2, <2>1, <2>5
  <2> QED BY <2>4, <2>5
<1> QED BY <1>3 DEF InFlightExact

\* The end of a handler has been seen.
LEMMA FlightEnds ==
    ASSUME Counted, NEW r \in Requests, want[r] \in Models, want' = want,
           Served(r), \A q \in Requests : Served(q)' <=> (q # r /\ Served(q)),
           inFlight' = [inFlight EXCEPT ![want[r]] = @ - 1]
    PROVE  InFlightExact'
<1> DEFINE was(m) == {q \in Requests : want[q] = m /\ Served(q)}
<1>1. inFlight \in [Models -> Int]
  BY DEF Counted, IInv, TypeOK
<1>2. ASSUME NEW m \in Models
      PROVE  {q \in Requests : want'[q] = m /\ Served(q)'}
               = IF m = want[r] THEN was(m) \ {r} ELSE was(m)
  OBVIOUS
<1>3. ASSUME NEW m \in Models
      PROVE  inFlight'[m] = Cardinality({q \in Requests : want'[q] = m /\ Served(q)'})
  <2>1. IsFiniteSet(was(m)) /\ inFlight[m] = Cardinality(was(m))
    BY OwingCame, ExactBy
  <2>2. m = want[r] => r \in was(m)
    OBVIOUS
  <2>3. m = want[r] => Cardinality(was(m) \ {r}) = Cardinality(was(m)) - 1
    BY <2>1, <2>2, FS_RemoveElement
  <2> HIDE DEF was
  <2>4. CASE m = want[r]
    BY <1>1, <1>2, <2>1, <2>3, <2>4
  <2>5. CASE m # want[r]
    BY <1>1, <1>2, <2>1, <2>5
  <2> QED BY <2>4, <2>5
<1> QED BY <1>3 DEF InFlightExact

\* Handlers that run go on.
LEMMA FlightsKept ==
    ASSUME Counted, inFlight' = inFlight,
           \A q \in Requests : Served(q)' <=> Served(q),
           \A q \in Requests : Served(q) => want'[q] = want[q]
    PROVE  InFlightExact'
<1>1. ASSUME NEW m \in Models
      PROVE  {q \in Requests : want'[q] = m /\ Served(q)'} = {q \in Requests : want[q] = m /\ Served(q)}
  OBVIOUS
<1> QED BY <1>1, ExactBy DEF InFlightExact

-----------------------------------------------------------------------------
(* The steps.                                                               *)

\* What a step has to keep.
Kept == QueuesOnce' /\ PlacedOnce' /\ ReservationsExact' /\ InFlightExact'

\* Nothing the scheduler holds moves: the steps of swaps, processes and time.
LEMMA OutsideCounts ==
    ASSUME Counted,
           UNCHANGED <<cpc, want, active, waiters, queued, pending, remaining, fan,
                       reserved, inFlight, loopPc>>
    PROVE  Kept
<1>1. QueuesOnce'
  BY DEF Counted, QueuesOnce
<1>2. PlacedOnce'
  BY DEF Counted, PlacedOnce, InQueue, AsWaiter
<1>3. \A q \in Requests : (Owing(q)' <=> Owing(q)) /\ (Served(q)' <=> Served(q))
  BY DEF Owing, Served, InQueue, AsWaiter
<1>4. ReservationsExact' /\ InFlightExact'
  BY <1>3, SlotsKept, FlightsKept
<1> QED BY <1>1, <1>2, <1>4 DEF Kept

\* A client comes, leaves, or returns from its handler.
LEMMA ClientCounts ==
    ASSUME Counted, NEW r \in Requests, ClientStep(r)
    PROVE  Kept
<1>1. UNCHANGED <<active, waiters, queued, pending, remaining, fan, reserved, inFlight, loopPc>>
  BY DEF ClientStep, Arrive, Disconnect, ServeReturns, LeaveOnShutdown, Counted, swapTable, queueVars,
     counters, walkVars
<1>2. \/ \E m \in Ids : Arrive(r, m)
      \/ Disconnect(r)
      \/ ServeReturns(r)
  BY DEF ClientStep, LeaveOnShutdown, Counted
<1>3. cpc \in [Requests -> ClientPcs] /\ want \in [Requests -> Ids]
  BY DEF Counted, IInv, TypeOK
<1>4. /\ \A q \in Requests : q # r => cpc'[q] = cpc[q] /\ want'[q] = want[q]
      /\ cpc[r] = "idle" \/ want'[r] = want[r]
      /\ \/ cpc[r] \in {"idle", "arriving"} /\ cpc'[r] \in {"arriving", "done"}
         \/ cpc[r] = "waiting" /\ cpc'[r] = "cancelling"
         \/ cpc[r] = "serving" /\ cpc'[r] = "finishing"
  BY <1>2, <1>3 DEF Arrive, Disconnect, ServeReturns
<1>5. QueuesOnce'
  BY <1>1 DEF Counted, QueuesOnce
<1>6. InQueue' = InQueue /\ \A q \in Requests : AsWaiter(q)' <=> AsWaiter(q)
  BY <1>1 DEF InQueue, AsWaiter
<1>7. PlacedOnce'
  BY <1>1, <1>4, <1>6 DEF Counted, PlacedOnce, AsWaiter
<1>8. \A q \in Requests : /\ (Served(q)' <=> Served(q)) /\ (Owing(q)' <=> Owing(q))
                          /\ Owing(q) \/ Served(q) => want'[q] = want[q]
  BY <1>4, <1>6 DEF Counted, PlacedOnce, Served, Owing
<1>9. ReservationsExact' /\ InFlightExact'
  BY <1>1, <1>8, SlotsKept, FlightsKept
<1> QED BY <1>5, <1>7, <1>9 DEF Kept

\* A request that only arrives is nowhere.
LEMMA ArrivingIsFree ==
    ASSUME Counted, NEW r \in Requests, cpc[r] \in {"idle", "arriving", "done"}
    PROVE  ~Owing(r) /\ ~Served(r)
BY DEF Counted, PlacedOnce, Owing, Served

\* The ways OnRequest refuses or misses a client.
LEMMA RejectCounts ==
    ASSUME Counted, NEW r \in Requests, RejectRequest(r) \/ AdmitGone(r)
    PROVE  Kept
<1>1. /\ UNCHANGED <<want, active, waiters, queued, pending, remaining, fan, reserved, inFlight, loopPc>>
      /\ cpc[r] = "arriving" /\ cpc' = [cpc EXCEPT ![r] = cpc'[r]] /\ cpc'[r] \in {"done", "cancelling"}
  BY DEF RejectRequest, AdmitGone, Counted, IInv, TypeOK, swapTable, queueVars, counters, walkVars
<1>2. cpc \in [Requests -> ClientPcs]
  BY DEF Counted, IInv, TypeOK
<1>3. QueuesOnce'
  BY <1>1 DEF Counted, QueuesOnce
<1>4. InQueue' = InQueue /\ \A q \in Requests : AsWaiter(q)' <=> AsWaiter(q)
  BY <1>1 DEF InQueue, AsWaiter
<1>5. PlacedOnce'
  BY <1>1, <1>2, <1>4 DEF Counted, PlacedOnce, AsWaiter
<1>6. \A q \in Requests : (Served(q)' <=> Served(q)) /\ (Owing(q)' <=> Owing(q))
  BY <1>1, <1>2, <1>4 DEF Served, Owing
<1>7. ReservationsExact' /\ InFlightExact'
  BY <1>1, <1>6, SlotsKept, FlightsKept
<1> QED BY <1>3, <1>5, <1>7 DEF Kept

\* OnRequest: the request joins a swap.
LEMMA JoinCounts ==
    ASSUME Counted, NEW r \in Requests, RequestJoins(r)
    PROVE  Kept
<1>1. /\ UNCHANGED <<want, active, queued, pending, remaining, fan, inFlight, loopPc>>
      /\ loopPc = "select" /\ cpc[r] = "arriving" /\ want[r] \in Models /\ want[r] \in active
      /\ reserved[want[r]] < Limit[want[r]]
      /\ cpc' = [cpc EXCEPT ![r] = "waiting"]
      /\ reserved' = [reserved EXCEPT ![want[r]] = @ + 1]
      /\ waiters' = [waiters EXCEPT ![want[r]] = @ \union {r}]
  BY DEF RequestJoins, Admitted, Reserve, Join, walkVars
<1>2. /\ cpc \in [Requests -> ClientPcs] /\ waiters \in [Models -> SUBSET Requests]
  BY DEF Counted, IInv, TypeOK
<1>3. QueuesOnce'
  BY <1>1 DEF Counted, QueuesOnce
<1>4. InQueue' = InQueue /\ \A q \in Requests : AsWaiter(q)' <=> (q = r \/ AsWaiter(q))
  BY <1>1, <1>2 DEF InQueue, AsWaiter
<1>5. ~Owing(r) /\ ~Served(r) /\ fan = {}
  BY <1>1, ArrivingIsFree DEF Counted, PlacedOnce
<1>6. PlacedOnce'
  <2>1. /\ \A q \in Requests : cpc'[q] = IF q = r THEN "waiting" ELSE cpc[q]
        /\ \A m \in Models : waiters'[m] = IF m = want[r] THEN waiters[m] \union {r} ELSE waiters[m]
    BY <1>1, <1>2
  <2> QED BY <1>1, <1>4, <1>5, <2>1 DEF Counted, PlacedOnce, Owing
<1>7. \A q \in Requests : (Served(q)' <=> Served(q)) /\ (Owing(q)' <=> (q = r \/ Owing(q)))
  BY <1>1, <1>2, <1>4, <1>5 DEF Served, Owing
<1>8. ReservationsExact'
  BY <1>1, <1>5, <1>7, SlotTaken
<1>9. InFlightExact'
  BY <1>1, <1>7, FlightsKept
<1> QED BY <1>3, <1>6, <1>8, <1>9 DEF Kept

\* OnRequest: the request is served at once, or is gone again.
LEMMA FastCounts ==
    ASSUME Counted, NEW r \in Requests, RequestFastPath(r)
    PROVE  Kept
<1>1. /\ UNCHANGED <<want, active, waiters, queued, pending, remaining, fan, loopPc>>
      /\ loopPc = "select" /\ cpc[r] = "arriving" /\ want[r] \in Models
      /\ reserved[want[r]] < Limit[want[r]]
  BY DEF RequestFastPath, Admitted, walkVars, swapTable
<1>2. cpc \in [Requests -> ClientPcs]
  BY DEF Counted, IInv, TypeOK
<1>3. QueuesOnce'
  BY <1>1 DEF Counted, QueuesOnce
<1>4. InQueue' = InQueue /\ \A q \in Requests : AsWaiter(q)' <=> AsWaiter(q)
  BY <1>1 DEF InQueue, AsWaiter
<1>5. ~Owing(r) /\ ~Served(r)
  BY <1>1, ArrivingIsFree
<1>6. ASSUME NEW pc \in {"serving", "cancelling", "done"}, cpc' = [cpc EXCEPT ![r] = pc]
      PROVE  /\ PlacedOnce'
             /\ \A q \in Requests : q # r => (Served(q)' <=> Served(q)) /\ (Owing(q)' <=> Owing(q))
             /\ Served(r)' <=> pc = "serving"
             /\ Owing(r)' <=> pc = "serving"
  <2>1. \A q \in Requests : cpc'[q] = IF q = r THEN pc ELSE cpc[q]
    BY <1>2, <1>6
  <2>2. PlacedOnce'
    BY <1>1, <1>4, <1>5, <2>1 DEF Counted, PlacedOnce, Owing, AsWaiter
  <2> QED BY <1>4, <1>5, <2>1, <2>2 DEF Served, Owing
<1>7. CASE /\ cpc' = [cpc EXCEPT ![r] = "serving"]
           /\ reserved' = [reserved EXCEPT ![want[r]] = @ + 1]
           /\ inFlight' = [inFlight EXCEPT ![want[r]] = @ + 1]
  <2>1. PlacedOnce' /\ \A q \in Requests : /\ Served(q)' <=> (q = r \/ Served(q))
                                           /\ Owing(q)' <=> (q = r \/ Owing(q))
    BY <1>6, <1>7
  <2>2. ReservationsExact' /\ InFlightExact'
    BY <1>1, <1>5, <1>7, <2>1, SlotTaken, FlightStarts
  <2> QED BY <1>3, <2>1, <2>2 DEF Kept
<1>8. CASE /\ cpc' = [cpc EXCEPT ![r] = "cancelling"] \/ cpc' = [cpc EXCEPT ![r] = "done"]
           /\ UNCHANGED <<reserved, inFlight>>
  <2>1. PlacedOnce' /\ \A q \in Requests : (Served(q)' <=> Served(q)) /\ (Owing(q)' <=> Owing(q))
    BY <1>5, <1>6, <1>8
  <2>2. ReservationsExact' /\ InFlightExact'
    BY <1>1, <1>8, <2>1, SlotsKept, FlightsKept
  <2> QED BY <1>3, <2>1, <2>2 DEF Kept
<1> QED BY <1>7, <1>8 DEF RequestFastPath

\* enqueue: the request is in the queue once.
LEMMA EnqueueOnce ==
    ASSUME TypeOK, NEW r \in Requests, enqueue(r), Once(queued), r \notin ToSet(queued)
    PROVE  /\ queued' \in Seq(Requests) /\ Once(queued')
           /\ ToSet(queued') = ToSet(queued) \union {r}
<1> DEFINE lower == {j \in DOMAIN queued :
                       Priority[want[queued[j]]] < Priority[want[r]]}
           place == CHOOSE k \in 1..(Len(queued) + 1) :
                       /\ k \in lower \/ k = Len(queued) + 1
                       /\ \A j \in lower : k <= j
<1>1. queued \in Seq(Requests) /\ Len(queued) \in Nat /\ lower \subseteq 1..Len(queued)
  BY DEF TypeOK
<1>2. \E k \in 1..(Len(queued) + 1) :
         /\ k \in lower \/ k = Len(queued) + 1
         /\ \A j \in lower : k <= j
  <2> HIDE DEF lower
  <2>1. CASE lower = {}
    <3> WITNESS Len(queued) + 1 \in 1..(Len(queued) + 1)
    <3> QED BY <2>1
  <2>2. CASE lower # {}
    <3>1. lower \in SUBSET Nat
      BY <1>1
    <3>2. PICK k \in lower : \A j \in lower : k <= j
      BY <2>2, <3>1, LeastElement
    <3>3. k \in 1..(Len(queued) + 1)
      BY <1>1
    <3> QED BY <3>2, <3>3
  <2> QED BY <2>1, <2>2
<1>3. place \in 1..(Len(queued) + 1)
  <2> HIDE DEF lower
  <2> QED BY <1>2
<1>4. queued' = InsertAt(queued, place, r)
  BY DEF enqueue
<1> HIDE DEF place
<1> QED BY ONLY <1>1, <1>3, <1>4, r \in Requests, Once(queued), r \notin ToSet(queued), InsertAtOnce

\* OnRequest: the request is queued.
LEMMA QueueCounts ==
    ASSUME Counted, NEW r \in Requests, RequestQueued(r)
    PROVE  Kept
<1>1. /\ UNCHANGED <<want, active, waiters, pending, remaining, fan, inFlight, loopPc>>
      /\ loopPc = "select" /\ cpc[r] = "arriving" /\ want[r] \in Models
      /\ reserved[want[r]] < Limit[want[r]]
      /\ cpc' = [cpc EXCEPT ![r] = "waiting"]
      /\ reserved' = [reserved EXCEPT ![want[r]] = @ + 1]
      /\ enqueue(r)
  BY DEF RequestQueued, Admitted, Reserve, walkVars, swapTable
<1>2. cpc \in [Requests -> ClientPcs]
  BY DEF Counted, IInv, TypeOK
<1>3. ~Owing(r) /\ ~Served(r) /\ fan = {}
  BY <1>1, ArrivingIsFree DEF Counted, PlacedOnce
<1>4. r \notin ToSet(queued)
  BY <1>1, <1>3 DEF Owing, InQueue
<1>5. Once(queued') /\ ToSet(queued') = ToSet(queued) \union {r}
  BY <1>1, <1>4, EnqueueOnce DEF Counted, IInv, QueuesOnce
<1>6. QueuesOnce'
  BY <1>1, <1>5 DEF Counted, QueuesOnce
<1>7. InQueue' = InQueue \union {r} /\ \A q \in Requests : AsWaiter(q)' <=> AsWaiter(q)
  BY <1>1, <1>5 DEF InQueue, AsWaiter
<1>8. PlacedOnce'
  <2>1. \A q \in Requests : cpc'[q] = IF q = r THEN "waiting" ELSE cpc[q]
    BY <1>1, <1>2
  <2> QED BY <1>1, <1>3, <1>7, <2>1 DEF Counted, PlacedOnce, Owing, AsWaiter
<1>9. \A q \in Requests : (Served(q)' <=> Served(q)) /\ (Owing(q)' <=> (q = r \/ Owing(q)))
  BY <1>1, <1>2, <1>3, <1>7 DEF Served, Owing
<1>10. ReservationsExact'
  BY <1>1, <1>3, <1>9, SlotTaken
<1>11. InFlightExact'
  BY <1>1, <1>9, FlightsKept
<1> QED BY <1>6, <1>8, <1>10, <1>11 DEF Kept

\* A model without an active swap has no waiters, so startSwap overwrites none.
LEMMA NewSwapIsEmpty ==
    ASSUME Counted, NEW m \in Models, m \notin active
    PROVE  waiters[m] = {}
<1>1. waiters[m] \subseteq Requests
  BY DEF Counted, IInv, TypeOK
<1> QED BY <1>1 DEF Counted, PlacedOnce

\* OnRequest: the request starts a swap.
LEMMA StartCounts ==
    ASSUME Counted, NEW r \in Requests, RequestStartsSwap(r)
    PROVE  Kept
<1>1. /\ UNCHANGED <<want, queued, pending, remaining, fan, inFlight, loopPc>>
      /\ loopPc = "select" /\ cpc[r] = "arriving" /\ want[r] \in Models /\ want[r] \notin active
      /\ reserved[want[r]] < Limit[want[r]]
      /\ cpc' = [cpc EXCEPT ![r] = "waiting"]
      /\ reserved' = [reserved EXCEPT ![want[r]] = @ + 1]
      /\ active' = active \union {want[r]}
      /\ waiters' = [waiters EXCEPT ![want[r]] = {r}]
  BY DEF RequestStartsSwap, Admitted, Reserve, startSwap, walkVars
<1>2. /\ cpc \in [Requests -> ClientPcs] /\ waiters \in [Models -> SUBSET Requests]
  BY DEF Counted, IInv, TypeOK
<1>3. QueuesOnce'
  BY <1>1 DEF Counted, QueuesOnce
<1>4. ~Owing(r) /\ ~Served(r) /\ fan = {} /\ waiters[want[r]] = {}
  BY <1>1, ArrivingIsFree, NewSwapIsEmpty DEF Counted, PlacedOnce
<1>5. InQueue' = InQueue /\ \A q \in Requests : AsWaiter(q)' <=> (q = r \/ AsWaiter(q))
  BY <1>1, <1>2, <1>4 DEF InQueue, AsWaiter
<1>6. PlacedOnce'
  <2>1. /\ \A q \in Requests : cpc'[q] = IF q = r THEN "waiting" ELSE cpc[q]
        /\ \A m \in Models : waiters'[m] = IF m = want[r] THEN {r} ELSE waiters[m]
    BY <1>1, <1>2
  <2> QED BY <1>1, <1>4, <1>5, <2>1 DEF Counted, PlacedOnce, Owing
<1>7. \A q \in Requests : (Served(q)' <=> Served(q)) /\ (Owing(q)' <=> (q = r \/ Owing(q)))
  BY <1>1, <1>2, <1>4, <1>5 DEF Served, Owing
<1>8. ReservationsExact'
  BY <1>1, <1>4, <1>7, SlotTaken
<1>9. InFlightExact'
  BY <1>1, <1>7, FlightsKept
<1> QED BY <1>3, <1>6, <1>8, <1>9 DEF Kept

\* OnCancel: the request is in no queue and on no swap any more, and the slot
\* it held, if it held one, is free.
LEMMA CancelCounts ==
    ASSUME Counted, NEW r \in Requests, OnCancel(r)
    PROVE  Kept
<1>1. /\ UNCHANGED <<want, active, pending, remaining, fan, inFlight, loopPc>>
      /\ loopPc = "select" /\ cpc[r] = "cancelling"
      /\ queued' = RemoveFirst(queued, r)
      /\ waiters' = [m \in Models |-> waiters[m] \ {r}]
      /\ cpc' = [cpc EXCEPT ![r] = "done"]
      /\ reserved' = IF r \in ToSet(queued) \/ \E a \in active : r \in waiters[a]
                     THEN [reserved EXCEPT ![want[r]] = @ - 1] ELSE reserved
  BY DEF OnCancel, walkVars
<1>2. /\ cpc \in [Requests -> ClientPcs] /\ waiters \in [Models -> SUBSET Requests]
      /\ active \subseteq Models
  BY DEF Counted, IInv, TypeOK
<1>3. Once(queued') /\ ToSet(queued') = ToSet(queued) \ {r}
  <2>1. queued \in Seq(Requests) /\ Once(queued)
    BY DEF Counted, IInv, TypeOK, QueuesOnce
  <2> QED BY <1>1, <2>1, RemoveFirstOnce
<1>4. QueuesOnce'
  BY <1>1, <1>3 DEF Counted, QueuesOnce
<1>5. InQueue = ToSet(queued) /\ InQueue' = InQueue \ {r} /\ fan = {}
  BY <1>1, <1>3 DEF Counted, PlacedOnce, InQueue
<1>6. \A q \in Requests : AsWaiter(q)' <=> (q # r /\ AsWaiter(q))
  BY <1>1, <1>5 DEF AsWaiter
<1>7. \A q \in Requests : cpc'[q] = IF q = r THEN "done" ELSE cpc[q]
  BY <1>1, <1>2
<1>8. PlacedOnce'
  <2>1. \A m \in Models : waiters'[m] \subseteq waiters[m]
    BY <1>1
  <2> QED BY <1>1, <1>5, <1>6, <1>7, <2>1 DEF Counted, PlacedOnce
<1>9. /\ \A q \in Requests : Served(q)' <=> Served(q)
      /\ \A q \in Requests : Owing(q)' <=> (q # r /\ Owing(q))
  BY <1>1, <1>5, <1>6, <1>7 DEF Served, Owing
<1>10. Owing(r) <=> (r \in ToSet(queued) \/ \E a \in active : r \in waiters[a])
  BY <1>1, <1>2, <1>5 DEF Counted, PlacedOnce, Owing, AsWaiter, Served
<1>11. Owing(r) => want[r] \in Models
  BY <1>1 DEF Counted, PlacedOnce, Owing, Served
<1>12. ReservationsExact'
  <2>1. CASE Owing(r)
    BY <1>1, <1>9, <1>10, <1>11, <2>1, SlotFreed
  <2>2. CASE ~Owing(r)
    BY <1>1, <1>9, <1>10, <2>2, SlotsKept
  <2> QED BY <2>1, <2>2
<1>13. InFlightExact'
  BY <1>1, <1>9, FlightsKept
<1> QED BY <1>4, <1>8, <1>12, <1>13 DEF Kept

\* The walk of the queue that ends a handler starts with what was queued.
LEMMA DrainBeginCounts ==
    ASSUME Counted, loopPc # "drain", BeginDrain, UNCHANGED <<queued, remaining>>
    PROVE  QueuesOnce' /\ InQueue' = InQueue /\ loopPc' \in {"drain", "select"}
<1>1. remaining = <<>> /\ pending = <<>> /\ ToSet(remaining) = {} /\ Once(queued)
  BY DEF Counted, IInv, KeptIsWatched, QueuesOnce, ToSet
<1>2. InQueue = ToSet(queued)
  BY DEF InQueue
<1>3. CASE queued = <<>>
  <2>1. loopPc' = "select" /\ pending' = <<>>
    BY <1>1, <1>3 DEF BeginDrain
  <2> QED BY <1>1, <1>2, <2>1 DEF Counted, QueuesOnce, InQueue
<1>4. CASE queued # <<>>
  <2>1. /\ loopPc' = "drain" /\ Once(pending')
        /\ ToSet(pending') = ToSet(queued)
    BY <1>1, <1>4, DrainPermutes DEF Counted, IInv
  <2>2. ToSet(remaining') = {} /\ Once(remaining') /\ Once(queued')
    BY <1>1 DEF Once, Counted, QueuesOnce
  <2> QED BY <1>2, <2>1, <2>2 DEF QueuesOnce, InQueue
<1> QED BY <1>3, <1>4

\* OnSwapDone: the waiters of the swap are those to answer now.
LEMMA SwapDoneCounts ==
    ASSUME Counted, NEW s \in SwapIds, OnSwapDone(s)
    PROVE  Kept
<1> DEFINE m == swap[s].model
<1>1. /\ UNCHANGED <<cpc, want, queued, pending, remaining, reserved, inFlight>>
      /\ loopPc = "select"
  BY DEF OnSwapDone, clientVars, queueVars, counters
<1>2. CASE m \notin active
  <2>1. UNCHANGED <<active, waiters, loopPc, fan>>
    BY <1>2 DEF OnSwapDone, swapTable
  <2> QED BY <1>1, <2>1, OutsideCounts
<1>3. CASE m \in active
  <2>1. /\ active' = active \ {m} /\ fan' = waiters[m] /\ loopPc' = "fanout"
        /\ waiters' = [waiters EXCEPT ![m] = {}]
    BY <1>3 DEF OnSwapDone
  <2>2. /\ waiters \in [Models -> SUBSET Requests] /\ m \in Models
    BY <1>3 DEF Counted, IInv, TypeOK
  <2> HIDE DEF m
  <2>3. fan = {} /\ \A n \in Models : waiters'[n] = IF n = m THEN {} ELSE waiters[n]
    BY <1>1, <2>1, <2>2 DEF Counted, PlacedOnce
  <2>4. InQueue' = InQueue /\ QueuesOnce'
    BY <1>1, <2>1 DEF Counted, QueuesOnce, InQueue
  <2>5. \A q \in Requests : AsWaiter(q)' <=> AsWaiter(q)
    BY <2>1, <2>2, <2>3 DEF AsWaiter
  <2>6. PlacedOnce'
    BY <1>1, <2>1, <2>2, <2>3, <2>4, <2>5 DEF Counted, PlacedOnce
  <2>7. \A q \in Requests : (Served(q)' <=> Served(q)) /\ (Owing(q)' <=> Owing(q))
    BY <1>1, <2>4, <2>5 DEF Served, Owing
  <2>8. ReservationsExact' /\ InFlightExact'
    BY <1>1, <2>7, SlotsKept, FlightsKept
  <2> QED BY <2>4, <2>6, <2>8 DEF Kept
<1> QED BY <1>2, <1>3

\* Where GrantError and grantHandler leave a request that waits or has left:
\* it is served and its slot is kept, or its slot is released.
LEMMA GrantOrRelease ==
    ASSUME Counted, NEW r \in Requests, cpc[r] \in {"waiting", "cancelling"},
           \/ GrantError(r) /\ UNCHANGED inFlight
           \/ grantHandler(r)
    PROVE  \/ /\ cpc' = [cpc EXCEPT ![r] = "serving"] /\ UNCHANGED reserved
              /\ inFlight' = [inFlight EXCEPT ![want[r]] = @ + 1]
           \/ /\ cpc' = [cpc EXCEPT ![r] = cpc'[r]] /\ cpc'[r] \in {"done", "cancelling"}
              /\ reserved' = [reserved EXCEPT ![want[r]] = @ - 1] /\ UNCHANGED inFlight
<1>1. cpc \in [Requests -> ClientPcs]
  BY DEF Counted, IInv, TypeOK
<1>2. CASE GrantError(r) /\ UNCHANGED inFlight
  BY <1>1, <1>2 DEF GrantError
<1>3. CASE grantHandler(r)
  BY <1>1, <1>3 DEF GrantError, grantHandler
<1> QED BY <1>2, <1>3

\* The answer to a request that leaves the queue or the waiters of a swap.
LEMMA AnswerExact ==
    ASSUME Counted, NEW r \in Requests, r \in InQueue \/ AsWaiter(r), want' = want,
           \/ GrantError(r) /\ UNCHANGED inFlight
           \/ grantHandler(r),
           InQueue' = InQueue \ {r}, \A q \in Requests : AsWaiter(q)' <=> (q # r /\ AsWaiter(q))
    PROVE  /\ ReservationsExact' /\ InFlightExact'
           /\ \A q \in Requests : q # r => cpc'[q] = cpc[q]
           /\ cpc'[r] \in {"serving", "done", "cancelling"}
<1>1. cpc[r] \in {"waiting", "cancelling"} /\ want[r] \in Models /\ Owing(r) /\ ~Served(r)
  BY DEF Counted, PlacedOnce, Owing, Served
<1>2. cpc \in [Requests -> ClientPcs]
  BY DEF Counted, IInv, TypeOK
<1>3. CASE /\ cpc' = [cpc EXCEPT ![r] = "serving"] /\ UNCHANGED reserved
           /\ inFlight' = [inFlight EXCEPT ![want[r]] = @ + 1]
  <2>1. \A q \in Requests : cpc'[q] = IF q = r THEN "serving" ELSE cpc[q]
    BY <1>2, <1>3
  <2>2. \A q \in Requests : (Served(q)' <=> (q = r \/ Served(q))) /\ (Owing(q)' <=> Owing(q))
    BY <1>1, <2>1 DEF Served, Owing
  <2>3. ReservationsExact'
    BY <1>3, <2>2, SlotsKept
  <2>4. InFlightExact'
    BY <1>1, <1>3, <2>2, FlightStarts
  <2> QED BY <2>1, <2>3, <2>4
<1>4. CASE /\ cpc' = [cpc EXCEPT ![r] = cpc'[r]] /\ cpc'[r] \in {"done", "cancelling"}
           /\ reserved' = [reserved EXCEPT ![want[r]] = @ - 1] /\ UNCHANGED inFlight
  <2>1. \A q \in Requests : q # r => cpc'[q] = cpc[q]
    BY <1>2, <1>4
  <2>2. /\ \A q \in Requests : Served(q)' <=> Served(q)
        /\ \A q \in Requests : Owing(q)' <=> (q # r /\ Owing(q))
    BY <1>1, <1>4, <2>1 DEF Served, Owing
  <2>3. ReservationsExact'
    BY <1>1, <1>4, <2>2, SlotFreed
  <2>4. InFlightExact'
    BY <1>4, <2>2, FlightsKept
  <2> QED BY <1>4, <2>1, <2>3, <2>4
<1> QED BY <1>1, <1>3, <1>4, GrantOrRelease

\* One waiter of the list a handler walks.
LEMMA AnswerWaiterCounts ==
    ASSUME Counted, NEW r \in Requests, AnswerWaiter(r)
    PROVE  Kept
<1>1. /\ UNCHANGED <<want, active, waiters, queued, pending, remaining, loopPc>>
      /\ loopPc = "fanout" /\ r \in fan /\ fan' = fan \ {r}
      /\ \/ GrantError(r) /\ UNCHANGED inFlight
         \/ grantHandler(r)
  BY DEF AnswerWaiter, swapTable, queueVars
<1>2. AsWaiter(r) /\ r \notin InQueue /\ \A m \in Models : r \notin waiters[m]
  BY <1>1 DEF Counted, PlacedOnce, AsWaiter
<1>3. InQueue' = InQueue \ {r} /\ QueuesOnce'
  BY <1>1, <1>2 DEF Counted, QueuesOnce, InQueue
<1>4. \A q \in Requests : AsWaiter(q)' <=> (q # r /\ AsWaiter(q))
  BY <1>1, <1>2 DEF AsWaiter
<1>5. /\ ReservationsExact' /\ InFlightExact'
      /\ \A q \in Requests : q # r => cpc'[q] = cpc[q]
      /\ cpc'[r] \in {"serving", "done", "cancelling"}
  BY <1>1, <1>2, <1>3, <1>4, AnswerExact
<1>6. PlacedOnce'
  BY <1>1, <1>2, <1>3, <1>4, <1>5 DEF Counted, PlacedOnce
<1> QED BY <1>3, <1>5, <1>6 DEF Kept

\* The list is at its end: the walk of the queue, or of an Unload, follows.
LEMMA WaitersAnsweredCounts ==
    ASSUME Counted, WaitersAnswered
    PROVE  Kept
<1>1. /\ UNCHANGED <<cpc, want, active, waiters, queued, remaining, fan, reserved, inFlight>>
      /\ loopPc = "fanout" /\ fan = {}
      /\ \/ loopPc' = "unload" /\ pending' = pending
         \/ BeginDrain
  BY DEF WaitersAnswered, Counted, clientVars, swapTable, queueVars, counters
<1>2. QueuesOnce' /\ InQueue' = InQueue /\ loopPc' \in {"drain", "select", "unload"}
  <2>1. CASE BeginDrain
    BY <1>1, <2>1, DrainBeginCounts
  <2>2. CASE loopPc' = "unload" /\ pending' = pending
    BY <1>1, <2>2 DEF Counted, QueuesOnce, InQueue
  <2> QED BY <1>1, <2>1, <2>2
<1>3. \A q \in Requests : AsWaiter(q)' <=> AsWaiter(q)
  BY <1>1 DEF AsWaiter
<1>4. PlacedOnce'
  BY <1>1, <1>2, <1>3 DEF Counted, PlacedOnce
<1>5. \A q \in Requests : (Served(q)' <=> Served(q)) /\ (Owing(q)' <=> Owing(q))
  BY <1>1, <1>2, <1>3 DEF Served, Owing
<1>6. ReservationsExact' /\ InFlightExact'
  BY <1>1, <1>5, SlotsKept, FlightsKept
<1> QED BY <1>2, <1>4, <1>6 DEF Kept

\* OnServeDone: the slot and the flight of the request end together.
LEMMA ServeDoneCounts ==
    ASSUME Counted, NEW r \in Requests, OnServeDone(r)
    PROVE  Kept
<1>1. /\ UNCHANGED <<want, active, waiters, queued, remaining, fan>>
      /\ loopPc = "select" /\ cpc[r] = "finishing"
      /\ cpc' = [cpc EXCEPT ![r] = "done"]
      /\ inFlight' = [inFlight EXCEPT ![want[r]] = @ - 1]
      /\ reserved' = [reserved EXCEPT ![want[r]] = @ - 1]
      /\ BeginDrain \/ UNCHANGED <<loopPc, pending>>
  BY DEF OnServeDone, swapTable, queueVars
<1>2. /\ cpc \in [Requests -> ClientPcs] /\ want[r] \in Models /\ fan = {}
  BY <1>1 DEF Counted, IInv, TypeOK, KnownModel, PlacedOnce
<1>3. QueuesOnce' /\ InQueue' = InQueue /\ loopPc' \in {"drain", "select"}
  <2>1. CASE BeginDrain
    BY <1>1, <2>1, DrainBeginCounts
  <2>2. CASE UNCHANGED <<loopPc, pending>>
    BY <1>1, <2>2 DEF Counted, QueuesOnce, InQueue
  <2> QED BY <1>1, <2>1, <2>2
<1>4. \A q \in Requests : AsWaiter(q)' <=> AsWaiter(q)
  BY <1>1 DEF AsWaiter
<1>5. Served(r) /\ Owing(r) /\ r \notin InQueue /\ ~AsWaiter(r)
  BY <1>1 DEF Counted, PlacedOnce, Owing, Served
<1>6. \A q \in Requests : cpc'[q] = IF q = r THEN "done" ELSE cpc[q]
  BY <1>1, <1>2
<1>7. PlacedOnce'
  BY <1>1, <1>2, <1>3, <1>4, <1>5, <1>6 DEF Counted, PlacedOnce
<1>8. \A q \in Requests : /\ Served(q)' <=> (q # r /\ Served(q))
                          /\ Owing(q)' <=> (q # r /\ Owing(q))
  BY <1>3, <1>4, <1>5, <1>6 DEF Served, Owing
<1>9. ReservationsExact'
  BY <1>1, <1>2, <1>5, <1>8, SlotFreed
<1>10. InFlightExact'
  BY <1>1, <1>2, <1>5, <1>8, FlightEnds
<1> QED BY <1>3, <1>7, <1>9, <1>10 DEF Kept

\* The item a walk looks at is in what is still to be walked, and nowhere else.
LEMMA ItemIsHeld ==
    ASSUME Counted, NEW r \in Requests, AtItem(r), pending' = Tail(pending)
    PROVE  /\ loopPc = "drain" /\ fan = {}
           /\ r \in InQueue /\ ~AsWaiter(r) /\ want[r] \in Models /\ ~Served(r)
           /\ r \in ToSet(pending) /\ r \notin ToSet(remaining)
           /\ Once(pending') /\ ToSet(pending') = ToSet(pending) \ {r}
<1>1. loopPc = "drain" /\ pending # <<>> /\ r = Head(pending)
  BY DEF AtItem
<1>2. /\ r \in ToSet(pending) /\ Once(pending')
      /\ ToSet(pending') = ToSet(pending) \ {r}
  <2>1. pending \in Seq(Requests) /\ Once(pending)
    BY DEF Counted, IInv, TypeOK, QueuesOnce
  <2> QED BY <1>1, <2>1, TailOnce
<1>3. r \notin ToSet(remaining)
  BY <1>2 DEF Counted, QueuesOnce
<1>4. r \in InQueue
  BY <1>1, <1>2 DEF InQueue
<1>5. ~AsWaiter(r) /\ want[r] \in Models /\ ~Served(r) /\ fan = {}
  BY <1>1, <1>4 DEF Counted, PlacedOnce, Served
<1> QED BY <1>1, <1>2, <1>3, <1>4, <1>5

\* ... and after it is taken out it is in no queue.
LEMMA ItemIsTaken ==
    ASSUME Counted, NEW r \in Requests, AtItem(r), Dequeue(r)
    PROVE  /\ QueuesOnce' /\ InQueue' = InQueue \ {r}
           /\ UNCHANGED <<want, loopPc, fan>>
<1>1. /\ UNCHANGED <<remaining, want, queued, loopPc, fan>>
      /\ pending' = Tail(pending)
  BY DEF Dequeue
<1>2. QueuesOnce'
  BY <1>1, ItemIsHeld DEF Counted, QueuesOnce
<1>3. InQueue' = InQueue \ {r}
  BY <1>1, ItemIsHeld DEF InQueue
<1> QED BY <1>1, <1>2, <1>3

\* drainQueue: the item joins a swap, or starts one.
LEMMA DrainSwapsCounts ==
    ASSUME Counted, NEW r \in Requests, DrainJoins(r) \/ DrainStartsSwap(r)
    PROVE  Kept
<1>1. /\ AtItem(r) /\ Dequeue(r) /\ UNCHANGED <<cpc, reserved, inFlight>>
      /\ \/ /\ want[r] \in active /\ active' = active
            /\ waiters' = [waiters EXCEPT ![want[r]] = @ \union {r}]
         \/ /\ want[r] \notin active /\ active' = active \union {want[r]}
            /\ waiters' = [waiters EXCEPT ![want[r]] = {r}]
  BY DEF DrainJoins, DrainStartsSwap, Join, startSwap
<1>2. /\ loopPc = "drain" /\ fan = {} /\ r \in InQueue /\ ~AsWaiter(r)
      /\ want[r] \in Models
  BY <1>1, ItemIsHeld DEF Dequeue
<1>3. /\ QueuesOnce' /\ InQueue' = InQueue \ {r} /\ UNCHANGED <<want, loopPc, fan>>
  BY <1>1, ItemIsTaken
<1>4. /\ want[r] \in active' /\ active \subseteq active'
      /\ waiters' = [waiters EXCEPT ![want[r]] = @ \union {r}]
  <2>1. want[r] \notin active => waiters[want[r]] = {}
    BY <1>2, NewSwapIsEmpty
  <2>2. waiters \in [Models -> SUBSET Requests]
    BY DEF Counted, IInv, TypeOK
  <2>3. CASE want[r] \in active
    BY <1>1, <2>3
  <2>4. CASE want[r] \notin active
    BY <1>1, <1>2, <2>1, <2>2, <2>4
  <2> QED BY <2>3, <2>4
<1>5. \A m \in Models : waiters'[m] = IF m = want[r] THEN waiters[m] \union {r} ELSE waiters[m]
  BY <1>4 DEF Counted, IInv, TypeOK
<1>6. \A q \in Requests : AsWaiter(q)' <=> (q = r \/ AsWaiter(q))
  BY <1>2, <1>3, <1>5 DEF AsWaiter
<1>7. PlacedOnce'
  BY <1>1, <1>2, <1>3, <1>4, <1>5, <1>6 DEF Counted, PlacedOnce, AsWaiter
<1>8. \A q \in Requests : (Served(q)' <=> Served(q)) /\ (Owing(q)' <=> Owing(q))
  BY <1>1, <1>2, <1>3, <1>6 DEF Served, Owing
<1>9. ReservationsExact' /\ InFlightExact'
  BY <1>1, <1>3, <1>8, SlotsKept, FlightsKept
<1> QED BY <1>3, <1>7, <1>9 DEF Kept

\* drainQueue: the item is served at once, or is gone again.
LEMMA DrainFastCounts ==
    ASSUME Counted, NEW r \in Requests, DrainFastPath(r)
    PROVE  Kept
<1>1. /\ AtItem(r) /\ Dequeue(r) /\ grantHandler(r) /\ UNCHANGED <<active, waiters>>
  BY DEF DrainFastPath, swapTable
<1>2. r \in InQueue /\ ~AsWaiter(r) /\ loopPc = "drain" /\ fan = {}
  BY <1>1, ItemIsHeld DEF Dequeue
<1>3. /\ QueuesOnce' /\ InQueue' = InQueue \ {r} /\ UNCHANGED <<want, loopPc, fan>>
  BY <1>1, ItemIsTaken
<1>4. \A q \in Requests : AsWaiter(q)' <=> AsWaiter(q)
  BY <1>1, <1>3 DEF AsWaiter
<1>5. /\ ReservationsExact' /\ InFlightExact'
      /\ \A q \in Requests : q # r => cpc'[q] = cpc[q]
  BY <1>1, <1>2, <1>3, <1>4, AnswerExact
<1>6. cpc'[r] \in {"serving", "done", "cancelling"}
  BY <1>1, <1>2, <1>3, <1>4, AnswerExact
<1>7. PlacedOnce'
  BY <1>1, <1>2, <1>3, <1>4, <1>5, <1>6 DEF Counted, PlacedOnce, AsWaiter
<1> QED BY <1>3, <1>5, <1>7 DEF Kept

\* drainQueue: the item stays queued.
LEMMA DrainKeepsCounts ==
    ASSUME Counted, NEW r \in Requests, DrainKeeps(r)
    PROVE  Kept
<1>1. /\ UNCHANGED <<cpc, want, active, waiters, queued, fan, reserved, inFlight, loopPc>>
      /\ AtItem(r) /\ pending' = Tail(pending) /\ remaining' = Append(remaining, r)
  BY DEF DrainKeeps, clientVars, swapTable, queueVars, counters
<1>2. /\ loopPc = "drain" /\ r \in ToSet(pending) /\ r \notin ToSet(remaining)
      /\ Once(pending') /\ ToSet(pending') = ToSet(pending) \ {r}
  BY <1>1, ItemIsHeld
<1>3. Once(remaining') /\ ToSet(remaining') = ToSet(remaining) \union {r}
  <2>1. remaining \in Seq(Requests) /\ Once(remaining)
    BY DEF Counted, IInv, TypeOK, QueuesOnce
  <2> QED BY <1>1, <1>2, <2>1, AppendOnce
<1>4. QueuesOnce'
  BY <1>1, <1>2, <1>3 DEF Counted, QueuesOnce
<1>5. InQueue' = InQueue /\ \A q \in Requests : AsWaiter(q)' <=> AsWaiter(q)
  BY <1>1, <1>2, <1>3 DEF InQueue, AsWaiter
<1>6. PlacedOnce'
  BY <1>1, <1>5 DEF Counted, PlacedOnce
<1>7. \A q \in Requests : (Served(q)' <=> Served(q)) /\ (Owing(q)' <=> Owing(q))
  BY <1>1, <1>5 DEF Served, Owing
<1>8. ReservationsExact' /\ InFlightExact'
  BY <1>1, <1>7, SlotsKept, FlightsKept
<1> QED BY <1>4, <1>6, <1>8 DEF Kept

\* drainQueue has looked at every item: what stays is the queue.
LEMMA DrainEndsCounts ==
    ASSUME Counted, DrainEnds
    PROVE  Kept
<1>1. /\ UNCHANGED <<cpc, want, active, waiters, fan, reserved, inFlight, pending>>
      /\ loopPc = "drain" /\ pending = <<>> /\ loopPc' = "select"
      /\ queued' = remaining /\ remaining' = <<>>
  BY DEF DrainEnds, clientVars, swapTable, counters
<1>2. ToSet(<<>>) = {} /\ Once(<<>>)
  BY DEF ToSet, Once
<1>3. QueuesOnce'
  BY <1>1, <1>2 DEF Counted, QueuesOnce
<1>4. InQueue' = InQueue /\ \A q \in Requests : AsWaiter(q)' <=> AsWaiter(q)
  BY <1>1, <1>2 DEF InQueue, AsWaiter
<1>5. PlacedOnce'
  BY <1>1, <1>4 DEF Counted, PlacedOnce
<1>6. \A q \in Requests : (Served(q)' <=> Served(q)) /\ (Owing(q)' <=> Owing(q))
  BY <1>1, <1>4 DEF Served, Owing
<1>7. ReservationsExact' /\ InFlightExact'
  BY <1>1, <1>6, SlotsKept, FlightsKept
<1> QED BY <1>3, <1>5, <1>7 DEF Kept

\* OnUnload: the waiters of the swaps that are dropped are those to answer now.
LEMMA UnloadCounts ==
    ASSUME Counted, NEW T \in SUBSET Models, OnUnload(T)
    PROVE  Kept
<1>1. /\ UNCHANGED <<cpc, want, queued, pending, remaining, reserved, inFlight>>
      /\ loopPc = "select" /\ loopPc' = "fanout" /\ active' = active \ T
      /\ fan' = UNION {waiters[m] : m \in T}
      /\ waiters' = [m \in Models |-> IF m \in T THEN {} ELSE waiters[m]]
  BY DEF OnUnload, clientVars, queueVars, counters
<1>2. fan = {}
  BY <1>1 DEF Counted, PlacedOnce
<1>3. InQueue' = InQueue /\ QueuesOnce'
  BY <1>1 DEF Counted, QueuesOnce, InQueue
<1>4. \A q \in Requests : q \in fan' <=> \E m \in T : q \in waiters[m]
  BY <1>1
<1>5. \A q \in Requests : AsWaiter(q)' <=> AsWaiter(q)
  BY <1>1, <1>2, <1>4 DEF AsWaiter
<1>6. PlacedOnce'
  BY <1>1, <1>3, <1>4, <1>5 DEF Counted, PlacedOnce
<1>7. \A q \in Requests : (Served(q)' <=> Served(q)) /\ (Owing(q)' <=> Owing(q))
  BY <1>1, <1>3, <1>5 DEF Served, Owing
<1>8. ReservationsExact' /\ InFlightExact'
  BY <1>1, <1>7, SlotsKept, FlightsKept
<1> QED BY <1>3, <1>6, <1>8 DEF Kept

\* ... a queued request for one of its models is refused ...
LEMMA UnloadDropsCounts ==
    ASSUME Counted, NEW r \in Requests, UnloadDrops(r)
    PROVE  Kept
<1>1. /\ UNCHANGED <<want, active, waiters, pending, remaining, fan, inFlight, loopPc>>
      /\ loopPc = "unload" /\ r \in ToSet(queued)
      /\ queued' = RemoveFirst(queued, r) /\ GrantError(r)
  BY DEF UnloadDrops, QueuedTargets, swapTable, walkVars
<1>2. Once(queued') /\ ToSet(queued') = ToSet(queued) \ {r}
  <2>1. queued \in Seq(Requests) /\ Once(queued)
    BY DEF Counted, IInv, TypeOK, QueuesOnce
  <2> QED BY <1>1, <2>1, RemoveFirstOnce
<1>3. QueuesOnce'
  BY <1>1, <1>2 DEF Counted, QueuesOnce
<1>4. r \in InQueue /\ InQueue' = InQueue \ {r}
  BY <1>1, <1>2 DEF InQueue
<1>5. ~AsWaiter(r) /\ fan = {} /\ \A q \in Requests : AsWaiter(q)' <=> AsWaiter(q)
  BY <1>1, <1>4 DEF Counted, PlacedOnce, AsWaiter
<1>6. /\ ReservationsExact' /\ InFlightExact'
      /\ \A q \in Requests : q # r => cpc'[q] = cpc[q]
      /\ cpc'[r] \in {"serving", "done", "cancelling"}
  <2>1. \A q \in Requests : AsWaiter(q)' <=> (q # r /\ AsWaiter(q))
    BY <1>5
  <2> QED BY <1>1, <1>4, <2>1, AnswerExact
<1>7. PlacedOnce'
  BY <1>1, <1>4, <1>5, <1>6 DEF Counted, PlacedOnce, AsWaiter
<1> QED BY <1>3, <1>6, <1>7 DEF Kept

\* ... and when its processes are stopped the queue is walked.
LEMMA UnloadEndsCounts ==
    ASSUME Counted, UnloadEnds
    PROVE  Kept
<1>1. /\ UNCHANGED <<cpc, want, active, waiters, queued, remaining, fan, reserved, inFlight>>
      /\ loopPc = "unload" /\ BeginDrain
  BY DEF UnloadEnds, clientVars, swapTable, queueVars, counters
<1>2. QueuesOnce' /\ InQueue' = InQueue /\ loopPc' \in {"drain", "select"}
  BY <1>1, DrainBeginCounts
<1>3. \A q \in Requests : AsWaiter(q)' <=> AsWaiter(q)
  BY <1>1 DEF AsWaiter
<1>4. PlacedOnce'
  BY <1>1, <1>2, <1>3 DEF Counted, PlacedOnce
<1>5. \A q \in Requests : (Served(q)' <=> Served(q)) /\ (Owing(q)' <=> Owing(q))
  BY <1>1, <1>2, <1>3 DEF Served, Owing
<1>6. ReservationsExact' /\ InFlightExact'
  BY <1>1, <1>5, SlotsKept, FlightsKept
<1> QED BY <1>2, <1>4, <1>6 DEF Kept

\* The step that ends a shutdown moves nobody.
LEMMA ShutdownEndCounts ==
    ASSUME Counted, ShutdownEnds
    PROVE  Kept
<1>1. /\ UNCHANGED <<cpc, want, active, waiters, queued, pending, remaining, fan, reserved, inFlight>>
      /\ loopPc = "shutdown" /\ loopPc' = "exited"
  BY DEF ShutdownEnds, clientVars, swapTable, queueVars, counters, walkVars
<1>2. InQueue' = InQueue /\ QueuesOnce'
  BY <1>1 DEF Counted, QueuesOnce, InQueue
<1>3. \A q \in Requests : AsWaiter(q)' <=> AsWaiter(q)
  BY <1>1 DEF AsWaiter
<1>4. PlacedOnce'
  BY <1>1, <1>2, <1>3 DEF Counted, PlacedOnce
<1>5. \A q \in Requests : (Served(q)' <=> Served(q)) /\ (Owing(q)' <=> Owing(q))
  BY <1>1, <1>2, <1>3 DEF Served, Owing
<1>6. ReservationsExact' /\ InFlightExact'
  BY <1>1, <1>5, SlotsKept, FlightsKept
<1> QED BY <1>2, <1>4, <1>6 DEF Kept

\* Everything else happens outside the scheduler: stops, starts, exits, time.
LEMMA OtherStepsCount ==
    ASSUME Counted,
           \/ \E m \in Models : UnloadStops(m) \/ ShutdownStops(m) \/ ProcessStep(m)
           \/ \E s \in SwapIds : SwapStep(s)
           \/ \E r \in Requests : WaitElapses(r)
           \/ CallShutdown \/ Quiescent \/ UNCHANGED vars
    PROVE  Kept
<1>1. ASSUME NEW m \in Models, UnloadStops(m) \/ ShutdownStops(m)
      PROVE  Kept
  <2>1. UNCHANGED <<cpc, want, active, waiters, queued, pending, remaining, fan,
                    reserved, inFlight, loopPc>>
    BY <1>1 DEF UnloadStops, ShutdownStops, clientVars, swapTable, queueVars, counters
  <2> QED BY <2>1, OutsideCounts
<1>2. ASSUME NEW m \in Models, ProcessStep(m)
      PROVE  Kept
  <2>1. UNCHANGED <<cpc, want, active, waiters, queued, pending, remaining, fan,
                    reserved, inFlight, loopPc>>
    BY <1>2 DEF ProcessStep, StartEnds, ProcessExits, ProviderLoads, ProcessShutdown,
       clientVars, swapTable, queueVars, counters, walkVars
  <2> QED BY <2>1, OutsideCounts
<1>3. ASSUME NEW s \in SwapIds, SwapStep(s)
      PROVE  Kept
  <2>1. UNCHANGED <<cpc, want, active, waiters, queued, pending, remaining, fan,
                    reserved, inFlight, loopPc>>
    BY <1>3 DEF SwapStep, SwapStops, SwapStopped, SwapEnsures, SwapGivesUp,
       clientVars, swapTable, queueVars, counters, walkVars
  <2> QED BY <2>1, OutsideCounts
<1>4. ASSUME NEW r \in Requests, WaitElapses(r)
      PROVE  Kept
  <2>1. UNCHANGED <<cpc, want, active, waiters, queued, pending, remaining, fan,
                    reserved, inFlight, loopPc>>
    BY <1>4 DEF WaitElapses, clientVars, swapTable, counters, walkVars
  <2> QED BY <2>1, OutsideCounts
<1>5. CASE CallShutdown \/ Quiescent \/ UNCHANGED vars
  <2>1. UNCHANGED <<cpc, want, active, waiters, queued, pending, remaining, fan,
                    reserved, inFlight, loopPc>>
    BY <1>5 DEF CallShutdown, Quiescent, vars, clientVars, swapTable, queueVars, counters, walkVars
  <2> QED BY <2>1, OutsideCounts
<1> QED BY <1>1, <1>2, <1>3, <1>4, <1>5

-----------------------------------------------------------------------------
(* The invariant holds in every state.                                      *)

CountInv ==
    /\ IInv /\ IsFiniteSet(Came)
    /\ ~shut => QueuesOnce /\ PlacedOnce
    /\ ReservationsExact /\ InFlightExact

\* A step moves one client at most.
LEMMA OneClientMoves ==
    ASSUME TypeOK, [Next]_vars
    PROVE  cpc' = cpc \/ \E r \in Requests : \E pc : cpc' = [cpc EXCEPT ![r] = pc]
<1>1. ASSUME NEW r \in Requests, OnRequest(r)
      PROVE  \E pc : cpc' = [cpc EXCEPT ![r] = pc]
  BY <1>1 DEF OnRequest, RejectRequest, AdmitGone, RequestJoins, RequestFastPath, RequestQueued,
     RequestStartsSwap, Reserve
<1>2. ASSUME NEW r \in Requests, OnCancel(r) \/ OnServeDone(r)
      PROVE  \E pc : cpc' = [cpc EXCEPT ![r] = pc]
  BY <1>2 DEF OnCancel, OnServeDone
<1>3. ASSUME NEW r \in Requests, AnswerWaiter(r) \/ UnloadDrops(r) \/ DrainFastPath(r)
      PROVE  cpc' = cpc \/ \E pc : cpc' = [cpc EXCEPT ![r] = pc]
  BY <1>3 DEF AnswerWaiter, UnloadDrops, DrainFastPath, GrantError, grantHandler
<1>4. ASSUME NEW r \in Requests, DrainJoins(r) \/ DrainStartsSwap(r) \/ DrainKeeps(r)
      PROVE  cpc' = cpc
  BY <1>4 DEF DrainJoins, DrainStartsSwap, DrainKeeps, clientVars
<1>5. CASE LoopStep
  <2>1. ASSUME \/ \E s \in SwapIds : OnSwapDone(s)
               \/ \E m \in Models : UnloadStops(m) \/ ShutdownStops(m)
               \/ WaitersAnswered \/ DrainEnds \/ UnloadEnds
               \/ OnShutdown \/ ShutdownEnds
        PROVE  cpc' = cpc
    BY <2>1 DEF OnSwapDone, UnloadStops, ShutdownStops, WaitersAnswered, DrainEnds, UnloadEnds,
       OnShutdown, ShutdownEnds, clientVars
  <2> QED BY <1>1, <1>2, <1>3, <1>4, <1>5, <2>1 DEF LoopStep, DrainStep
<1>6. CASE \E T \in SUBSET Models \ {{}} : OnUnload(T)
  BY <1>6 DEF OnUnload, clientVars
<1>7. ASSUME NEW r \in Requests, ClientStep(r)
      PROVE  \E pc : cpc' = [cpc EXCEPT ![r] = pc]
  BY <1>7 DEF ClientStep, Arrive, Disconnect, ServeReturns, LeaveOnShutdown
<1>8. ASSUME NEW r \in Requests, WaitElapses(r)
      PROVE  cpc' = cpc
  BY <1>8 DEF WaitElapses, clientVars
<1>9. ASSUME NEW s \in SwapIds, SwapStep(s)
      PROVE  cpc' = cpc
  BY <1>9 DEF SwapStep, SwapStops, SwapStopped, SwapEnsures, SwapGivesUp, clientVars
<1>10. ASSUME NEW m \in Models, ProcessStep(m)
       PROVE  cpc' = cpc
  BY <1>10 DEF ProcessStep, StartEnds, ProcessExits, ProviderLoads, ProcessShutdown, clientVars
<1>11. CASE CallShutdown \/ Quiescent \/ UNCHANGED vars
  BY <1>11 DEF CallShutdown, Quiescent, vars, clientVars
<1> QED BY <1>5, <1>6, <1>7, <1>8, <1>9, <1>10, <1>11 DEF Next

\* So the requests that have come stay finitely many.
LEMMA CameFinite ==
    ASSUME TypeOK, IsFiniteSet(Came), [Next]_vars
    PROVE  IsFiniteSet(Came')
<1>1. cpc \in [Requests -> ClientPcs]
  BY DEF TypeOK
<1>2. CASE cpc' = cpc
  BY <1>2 DEF Came
<1>3. ASSUME NEW r \in Requests, NEW pc, cpc' = [cpc EXCEPT ![r] = pc]
      PROVE  IsFiniteSet(Came')
  <2>1. Came' \subseteq Came \union {r}
    BY <1>1, <1>3 DEF Came
  <2>2. IsFiniteSet(Came \union {r})
    BY FS_AddElement
  <2> QED BY <2>1, <2>2, FS_Subset
<1> QED BY <1>2, <1>3, OneClientMoves

\* A router that shuts down does not come back.
LEMMA ShutStays ==
    ASSUME TypeOK, [Next]_vars, ~shut'
    PROVE  ~shut
<1>1. CASE LoopStep
  BY <1>1 DEF LoopStep, OnRequest, RejectRequest, AdmitGone, RequestJoins, RequestFastPath,
     RequestQueued, RequestStartsSwap, Admitted, OnCancel, OnServeDone, AnswerWaiter, DrainStep,
     DrainJoins, DrainFastPath, DrainStartsSwap, DrainKeeps, Dequeue, UnloadDrops, OnSwapDone,
     UnloadStops, ShutdownStops, WaitersAnswered, DrainEnds, UnloadEnds, OnShutdown, ShutdownEnds,
     ctlVars
<1>2. CASE \/ \E T \in SUBSET Models \ {{}} : OnUnload(T)
           \/ CallShutdown
           \/ \E r \in Requests : ClientStep(r) \/ WaitElapses(r)
  BY <1>2 DEF OnUnload, CallShutdown, ClientStep, Arrive, Disconnect, ServeReturns, LeaveOnShutdown,
     WaitElapses, ctlVars
<1>3. CASE \/ \E s \in SwapIds : SwapStep(s)
           \/ \E m \in Models : ProcessStep(m)
           \/ Quiescent \/ UNCHANGED vars
  BY <1>3 DEF SwapStep, SwapStops, SwapStopped, SwapEnsures, SwapGivesUp, ProcessStep, StartEnds,
     ProcessExits, ProviderLoads, ProcessShutdown, Quiescent, vars, ctlVars
<1> QED BY <1>1, <1>2, <1>3 DEF Next

\* Nothing has come yet, and nothing is counted.
LEMMA InitCounts == Init => CountInv
<1> SUFFICES ASSUME Init
             PROVE  CountInv
  OBVIOUS
<1>1. IInv
  BY InitHolds
<1>2. Came = {} /\ IsFiniteSet(Came)
  <2>1. Came = {}
    BY DEF Init, Came
  <2> QED BY <2>1, FS_EmptySet
<1>3. ToSet(<<>>) = {} /\ Once(<<>>)
  BY DEF ToSet, Once
<1>4. QueuesOnce
  BY <1>3 DEF Init, QueuesOnce
<1>5. InQueue = {} /\ \A r \in Requests : ~AsWaiter(r) /\ ~Served(r)
  BY <1>3 DEF Init, InQueue, AsWaiter, Served
<1>6. PlacedOnce
  BY <1>5 DEF Init, PlacedOnce
<1>7. ReservationsExact /\ InFlightExact
  <2>1. ASSUME NEW m \in Models
        PROVE  /\ {r \in Requests : want[r] = m /\ Served(r)} = {}
               /\ {r \in Requests : want[r] = m /\ (r \in InQueue \/ AsWaiter(r) \/ Served(r))} = {}
    BY <1>5
  <2>2. \A m \in Models : reserved[m] = 0 /\ inFlight[m] = 0 /\ reserved[m] <= Limit[m]
    BY LimitAssumption DEF Init
  <2>3. Cardinality({}) = 0
    BY FS_EmptySet
  <2> QED BY <2>1, <2>2, <2>3 DEF ReservationsExact, InFlightExact
<1> QED BY <1>1, <1>2, <1>4, <1>6, <1>7 DEF CountInv

\* Until the shutdown every step keeps the counts.
LEMMA StepCounts ==
    ASSUME Counted, [Next]_vars, ~shut'
    PROVE  Kept
<1>1. ASSUME NEW r \in Requests, OnRequest(r)
      PROVE  Kept
  BY <1>1, RejectCounts, JoinCounts, FastCounts, QueueCounts, StartCounts DEF OnRequest
<1>2. ASSUME NEW r \in Requests, DrainStep(r)
      PROVE  Kept
  BY <1>2, DrainSwapsCounts, DrainFastCounts, DrainKeepsCounts DEF DrainStep
<1>3. ~OnShutdown
  BY DEF OnShutdown
<1>4. CASE LoopStep
  BY <1>1, <1>2, <1>3, <1>4, CancelCounts, ServeDoneCounts, AnswerWaiterCounts, UnloadDropsCounts,
     SwapDoneCounts, OtherStepsCount, WaitersAnsweredCounts, DrainEndsCounts, UnloadEndsCounts,
     ShutdownEndCounts DEF LoopStep
<1>5. CASE \E T \in SUBSET Models \ {{}} : OnUnload(T)
  BY <1>5, UnloadCounts
<1>6. CASE \E r \in Requests : ClientStep(r)
  BY <1>6, ClientCounts
<1> QED BY <1>4, <1>5, <1>6, OtherStepsCount DEF Next

\* Every step of the router keeps the invariant.
LEMMA CountInvKept == CountInv /\ [Next]_vars => CountInv'
<1> SUFFICES ASSUME CountInv, [Next]_vars
             PROVE  CountInv'
  OBVIOUS
<1>1. IInv'
  BY StepKeeps DEF CountInv
<1>2. IsFiniteSet(Came')
  BY CameFinite DEF CountInv, IInv
<1>3. CASE shut'
  BY <1>1, <1>2, <1>3 DEF CountInv, ReservationsExact, InFlightExact
<1>4. CASE ~shut'
  <2>1. Counted
    BY <1>4, ShutStays DEF CountInv, Counted, IInv
  <2>2. Kept
    BY <1>4, <2>1, StepCounts
  <2> QED BY <1>1, <1>2, <2>2 DEF CountInv, Kept
<1> QED BY <1>3, <1>4

\* Until the shutdown a request is in one place.
LEMMA PlacedIsHeldOnce ==
    ASSUME CountInv
    PROVE  HeldOnce
<1> SUFFICES ASSUME ~shut, NEW r \in Requests
             PROVE  /\ cpc[r] = "waiting" => r \in InQueue \/ AsWaiter(r)
                    /\ cpc[r] \in {"idle", "arriving", "serving", "finishing", "done"} =>
                         r \notin InQueue /\ ~AsWaiter(r)
                    /\ Cardinality({i \in DOMAIN queued : queued[i] = r}) <= 1
                    /\ r \in InQueue => ~AsWaiter(r)
                    /\ \A m, n \in Models :
                         r \in waiters[m] => r \notin fan /\ (r \in waiters[n] => m = n)
                    /\ \A m \in Models : r \in waiters[m] => want[r] = m /\ m \in active
  BY DEF HeldOnce
<1>1. PlacedOnce /\ Once(queued) /\ queued \in Seq(Requests)
  BY DEF CountInv, QueuesOnce, IInv, TypeOK
<1> DEFINE places == {i \in DOMAIN queued : queued[i] = r}
<1>2. Cardinality(places) <= 1
  <2>1. CASE places = {}
    <3>1. Cardinality(places) = 0
      BY <2>1, FS_EmptySet
    <3> QED BY <3>1
  <2>2. CASE places # {}
    <3>1. PICK i : i \in places
      BY <2>2
    <3>2. places = {i}
      BY <1>1, <3>1 DEF Once
    <3>3. Cardinality(places) = 1
      BY <3>2, FS_Singleton
    <3> QED BY <3>3
  <2> QED BY <2>1, <2>2
<1>3. /\ cpc[r] = "waiting" => r \in InQueue \/ AsWaiter(r)
      /\ cpc[r] \in {"idle", "arriving", "serving", "finishing", "done"} =>
           r \notin InQueue /\ ~AsWaiter(r)
      /\ r \in InQueue => ~AsWaiter(r)
      /\ \A m \in Models : r \in waiters[m] => want[r] = m /\ m \in active /\ r \notin fan
  BY <1>1 DEF PlacedOnce
<1> QED BY <1>2, <1>3

-----------------------------------------------------------------------------
(* The theorems.                                                            *)

\* A slot is reserved for exactly the requests the scheduler still owes
\* something to, and never more slots than the limit: release (fifo.go) never
\* panics, and no admission is lost, whoever cancels, is refused or is served.
THEOREM ReservationsAreExact == Spec => []ReservationsExact
<1>1. CountInv => ReservationsExact
  BY DEF CountInv
<1> QED BY <1>1, InitCounts, CountInvKept, PTL DEF Spec

\* inFlight, by which evictions are held back and the queue is retried, counts
\* exactly the granted requests whose handler has not been seen to return.
THEOREM FlightsAreExact == Spec => []InFlightExact
<1>1. CountInv => InFlightExact
  BY DEF CountInv
<1> QED BY <1>1, InitCounts, CountInvKept, PTL DEF Spec

\* A request that waits is in the queue once or with one swap, and a request
\* that does not is nowhere: enqueue, Join, startSwap, drainQueue, OnCancel,
\* OnSwapDone and OnUnload neither lose nor duplicate one.
THEOREM EveryoneHeldOnce == Spec => []HeldOnce
<1>1. CountInv => HeldOnce
  BY PlacedIsHeldOnce
<1> QED BY <1>1, InitCounts, CountInvKept, PTL DEF Spec

=============================================================================
