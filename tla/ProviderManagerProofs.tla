----------------------- MODULE ProviderManagerProofs -----------------------
(***************************************************************************)
(* Theorems about ProviderManager, for every set of models, eviction       *)
(* policy, capacity and bound.                                             *)
(***************************************************************************)
EXTENDS ProviderManager, FiniteSetTheorems, WellFoundedInduction, TLAPS

-----------------------------------------------------------------------------
(* The inductive invariant.                                                 *)

\* The swaps of the router do not overlap: none has another's target or
\* victim among its victims (MaySwap, which collidesWith decides).
SwapsApart ==
    \A t \in Targets :
        /\ sw[t].pc = "idle" => sw[t].evict = {}
        /\ sw[t].todo \subseteq sw[t].evict
        /\ sw[t].pc # "idle" => \A u \in Targets : t \notin sw[u].evict
        /\ \A u \in Targets \ {t} : sw[t].evict \intersect sw[u].evict = {}

\* No victim gets a lease before its swap is over.
VictimsFree == \A t \in Targets : \A v \in sw[t].evict : active[v] = 0

\* The demand the restorations look at is the Load that waits or runs.
DemandIsLoad == \A a \in Aliases : demand[a] = IF sw[a].pc = "load" THEN 1 ELSE 0

\* What the holder of opMu may rely on although mu is not its own: the swap it
\* works for is still there; a transient marked as draining gets no lease; the
\* demand that made a restoration turn back stays until opMu is released.
Holder ==
    /\ op.kind = "none" => op = Free
    /\ op.kind = "unload" => /\ op.for \in Targets /\ sw[op.for].pc = "stop"
                             /\ op.arg \in sw[op.for].todo
    /\ op.kind = "load" => op.for \in Aliases /\ sw[op.for].pc = "load"
    /\ op.kind = "restore" => op.for \in Aliases
    /\ At("restore", "reconcile") \/ At("restore", "unload") =>
         states[op.for] = "draining" /\ active[op.for] = 0
    /\ At("restore", "resume") => HasDemand(op.for)

IInv ==
    /\ TypeOK
    /\ SwapsApart /\ VictimsFree /\ DemandIsLoad
    /\ Holder
    /\ BusyIsLeased

-----------------------------------------------------------------------------
(* Types.                                                                   *)

\* A nonempty set of natural numbers has a least element.
LEMMA LeastElement ==
    ASSUME NEW T \in SUBSET Nat, T # {}
    PROVE  \E x \in T : \A y \in T : x <= y
<1> DEFINE Less == {p \in Nat \X Nat : p[1] < p[2]}
<1>1. OpToRel(<, Nat) = Less
    BY DEF OpToRel
<1>2. IsWellFoundedOn(Less, Nat)
    BY <1>1, NatLessThanWellFounded
<1>3. \E x \in T : \A y \in T : ~ (<<y, x>> \in Less)
    BY <1>2, WFMin
<1>4. \A x, y \in Nat : y < x => <<y, x>> \in Less
    OBVIOUS
<1> HIDE DEF Less
<1>5. PICK x \in T : \A y \in T : ~ (<<y, x>> \in Less)
    BY <1>3
<1>6. \A y \in T : ~ (y < x)
    BY <1>4, <1>5
<1> QED BY <1>6

\* A restoration has a next model as long as it has one left.
LEMMA FirstItemIsItem ==
    ASSUME TypeOK, op.items # {}
    PROVE  FirstItem \in op.items
<1>1. op.items \subseteq Aliases
    BY DEF TypeOK, OpType
<1>2. \A a \in Aliases : Rank[a] \in Nat
    BY ResidencyAssumption
<1> DEFINE T == {Rank[a] : a \in op.items}
<1>3. T \in SUBSET Nat /\ T # {}
    BY <1>1, <1>2
<1>4. PICK n \in T : \A k \in T : n <= k
    BY <1>3, LeastElement
<1>5. \E a \in op.items : \A b \in op.items : Rank[a] <= Rank[b]
    BY <1>4
<1> QED BY <1>5 DEF FirstItem

\* Observed is a state.
LEMMA ObservedTyped ==
    ASSUME NEW view \in [Aliases -> Statuses], NEW a \in Aliases
    PROVE  /\ Observed(view, a) \in States
           /\ Observed(view, a) = "busy" => active[a] > 0
           /\ Observed(view, a) \in {"ready", "busy"} => view[a] = "ready"
BY DEF Observed, Statuses, States

\* The timers keep their types when one is dropped.
LEMMA DropTimerTyped ==
    ASSUME TypeOK, NEW t \in Aliases, dropTimer(t)
    PROVE  /\ timer' \in [Aliases -> {"none", "armed", "fired"}]
           /\ loose' \in [Aliases -> Nat] /\ late' \in [Aliases -> Nat]
BY DEF TypeOK, TimersTyped, dropTimer

\* The end of a swap.
LEMMA SwapEnded ==
    ASSUME sw \in [Targets -> SwapType], SwapsApart, NEW t \in Targets,
           sw' = [sw EXCEPT ![t] = NoSwap]
    PROVE  /\ sw' \in [Targets -> SwapType] /\ SwapsApart'
           /\ \A u \in Targets : sw'[u].evict \subseteq sw[u].evict
           /\ sw'[t].pc = "idle" /\ \A u \in Targets \ {t} : sw'[u] = sw[u]
<1>1. NoSwap \in SwapType /\ NoSwap.pc = "idle" /\ NoSwap.todo = {} /\ NoSwap.evict = {}
    BY DEF NoSwap, SwapType, SwPcs
<1>2. /\ sw' \in [Targets -> SwapType]
      /\ sw'[t] = NoSwap /\ \A u \in Targets \ {t} : sw'[u] = sw[u]
    BY <1>1
<1>3. \A u \in Targets : sw'[u].evict \subseteq sw[u].evict /\ (sw'[u].pc # "idle" => sw'[u] = sw[u])
    BY <1>1, <1>2
<1>4. SwapsApart'
    BY <1>1, <1>2, <1>3 DEF SwapsApart
<1> QED BY <1>1, <1>2, <1>3, <1>4

\* A victim is done with.
LEMMA VictimDone ==
    ASSUME sw \in [Targets -> SwapType], SwapsApart, NEW t \in Targets, NEW v,
           sw' = [sw EXCEPT ![t].todo = @ \ {v}]
    PROVE  /\ sw' \in [Targets -> SwapType] /\ SwapsApart'
           /\ \A u \in Targets : sw'[u].evict = sw[u].evict /\ sw'[u].pc = sw[u].pc
           /\ \A u \in Targets \ {t} : sw'[u] = sw[u]
<1>1. /\ sw' \in [Targets -> SwapType]
      /\ sw'[t] = [sw[t] EXCEPT !.todo = @ \ {v}]
      /\ \A u \in Targets \ {t} : sw'[u] = sw[u]
    BY DEF SwapType
<1>2. \A u \in Targets : /\ sw'[u].evict = sw[u].evict /\ sw'[u].pc = sw[u].pc
                          /\ sw'[u].todo \subseteq sw[u].todo
    BY <1>1 DEF SwapType
<1>3. SwapsApart'
    BY <1>1, <1>2 DEF SwapsApart
<1> QED BY <1>1, <1>2, <1>3

\* A swap goes on.
LEMMA SwapMoved ==
    ASSUME sw \in [Targets -> SwapType], SwapsApart, NEW t \in Targets,
           NEW pc \in SwPcs \ {"idle"}, sw[t].pc # "idle",
           sw' = [sw EXCEPT ![t].pc = pc]
    PROVE  /\ sw' \in [Targets -> SwapType] /\ SwapsApart'
           /\ \A u \in Targets : sw'[u].evict = sw[u].evict /\ sw'[u].todo = sw[u].todo
           /\ sw'[t].pc = pc /\ \A u \in Targets \ {t} : sw'[u] = sw[u]
<1>1. /\ sw' \in [Targets -> SwapType]
      /\ sw'[t] = [sw[t] EXCEPT !.pc = pc]
      /\ \A u \in Targets \ {t} : sw'[u] = sw[u]
    BY DEF SwapType
<1>2. \A u \in Targets : /\ sw'[u].evict = sw[u].evict /\ sw'[u].todo = sw[u].todo
                          /\ sw'[u].pc = IF u = t THEN pc ELSE sw[u].pc
    BY <1>1 DEF SwapType
<1>3. SwapsApart'
    BY <1>1, <1>2 DEF SwapsApart
<1> QED BY <1>1, <1>2, <1>3

\* A swap that MaySwap allows stays apart from the others.
LEMMA SwapBegun ==
    ASSUME sw \in [Targets -> SwapType], SwapsApart, NEW t \in Targets,
           NEW pc \in SwPcs \ {"idle"}, NEW V \in SUBSET (Aliases \ {t}), 
           sw[t].pc = "idle", MaySwap(t, V),
           sw' = [sw EXCEPT ![t] = [pc |-> pc, todo |-> V, evict |-> V]]
    PROVE  /\ sw' \in [Targets -> SwapType] /\ SwapsApart'
           /\ sw'[t].evict = V /\ sw'[t].pc = pc
           /\ \A u \in Targets \ {t} : sw'[u] = sw[u]
<1> DEFINE r == [pc |-> pc, todo |-> V, evict |-> V]
<1>1. r \in SwapType /\ r.pc = pc /\ r.evict = V /\ r.todo = V
    BY DEF SwapType
<1>2. /\ sw' \in [Targets -> SwapType]
      /\ sw'[t] = r /\ \A u \in Targets \ {t} : sw'[u] = sw[u]
    BY <1>1
<1> HIDE DEF r
<1>3. \A u \in Targets \ {t} : /\ t \notin sw[u].evict /\ V \intersect sw[u].evict = {}
                               /\ sw[u].pc # "idle" => u \notin V
    BY DEF MaySwap, SwapsApart
<1>4. sw[t].evict = {}
    BY DEF SwapsApart
<1>5. ASSUME NEW x \in Targets
      PROVE  /\ sw'[x].pc = "idle" => sw'[x].evict = {}
             /\ sw'[x].todo \subseteq sw'[x].evict
             /\ sw'[x].pc # "idle" => \A u \in Targets : x \notin sw'[u].evict
             /\ \A u \in Targets \ {x} : sw'[x].evict \intersect sw'[u].evict = {}
    BY <1>1, <1>2, <1>3, <1>4 DEF SwapsApart
<1>6. SwapsApart'
    BY <1>5 DEF SwapsApart
<1> QED BY <1>1, <1>2, <1>6

\* What a reconciliation leaves: the states follow the server and the leases.
LEMMA Reconciled ==
    ASSUME NEW view \in [Aliases -> Statuses], Reconcile(view),
           active \in [Aliases -> Nat]
    PROVE  /\ health' \in [Aliases -> Statuses] /\ states' \in [Aliases -> States]
           /\ health' = view
           /\ \A a \in Aliases : /\ states'[a] = "busy" => active[a] > 0
                                 /\ states'[a] \in {"ready", "busy"} => view[a] = "ready"
BY ObservedTyped DEF Reconcile

\* ... when the caller then sets the state of one model.
LEMMA ReconciledAs ==
    ASSUME NEW view \in [Aliases -> Statuses], NEW a \in Aliases,
           NEW st \in States \ {"busy"}, ReconcileAs(view, a, st),
           active \in [Aliases -> Nat]
    PROVE  /\ health' \in [Aliases -> Statuses] /\ states' \in [Aliases -> States]
           /\ health' = view /\ states'[a] = st
           /\ \A x \in Aliases : 
                 /\ states'[x] = "busy" => active[x] > 0
                 /\ states'[x] \in {"ready", "busy"} => x = a \/ view[x] = "ready"
BY ObservedTyped DEF ReconcileAs

\* The holder of opMu lets go of it, or goes on.
LEMMA OpTyped ==
    /\ Free \in OpType /\ Free.kind = "none"
    /\ op \in OpType => \A pc \in OpPcs :
         /\ [op EXCEPT !.pc = pc] \in OpType
         /\ [op EXCEPT !.pc = pc].kind = op.kind /\ [op EXCEPT !.pc = pc].for = op.for
         /\ [op EXCEPT !.pc = pc].arg = op.arg /\ [op EXCEPT !.pc = pc].pc = pc
BY DEF Free, Op, OpType, OpKinds, OpPcs

\* ... the next step is a step for the same swap or transient.
LEMMA OpGoesOn ==
    ASSUME op \in OpType, NEW pc \in OpPcs, op' = [op EXCEPT !.pc = pc]
    PROVE  /\ op' \in OpType /\ op'.kind = op.kind /\ op'.for = op.for
           /\ op'.arg = op.arg /\ op'.pc = pc /\ op'.items = op.items
BY DEF OpType

\* The initial state satisfies the invariant.
LEMMA InitHolds == Init => IInv
<1> SUFFICES ASSUME Init PROVE IInv
    OBVIOUS
<1>1. LoadedTyped /\ LeasesTyped /\ TimersTyped
    BY DEF Init, LoadedTyped, LeasesTyped, TimersTyped, Statuses, States
<1>2. op \in OpType /\ {swaps, faults, foreign} \subseteq Nat
    BY OpTyped DEF Init
<1>3. sw \in [Targets -> SwapType]
    BY DEF Init, SwapType, NoSwap, SwPcs
<1>4. SwapsApart /\ VictimsFree /\ DemandIsLoad
    BY DEF Init, SwapsApart, VictimsFree, DemandIsLoad, NoSwap, Targets
<1>5. Holder
    BY DEF Init, Holder, Free, Op, At
<1>6. BusyIsLeased
    BY DEF Init, BusyIsLeased
<1> QED BY <1>1, <1>2, <1>3, <1>4, <1>5, <1>6 DEF IInv, TypeOK

-----------------------------------------------------------------------------
(* The router's side: none of it holds opMu.                                *)

\* What opMu protects of the swaps is not touched by the start of another.
LEMMA HolderStays ==
    ASSUME IInv, UNCHANGED <<op, demand>>,
           NEW t \in Targets, sw[t].pc \notin {"stop", "load"} \/ (sw[t].todo = {} /\ sw[t].pc # "load"),
           \A u \in Targets \ {t} : sw'[u] = sw[u],
           \A a \in Aliases : states[a] = "draining" => states'[a] = states[a] /\ active'[a] = active[a]
    PROVE  Holder'
<1>1. op.kind = "unload" => op.for \in Targets \ {t}
    BY DEF IInv, Holder, SwapsApart
<1>2. op.kind = "load" => op.for \in Targets \ {t}
    BY DEF IInv, Holder, Targets
<1> QED BY <1>1, <1>2 DEF IInv, Holder, HasDemand, At, Targets

\* A new swap.
LEMMA StartSwapKeeps ==
    ASSUME IInv, NEW t \in Aliases, StartSwap(t)
    PROVE  IInv'
<1> DEFINE V == EvictionFor(t, Resident, Held(health))
<1>1. V \in SUBSET (Aliases \ {t}) /\ t \in Targets
    BY EvictionAssumption DEF Resident, Held, Targets
<1>2. /\ sw[t].pc = "idle" /\ MaySwap(t, V) /\ sw' = [sw EXCEPT ![t] = [pc |-> "stop", todo |-> V, evict |-> V]]
      /\ UNCHANGED <<lemonade, health, states, active, demand, owned, timer, loose, late, op, faults, foreign>>
    BY DEF StartSwap, timers
<1> HIDE DEF V
<1>3. /\ sw' \in [Targets -> SwapType] /\ SwapsApart'
      /\ sw'[t].evict = V /\ sw'[t].pc = "stop"
      /\ \A u \in Targets \ {t} : sw'[u] = sw[u]
    BY <1>1, <1>2, SwapBegun DEF IInv, TypeOK, SwPcs
<1>4. displaced' \in [Aliases -> SUBSET Aliases] /\ swaps' \in Nat
    BY <1>1 DEF IInv, TypeOK, LeasesTyped, StartSwap, BeginSwap, V
<1>5. TypeOK'
    BY <1>2, <1>3, <1>4 DEF IInv, TypeOK, LoadedTyped, LeasesTyped, TimersTyped
<1>6. VictimsFree'
    BY <1>1, <1>2, <1>3 DEF IInv, VictimsFree, MaySwap
<1>7. DemandIsLoad'
    BY <1>2, <1>3 DEF IInv, DemandIsLoad, Targets
<1>8. Holder'
    BY <1>1, <1>2, <1>3, HolderStays DEF IInv
<1> QED BY <1>2, <1>3, <1>5, <1>6, <1>7, <1>8 DEF IInv, BusyIsLeased

\* A new swap to a process-managed model.
LEMMA StartLocalSwapKeeps ==
    ASSUME IInv, StartLocalSwap
    PROVE  IInv'
<1> DEFINE V == {a \in Resident : states[a] # "draining"}
           pc == IF Resident = V THEN "sweep" ELSE "stop"
<1>1. V \in SUBSET (Aliases \ {Local}) /\ Local \in Targets /\ pc \in SwPcs \ {"idle"} /\ pc # "load"
    BY NoneAssumption DEF Resident, Targets, SwPcs
<1>2. /\ sw[Local].pc = "idle" /\ MaySwap(Local, V) /\ sw' = [sw EXCEPT ![Local] = [pc |-> pc, todo |-> V, evict |-> V]]
      /\ UNCHANGED <<lemonade, health, states, active, demand, owned, displaced, timer, loose, late, op, faults, foreign>>
      /\ swaps' = swaps + 1
    BY DEF StartLocalSwap, maps, timers
<1> HIDE DEF V, pc
<1>3. /\ sw' \in [Targets -> SwapType] /\ SwapsApart'
      /\ sw'[Local].evict = V /\ sw'[Local].pc = pc
      /\ \A u \in Targets \ {Local} : sw'[u] = sw[u]
    BY <1>1, <1>2, SwapBegun DEF IInv, TypeOK
<1>4. TypeOK'
    BY <1>2, <1>3 DEF IInv, TypeOK, LoadedTyped, LeasesTyped, TimersTyped
<1>5. VictimsFree'
    BY <1>1, <1>2, <1>3 DEF IInv, VictimsFree, MaySwap
<1>6. DemandIsLoad'
    BY <1>1, <1>2, <1>3, NoneAssumption DEF IInv, DemandIsLoad, Targets
<1>7. Holder'
    BY <1>1, <1>2, <1>3, HolderStays DEF IInv
<1> QED BY <1>2, <1>3, <1>4, <1>5, <1>6, <1>7 DEF IInv, BusyIsLeased

\* A swap to a process-managed model that is over.
LEMMA LocalSwapEndsKeeps ==
    ASSUME IInv, LocalSwapEnds
    PROVE  IInv'
<1>1. /\ sw[Local].pc = "stop" /\ sw[Local].todo = {} /\ sw' = [sw EXCEPT ![Local] = NoSwap]
      /\ UNCHANGED <<lemonade, health, states, active, demand, owned, displaced, timer, loose, late, op, swaps, faults, foreign>>
      /\ Local \in Targets
    BY DEF LocalSwapEnds, maps, timers, bounds, Targets
<1>2. /\ sw' \in [Targets -> SwapType] /\ SwapsApart'
      /\ \A u \in Targets : sw'[u].evict \subseteq sw[u].evict
      /\ \A u \in Targets \ {Local} : sw'[u] = sw[u]
    BY <1>1, SwapEnded DEF IInv, TypeOK
<1>3. TypeOK'
    BY <1>1, <1>2 DEF IInv, TypeOK, LoadedTyped, LeasesTyped, TimersTyped
<1>4. VictimsFree' /\ DemandIsLoad'
    BY <1>1, <1>2, NoneAssumption DEF IInv, VictimsFree, DemandIsLoad, Targets
<1>5. Holder'
    BY <1>1, <1>2, HolderStays DEF IInv
<1> QED BY <1>1, <1>2, <1>3, <1>4, <1>5 DEF IInv, BusyIsLeased

\* A lease is only given on a model that serves, which no swap has among its
\* victims.
LEMMA LeaseTyped ==
    ASSUME IInv, NEW a \in Aliases, Serving(a), Lease(a)
    PROVE  /\ active' \in [Aliases -> Nat] /\ states' \in [Aliases -> States]
           /\ timer' \in [Aliases -> {"none", "armed", "fired"}]
           /\ loose' \in [Aliases -> Nat] /\ late' \in [Aliases -> Nat]
           /\ active'[a] = active[a] + 1 /\ states'[a] = "busy"
           /\ \A b \in Aliases \ {a} : active'[b] = active[b] /\ states'[b] = states[b]
           /\ BusyIsLeased'
<1>1. /\ active' \in [Aliases -> Nat] /\ states' \in [Aliases -> States]
      /\ active'[a] = active[a] + 1 /\ states'[a] = "busy" /\ active[a] \in Nat
      /\ \A b \in Aliases \ {a} : active'[b] = active[b] /\ states'[b] = states[b]
    BY DEF IInv, TypeOK, LoadedTyped, LeasesTyped, Lease, setState, States
<1>2. BusyIsLeased'
    BY <1>1 DEF IInv, BusyIsLeased
<1> QED BY <1>1, <1>2, DropTimerTyped DEF IInv, Lease

\* Acquire on the fast path: the model is no victim.
LEMMA AcquireKeeps ==
    ASSUME IInv, NEW a \in Aliases, Acquire(a)
    PROVE  IInv'
<1>1. /\ Serving(a) /\ Lease(a) /\ \A u \in Targets : a \notin sw[u].evict
      /\ UNCHANGED <<lemonade, health, demand, owned, displaced, op, sw, swaps, faults, foreign>>
    BY DEF Acquire, bounds
<1>2. /\ active' \in [Aliases -> Nat] /\ states' \in [Aliases -> States]
      /\ timer' \in [Aliases -> {"none", "armed", "fired"}]
      /\ loose' \in [Aliases -> Nat] /\ late' \in [Aliases -> Nat]
      /\ \A b \in Aliases \ {a} : active'[b] = active[b] /\ states'[b] = states[b]
      /\ BusyIsLeased'
    BY <1>1, LeaseTyped
<1>3. TypeOK'
    BY <1>1, <1>2 DEF IInv, TypeOK, LoadedTyped, LeasesTyped, TimersTyped
<1>4. \A t \in Targets : sw[t].evict \subseteq Aliases \ {a}
    BY <1>1 DEF IInv, TypeOK, SwapType
<1>5. SwapsApart' /\ VictimsFree' /\ DemandIsLoad'
    BY <1>1, <1>2, <1>4 DEF IInv, SwapsApart, VictimsFree, DemandIsLoad
<1>6. Holder'
    BY <1>1, <1>2 DEF IInv, Holder, Serving, HasDemand, At
<1> QED BY <1>2, <1>3, <1>5, <1>6 DEF IInv

\* The end of a swap to a model, with a lease or without.
LEMMA SwapGrantsKeeps ==
    ASSUME IInv, NEW t \in Aliases, SwapGrants(t)
    PROVE  IInv'
<1>1. /\ sw[t].pc = "grant" /\ sw' = [sw EXCEPT ![t] = NoSwap] /\ t \in Targets
      /\ UNCHANGED <<lemonade, health, demand, owned, displaced, op, swaps, faults, foreign>>
    BY DEF SwapGrants, bounds, maps, Targets
<1>2. /\ sw' \in [Targets -> SwapType] /\ SwapsApart'
      /\ \A u \in Targets : sw'[u].evict \subseteq sw[u].evict
      /\ sw'[t].pc = "idle" /\ \A u \in Targets \ {t} : sw'[u] = sw[u]
    BY <1>1, SwapEnded DEF IInv, TypeOK
<1>3. \A u \in Targets : t \notin sw[u].evict /\ sw[u].evict \subseteq Aliases
    BY <1>1 DEF IInv, SwapsApart, TypeOK, SwapType
<1>4. /\ LoadedTyped' /\ active' \in [Aliases -> Nat] /\ TimersTyped'
      /\ \A b \in Aliases \ {t} : active'[b] = active[b] /\ states'[b] = states[b]
      /\ Serving(t) \/ UNCHANGED <<active, states>>
      /\ BusyIsLeased'
  <2>1. CASE Serving(t) /\ Lease(t)
    BY <1>1, <2>1, LeaseTyped DEF IInv, TypeOK, LoadedTyped, TimersTyped
  <2>2. CASE UNCHANGED <<maps, timers>>
    BY <1>1, <2>2 DEF IInv, TypeOK, LoadedTyped, LeasesTyped, TimersTyped, maps, timers, BusyIsLeased
  <2> QED BY <2>1, <2>2 DEF SwapGrants
<1>5. TypeOK'
    BY <1>1, <1>2, <1>4 DEF IInv, TypeOK, LeasesTyped
<1>6. VictimsFree'
    BY <1>2, <1>3, <1>4 DEF IInv, VictimsFree
<1>7. DemandIsLoad'
    BY <1>1, <1>2 DEF IInv, DemandIsLoad, Targets
<1>8. \A a \in Aliases : states[a] = "draining" => states'[a] = states[a] /\ active'[a] = active[a]
    BY <1>4 DEF Serving
<1>9. Holder'
    BY <1>1, <1>2, <1>8, HolderStays
<1> QED BY <1>2, <1>4, <1>5, <1>6, <1>7, <1>9 DEF IInv

\* Release.
LEMMA ReleaseKeeps ==
    ASSUME IInv, NEW a \in Aliases, Release(a)
    PROVE  IInv'
<1>1. /\ active[a] > 0 /\ active' = [active EXCEPT ![a] = @ - 1] /\ active \in [Aliases -> Nat]
      /\ states' = IF active[a] = 1 /\ states[a] = "busy"
                   THEN [states EXCEPT ![a] = "ready"] ELSE states
      /\ UNCHANGED <<lemonade, health, demand, owned, displaced, op, sw, swaps, faults, foreign>>
    BY DEF Release, bounds, IInv, TypeOK, LeasesTyped
<1>2. /\ active' \in [Aliases -> Nat] /\ active'[a] = active[a] - 1
      /\ \A b \in Aliases \ {a} : active'[b] = active[b]
    BY <1>1
<1>3. /\ states' \in [Aliases -> States]
      /\ \A b \in Aliases \ {a} : states'[b] = states[b]
      /\ states[a] # "busy" => states'[a] = states[a]
      /\ states'[a] = "busy" => active[a] # 1 /\ states[a] = "busy"
    BY <1>1 DEF IInv, TypeOK, LoadedTyped, States
<1>4. TimersTyped'
    BY DEF Release, IInv, TypeOK, TimersTyped, timers
<1>5. TypeOK'
    BY <1>1, <1>2, <1>3, <1>4 DEF IInv, TypeOK, LoadedTyped, LeasesTyped
<1>6. BusyIsLeased'
    BY <1>1, <1>2, <1>3 DEF IInv, BusyIsLeased
<1>7. SwapsApart' /\ DemandIsLoad'
    BY <1>1 DEF IInv, SwapsApart, DemandIsLoad
<1>8. VictimsFree'
    BY <1>1, <1>2 DEF IInv, VictimsFree, TypeOK, SwapType
<1>9. Holder'
    BY <1>1, <1>2, <1>3 DEF IInv, Holder, HasDemand, At
<1> QED BY <1>5, <1>6, <1>7, <1>8, <1>9 DEF IInv

-----------------------------------------------------------------------------
(* Unload.                                                                  *)

\* A victim is done with and opMu is free again.
LEMMA UnloadOverKeeps ==
    ASSUME IInv, NEW t \in Targets, NEW v, UnloadOver(v, t), UNCHANGED <<active, demand>>
    PROVE  /\ op' \in OpType /\ sw' \in [Targets -> SwapType]
           /\ SwapsApart' /\ VictimsFree' /\ DemandIsLoad' /\ Holder'
<1>1. /\ sw' \in [Targets -> SwapType] /\ SwapsApart'
      /\ \A u \in Targets : sw'[u].evict = sw[u].evict /\ sw'[u].pc = sw[u].pc
    BY VictimDone DEF IInv, TypeOK, UnloadOver
<1>2. op' = Free /\ op' \in OpType /\ op'.kind = "none"
    BY OpTyped DEF UnloadOver
<1>3. Holder'
    BY <1>2 DEF Holder, At
<1>4. VictimsFree' /\ DemandIsLoad'
    BY <1>1 DEF IInv, VictimsFree, DemandIsLoad, Targets
<1> QED BY <1>1, <1>2, <1>3, <1>4

\* opMu is taken for a victim.
LEMMA UnloadLocksKeeps ==
    ASSUME IInv, NEW t \in Targets, NEW v \in Aliases, UnloadLocks(t, v)
    PROVE  IInv'
<1>1. /\ sw[t].pc = "stop" /\ v \in sw[t].todo
      /\ UNCHANGED <<lemonade, active, demand, owned, displaced, timer, loose, late, swaps, foreign>>
      /\ faults' \in Nat /\ lemonade \in [Aliases -> Statuses] /\ active \in [Aliases -> Nat]
    BY DEF UnloadLocks, timers, Works, Fails, IInv, TypeOK, LoadedTyped, LeasesTyped
<1>2. CASE Reconcile(lemonade) /\ op' = Op("unload", t, v, "check", {}) /\ UNCHANGED sw
  <2>1. /\ health' \in [Aliases -> Statuses] /\ states' \in [Aliases -> States]
        /\ \A a \in Aliases : states'[a] = "busy" => active[a] > 0
    BY <1>1, <1>2, ObservedTyped DEF Reconcile
  <2>2. /\ op' \in OpType /\ op'.kind = "unload" /\ op'.for = t /\ op'.arg = v
    BY <1>2 DEF Op, OpType, OpKinds, OpPcs
  <2>3. Holder'
    BY <1>1, <1>2, <2>2 DEF Holder, At
  <2>4. TypeOK'
    BY <1>1, <1>2, <2>1, <2>2 DEF IInv, TypeOK, LoadedTyped, LeasesTyped, TimersTyped
  <2> QED BY <1>1, <1>2, <2>1, <2>3, <2>4
          DEF IInv, BusyIsLeased, SwapsApart, VictimsFree, DemandIsLoad
<1>3. CASE UnloadOver(v, t) /\ UNCHANGED <<health, states>>
  <2>1. /\ op' \in OpType /\ sw' \in [Targets -> SwapType]
        /\ SwapsApart' /\ VictimsFree' /\ DemandIsLoad' /\ Holder'
    BY <1>1, <1>3, UnloadOverKeeps
  <2>2. TypeOK'
    BY <1>1, <1>3, <2>1 DEF IInv, TypeOK, LoadedTyped, LeasesTyped, TimersTyped
  <2> QED BY <1>1, <1>3, <2>1, <2>2 DEF IInv, BusyIsLeased
<1> QED BY <1>2, <1>3 DEF UnloadLocks

\* The model is looked at before it is marked.
LEMMA UnloadChecksKeeps ==
    ASSUME IInv, UnloadChecks
    PROVE  IInv'
<1>1. /\ op.kind = "unload" /\ op.for \in Targets /\ op \in OpType
      /\ UNCHANGED <<lemonade, health, states, active, demand, owned, displaced,
                     timer, loose, late, swaps, faults, foreign>>
    BY DEF IInv, TypeOK, UnloadChecks, Holder, At, maps, timers, bounds
<1>2. CASE UnloadOver(op.arg, op.for)
  <2>1. /\ op' \in OpType /\ sw' \in [Targets -> SwapType]
        /\ SwapsApart' /\ VictimsFree' /\ DemandIsLoad' /\ Holder'
    BY <1>1, <1>2, UnloadOverKeeps
  <2>2. TypeOK'
    BY <1>1, <2>1 DEF IInv, TypeOK, LoadedTyped, LeasesTyped, TimersTyped
  <2> QED BY <1>1, <2>1, <2>2 DEF IInv, BusyIsLeased
<1>3. CASE op' = [op EXCEPT !.pc = "mark"] /\ UNCHANGED sw
  <2>1. /\ op' \in OpType /\ op'.kind = "unload" /\ op'.for = op.for /\ op'.arg = op.arg
        /\ op'.pc = "mark"
    BY <1>1, <1>3, OpTyped DEF OpPcs
  <2>2. Holder'
    BY <1>1, <1>3, <2>1 DEF IInv, Holder, At
  <2>3. TypeOK'
    BY <1>1, <1>3, <2>1 DEF IInv, TypeOK, LoadedTyped, LeasesTyped, TimersTyped
  <2> QED BY <1>1, <1>3, <2>2, <2>3 DEF IInv, BusyIsLeased, SwapsApart, VictimsFree, DemandIsLoad
<1> QED BY <1>2, <1>3 DEF UnloadChecks

\* The state of one model is set to what no lease contradicts.
LEMMA StateSet ==
    ASSUME LoadedTyped, BusyIsLeased, UNCHANGED active,
           NEW a \in Aliases \union {None}, NEW st \in States \ {"busy"}, setState(a, st)
    PROVE  states' \in [Aliases -> States] /\ BusyIsLeased'
<1>1. /\ states' \in [Aliases -> States]
      /\ \A b \in Aliases : states'[b] = IF b = a THEN st ELSE states[b]
    BY DEF LoadedTyped, setState
<1> QED BY <1>1 DEF BusyIsLeased

\* The model is marked as unloading.
LEMMA UnloadMarksKeeps ==
    ASSUME IInv, UnloadMarks
    PROVE  IInv'
<1>1. /\ op.kind = "unload" /\ op \in OpType /\ setState(op.arg, "unloading")
      /\ op' = [op EXCEPT !.pc = "call"]
      /\ UNCHANGED <<lemonade, health, active, demand, owned, displaced,
                     timer, loose, late, sw, swaps, faults, foreign>>
    BY DEF IInv, TypeOK, UnloadMarks, At, timers, bounds
<1>2. states' \in [Aliases -> States] /\ BusyIsLeased'
    BY <1>1, StateSet DEF IInv, TypeOK, OpType, States
<1>3. /\ op' \in OpType /\ op'.kind = "unload" /\ op'.for = op.for /\ op'.arg = op.arg
      /\ op'.pc = "call"
    BY <1>1, OpTyped DEF OpPcs
<1>4. Holder'
    BY <1>1, <1>3 DEF IInv, Holder, At
<1>5. TypeOK'
    BY <1>1, <1>2, <1>3 DEF IInv, TypeOK, LoadedTyped, LeasesTyped, TimersTyped
<1> QED BY <1>1, <1>2, <1>4, <1>5 DEF IInv, SwapsApart, VictimsFree, DemandIsLoad

\* The call that unloads it, whether it works or fails.
LEMMA UnloadCallsKeeps ==
    ASSUME IInv, UnloadCalls
    PROVE  IInv'
<1> DEFINE v == op.arg
           gone == [lemonade EXCEPT ![v] = "absent"]
<1>1. /\ op.for \in Targets /\ v \in Aliases /\ op \in OpType /\ UnloadOver(v, op.for)
      /\ UNCHANGED <<active, demand, displaced, timer, loose, late, swaps, foreign>>
      /\ active \in [Aliases -> Nat]
    BY DEF IInv, TypeOK, LeasesTyped, SwapType, UnloadCalls, Holder, At, timers
<1>2. /\ op' \in OpType /\ sw' \in [Targets -> SwapType]
      /\ SwapsApart' /\ VictimsFree' /\ DemandIsLoad' /\ Holder'
    BY <1>1, UnloadOverKeeps
<1>3. gone \in [Aliases -> Statuses] /\ lemonade \in [Aliases -> Statuses]
    BY DEF IInv, TypeOK, LoadedTyped, Statuses
<1>4. CASE Works /\ lemonade' = gone /\ ReconcileAs(gone, v, "unloaded") /\ owned' = [owned EXCEPT ![v] = FALSE]
  <2>1. /\ health' \in [Aliases -> Statuses] /\ states' \in [Aliases -> States]
        /\ \A a \in Aliases : states'[a] = "busy" => active[a] > 0
    BY <1>1, <1>3, <1>4, ReconciledAs DEF States
  <2>2. owned' \in [Aliases -> BOOLEAN]
    BY <1>4 DEF IInv, TypeOK, LeasesTyped
  <2>3. TypeOK'
    BY <1>1, <1>2, <1>3, <1>4, <2>1, <2>2 DEF IInv, TypeOK, LoadedTyped, LeasesTyped, TimersTyped, Works
  <2> QED BY <1>1, <1>2, <2>1, <2>3 DEF IInv, BusyIsLeased
<1>5. CASE Fails /\ lemonade' \in {lemonade, gone} /\ setState(v, "failed") /\ UNCHANGED <<health, owned>>
  <2>1. states' \in [Aliases -> States] /\ BusyIsLeased'
    BY <1>1, <1>5, StateSet DEF IInv, TypeOK, States
  <2>2. TypeOK'
    BY <1>1, <1>2, <1>3, <1>5, <2>1 DEF IInv, TypeOK, LoadedTyped, LeasesTyped, TimersTyped, Fails
  <2> QED BY <1>2, <2>1, <2>2 DEF IInv
<1> QED BY <1>4, <1>5 DEF UnloadCalls

\* UnloadAll.
LEMMA UnloadAllKeeps ==
    ASSUME IInv, UnloadAll
    PROVE  IInv'
<1>1. /\ op = Free /\ sw[Local].pc = "sweep" /\ sw' = [sw EXCEPT ![Local] = NoSwap]
      /\ UNCHANGED <<active, demand, timer, loose, late, op, swaps, foreign>>
      /\ Local \in Targets
    BY DEF UnloadAll, timers, Targets
<1>2. /\ sw' \in [Targets -> SwapType] /\ SwapsApart'
      /\ \A u \in Targets : sw'[u].evict \subseteq sw[u].evict
      /\ \A u \in Targets \ {Local} : sw'[u] = sw[u]
    BY <1>1, SwapEnded DEF IInv, TypeOK
<1>3. VictimsFree' /\ DemandIsLoad'
    BY <1>1, <1>2, NoneAssumption DEF IInv, VictimsFree, DemandIsLoad, Targets
<1>4. Holder'
    BY <1>1, OpTyped DEF Holder, At
<1>5. /\ LoadedTyped' /\ owned' \in [Aliases -> BOOLEAN]
      /\ displaced' \in [Aliases -> SUBSET Aliases] /\ faults' \in Nat /\ BusyIsLeased'
  <2>1. CASE UNCHANGED <<lemonade, health, states, owned, displaced>> /\ Fails
    BY <1>1, <2>1 DEF IInv, TypeOK, LoadedTyped, LeasesTyped, Fails, BusyIsLeased
  <2>2. CASE /\ lemonade' = [a \in Aliases |-> "absent"] /\ health' = lemonade'
             /\ states' = [a \in Aliases |-> "unloaded"] /\ owned' = [a \in Aliases |-> FALSE]
             /\ displaced' = [a \in Aliases |-> {}] /\ Works
    BY <2>2 DEF IInv, TypeOK, LoadedTyped, Statuses, States, Works, BusyIsLeased
  <2> QED BY <2>1, <2>2 DEF UnloadAll
<1>6. TypeOK'
    BY <1>1, <1>2, <1>5 DEF IInv, TypeOK, LeasesTyped, TimersTyped
<1> QED BY <1>2, <1>3, <1>4, <1>5, <1>6 DEF IInv

-----------------------------------------------------------------------------
(* Load.                                                                    *)

\* The swap has stopped its victims and asks for the load.
LEMMA LoadBeginsKeeps ==
    ASSUME IInv, NEW t \in Aliases, LoadBegins(t)
    PROVE  IInv'
<1>1. /\ sw[t].pc = "stop" /\ sw[t].todo = {} /\ t \in Targets /\ dropTimer(t)
      /\ demand' = [demand EXCEPT ![t] = @ + 1] /\ sw' = [sw EXCEPT ![t].pc = "load"]
      /\ UNCHANGED <<lemonade, health, states, active, owned, displaced, op, swaps, faults, foreign>>
    BY DEF LoadBegins, bounds, Targets
<1>2. /\ sw' \in [Targets -> SwapType] /\ SwapsApart'
      /\ \A u \in Targets : sw'[u].evict = sw[u].evict /\ sw'[u].todo = sw[u].todo
      /\ sw'[t].pc = "load" /\ \A u \in Targets \ {t} : sw'[u] = sw[u]
    BY <1>1, SwapMoved DEF IInv, TypeOK, SwPcs
<1>3. demand' \in [Aliases -> Nat] /\ DemandIsLoad'
    BY <1>1, <1>2 DEF IInv, DemandIsLoad, TypeOK, LeasesTyped, Targets
<1>4. TypeOK'
    BY <1>1, <1>2, <1>3, DropTimerTyped DEF IInv, TypeOK, LoadedTyped, LeasesTyped, TimersTyped
<1>5. VictimsFree'
    BY <1>1, <1>2 DEF IInv, VictimsFree
<1>6. \A a \in Aliases : HasDemand(a) => HasDemand(a)'
    BY <1>1 DEF HasDemand, IInv, TypeOK, LeasesTyped
<1>7. Holder'
  <2>1. op.kind = "unload" => op.for \in Targets \ {t}
    BY <1>1 DEF IInv, Holder
  <2>2. op.kind = "load" => op.for \in Targets \ {t}
    BY <1>1 DEF IInv, Holder, Targets
  <2> QED BY <1>1, <1>2, <1>6, <2>1, <2>2 DEF IInv, Holder, At, Targets
<1> QED BY <1>1, <1>2, <1>3, <1>4, <1>5, <1>7 DEF IInv, BusyIsLeased

\* The Load returns and opMu is free again.
LEMMA LoadReturnsKeeps ==
    ASSUME IInv, NEW t \in Aliases, NEW ok \in BOOLEAN, sw[t].pc = "load",
           LoadReturns(t, ok), UNCHANGED active
    PROVE  /\ op' \in OpType /\ sw' \in [Targets -> SwapType] /\ demand' \in [Aliases -> Nat]
           /\ SwapsApart' /\ VictimsFree' /\ DemandIsLoad' /\ Holder'
<1>1. op' = Free /\ op' \in OpType /\ op'.kind = "none" /\ t \in Targets
    BY OpTyped DEF LoadReturns, Targets
<1>2. Holder'
    BY <1>1 DEF Holder, At
<1>3. /\ sw' \in [Targets -> SwapType] /\ SwapsApart'
      /\ \A u \in Targets : sw'[u].evict \subseteq sw[u].evict
      /\ sw'[t].pc # "load" /\ \A u \in Targets \ {t} : sw'[u] = sw[u]
  <2>1. CASE ok
    <3>1. sw' = [sw EXCEPT ![t].pc = "grant"]
      BY <2>1 DEF LoadReturns
    <3>2. /\ sw \in [Targets -> SwapType] /\ SwapsApart /\ sw[t].pc # "idle"
          /\ "grant" \in SwPcs \ {"idle"}
      BY DEF IInv, TypeOK, SwPcs
    <3> QED BY <1>1, <3>1, <3>2, SwapMoved
  <2>2. CASE ~ok
    <3>1. sw' = [sw EXCEPT ![t] = NoSwap]
      BY <2>2 DEF LoadReturns
    <3> QED BY <1>1, <3>1, SwapEnded DEF IInv, TypeOK
  <2> QED BY <2>1, <2>2
<1>4. VictimsFree'
    BY <1>3 DEF IInv, VictimsFree
<1>5. demand[t] = 1 /\ demand' = [demand EXCEPT ![t] = @ - 1] /\ demand \in [Aliases -> Nat]
    BY DEF IInv, DemandIsLoad, LoadReturns, TypeOK, LeasesTyped
<1>6. demand' \in [Aliases -> Nat] /\ demand'[t] = 0 /\ \A a \in Aliases \ {t} : demand'[a] = demand[a]
    BY <1>5
<1>7. DemandIsLoad'
    BY <1>3, <1>6 DEF IInv, DemandIsLoad, Targets
<1> QED BY <1>1, <1>2, <1>3, <1>4, <1>6, <1>7

\* opMu is taken for the load.
LEMMA LoadLocksKeeps ==
    ASSUME IInv, NEW t \in Aliases, LoadLocks(t)
    PROVE  IInv'
<1>1. /\ sw[t].pc = "load"
      /\ UNCHANGED <<lemonade, active, owned, displaced, timer, loose, late, swaps, foreign>>
      /\ Works \/ Fails
    BY DEF LoadLocks, timers
<1> /\ faults' \in Nat /\ lemonade \in [Aliases -> Statuses] /\ active \in [Aliases -> Nat]
    BY <1>1 DEF Works, Fails, IInv, TypeOK, LoadedTyped, LeasesTyped
<1>2. CASE Reconcile(lemonade) /\ op' = Op("load", t, t, "check", {}) /\ UNCHANGED <<demand, sw>>
  <2>1. /\ health' \in [Aliases -> Statuses] /\ states' \in [Aliases -> States]
        /\ \A a \in Aliases : states'[a] = "busy" => active[a] > 0
    BY <1>1, <1>2, ObservedTyped DEF Reconcile
  <2>2. /\ op' \in OpType /\ op'.kind = "load" /\ op'.for = t
    BY <1>2 DEF Op, OpType, OpKinds, OpPcs, Targets
  <2>3. Holder'
    BY <1>1, <1>2, <2>2 DEF Holder, At
  <2>4. TypeOK'
    BY <1>1, <1>2, <2>1, <2>2 DEF IInv, TypeOK, LoadedTyped, LeasesTyped, TimersTyped
  <2> QED BY <1>1, <1>2, <2>1, <2>3, <2>4
          DEF IInv, BusyIsLeased, SwapsApart, VictimsFree, DemandIsLoad
<1>3. CASE LoadReturns(t, FALSE) /\ UNCHANGED <<health, states>>
  <2>1. /\ op' \in OpType /\ sw' \in [Targets -> SwapType] /\ demand' \in [Aliases -> Nat]
        /\ SwapsApart' /\ VictimsFree' /\ DemandIsLoad' /\ Holder'
    BY <1>1, <1>3, LoadReturnsKeeps
  <2>2. TypeOK'
    BY <1>1, <1>3, <2>1 DEF IInv, TypeOK, LoadedTyped, LeasesTyped, TimersTyped
  <2> QED BY <1>1, <1>3, <2>1, <2>2 DEF IInv, BusyIsLeased
<1> QED BY <1>2, <1>3 DEF LoadLocks

\* The load is coalesced, or refused.
LEMMA LoadEndsKeeps ==
    ASSUME IInv, LoadCoalesces \/ LoadRefused
    PROVE  IInv'
<1>1. /\ op.for \in Aliases /\ sw[op.for].pc = "load"
      /\ UNCHANGED <<lemonade, health, states, active, owned, displaced, timer, loose, late,
                     swaps, faults, foreign>>
      /\ \E ok \in BOOLEAN : LoadReturns(op.for, ok)
    BY DEF LoadCoalesces, LoadRefused, timers, bounds, At, IInv, Holder
<1>2. /\ op' \in OpType /\ sw' \in [Targets -> SwapType] /\ demand' \in [Aliases -> Nat]
      /\ SwapsApart' /\ VictimsFree' /\ DemandIsLoad' /\ Holder'
    BY <1>1, LoadReturnsKeeps
<1>3. TypeOK'
    BY <1>1, <1>2 DEF IInv, TypeOK, LoadedTyped, LeasesTyped, TimersTyped
<1> QED BY <1>1, <1>2, <1>3 DEF IInv, BusyIsLeased

\* There is room: the model is marked as loading.
LEMMA LoadMarksKeeps ==
    ASSUME IInv, LoadMarks
    PROVE  IInv'
<1>1. /\ op.kind = "load" /\ op \in OpType /\ op.for \in Aliases /\ setState(op.for, "loading")
      /\ op' = [op EXCEPT !.pc = "call"]
      /\ UNCHANGED <<lemonade, health, active, demand, owned, displaced,
                     timer, loose, late, sw, swaps, faults, foreign>>
    BY DEF IInv, TypeOK, LoadMarks, Holder, At, timers, bounds
<1>2. states' \in [Aliases -> States] /\ BusyIsLeased'
    BY <1>1, StateSet DEF IInv, TypeOK, States
<1>3. /\ op' \in OpType /\ op'.kind = "load" /\ op'.for = op.for /\ op'.pc = "call"
    BY <1>1, OpTyped DEF OpPcs
<1>4. Holder'
    BY <1>1, <1>3 DEF IInv, Holder, At
<1>5. TypeOK'
    BY <1>1, <1>2, <1>3 DEF IInv, TypeOK, LoadedTyped, LeasesTyped, TimersTyped
<1> QED BY <1>1, <1>2, <1>4, <1>5 DEF IInv, SwapsApart, VictimsFree, DemandIsLoad

\* The call that loads it, whether it works or fails.
LEMMA LoadCallsKeeps ==
    ASSUME IInv, LoadCalls
    PROVE  IInv'
<1> DEFINE t == op.for
           there == [lemonade EXCEPT ![t] = "ready"]
           ok == active[t] = 0
<1>1. /\ t \in Aliases /\ sw[t].pc = "load"
      /\ UNCHANGED <<active, displaced, timer, loose, late, swaps, foreign>>
      /\ active \in [Aliases -> Nat]
    BY DEF IInv, TypeOK, LeasesTyped, LoadCalls, Holder, At, timers
<1>2. there \in [Aliases -> Statuses] /\ lemonade \in [Aliases -> Statuses]
    BY DEF IInv, TypeOK, LoadedTyped, Statuses
<1>3. CASE /\ Works /\ lemonade' = there
           /\ ReconcileAs(there, t, IF ok THEN "ready" ELSE "failed")
           /\ owned' = IF ok THEN [owned EXCEPT ![t] = TRUE] ELSE owned
           /\ LoadReturns(t, ok)
  <2>1. /\ op' \in OpType /\ sw' \in [Targets -> SwapType] /\ demand' \in [Aliases -> Nat]
        /\ SwapsApart' /\ VictimsFree' /\ DemandIsLoad' /\ Holder'
    BY <1>1, <1>3, LoadReturnsKeeps
  <2>2. PICK st \in {"ready", "failed"} : ReconcileAs(there, t, st)
    BY <1>3
  <2>3. /\ health' \in [Aliases -> Statuses] /\ states' \in [Aliases -> States]
        /\ \A a \in Aliases : states'[a] = "busy" => active[a] > 0
    BY <1>1, <1>2, <2>2, ReconciledAs DEF States
  <2>4. owned' \in [Aliases -> BOOLEAN]
    BY <1>3 DEF IInv, TypeOK, LeasesTyped
  <2>5. TypeOK'
    BY <1>1, <1>2, <1>3, <2>1, <2>3, <2>4 DEF IInv, TypeOK, LoadedTyped, LeasesTyped, TimersTyped, Works
  <2> QED BY <1>1, <2>1, <2>3, <2>5 DEF IInv, BusyIsLeased
<1>4. CASE /\ Fails /\ lemonade' \in {lemonade, there} /\ setState(t, "failed")
           /\ LoadReturns(t, FALSE) /\ UNCHANGED <<health, owned>>
  <2>1. /\ op' \in OpType /\ sw' \in [Targets -> SwapType] /\ demand' \in [Aliases -> Nat]
        /\ SwapsApart' /\ VictimsFree' /\ DemandIsLoad' /\ Holder'
    BY <1>1, <1>4, LoadReturnsKeeps
  <2>2. states' \in [Aliases -> States] /\ BusyIsLeased'
    BY <1>1, <1>4, StateSet DEF IInv, TypeOK, States
  <2>3. TypeOK'
    BY <1>1, <1>2, <1>4, <2>1, <2>2 DEF IInv, TypeOK, LoadedTyped, LeasesTyped, TimersTyped, Fails
  <2> QED BY <2>1, <2>2, <2>3 DEF IInv
<1> QED BY <1>3, <1>4 DEF LoadCalls

-----------------------------------------------------------------------------
(* The timers and the restoration.                                          *)

\* A timer fires, the one in the map or a loose one.
LEMMA TimersKeep ==
    ASSUME IInv, NEW t \in Aliases, TimerFires(t) \/ LooseTimerFires(t)
    PROVE  IInv'
<1>1. /\ UNCHANGED <<lemonade, health, states, active, demand, owned, displaced, op, sw,
                     swaps, faults, foreign>>
      /\ TimersTyped'
    BY DEF TimerFires, LooseTimerFires, maps, bounds, IInv, TypeOK, TimersTyped
<1>2. TypeOK'
    BY <1>1 DEF IInv, TypeOK, LoadedTyped, LeasesTyped
<1>3. Holder'
    BY <1>1 DEF IInv, Holder, HasDemand, At
<1> QED BY <1>1, <1>2, <1>3 DEF IInv, BusyIsLeased, SwapsApart, VictimsFree, DemandIsLoad

\* A restoration gets opMu, and goes on or gives up.
LEMMA RestoreLocksKeeps ==
    ASSUME IInv, NEW t \in Aliases, NEW current \in BOOLEAN, RestoreLocks(t, current)
    PROVE  IInv'
<1>1. UNCHANGED <<lemonade, health, active, demand, owned, displaced, sw, swaps, faults, foreign>>
    BY DEF RestoreLocks, bounds
<1>2. timer' \in [Aliases -> {"none", "armed", "fired"}] /\ loose' \in [Aliases -> Nat]
    BY DEF RestoreLocks, IInv, TypeOK, TimersTyped
<1>3. late' \in [Aliases -> Nat]
  <2>1. late \in [Aliases -> Nat]
    BY DEF IInv, TypeOK, TimersTyped
  <2>2. CASE late' = late
    BY <2>1, <2>2
  <2>3. CASE late' = [late EXCEPT ![t] = @ - 1] /\ late[t] > 0
    BY <2>1, <2>3
  <2> QED BY <2>2, <2>3 DEF RestoreLocks
<1>4. CASE UNCHANGED <<states, op>>
  <2>1. TypeOK'
    BY <1>1, <1>2, <1>3, <1>4 DEF IInv, TypeOK, LoadedTyped, LeasesTyped, TimersTyped
  <2>2. Holder'
    BY <1>1, <1>4 DEF IInv, Holder, HasDemand, At
  <2> QED BY <1>1, <1>4, <2>1, <2>2 DEF IInv, BusyIsLeased, SwapsApart, VictimsFree, DemandIsLoad
<1>5. CASE /\ ~ (active[t] > 0) /\ setState(t, "draining")
           /\ op' = Op("restore", t, t, "reconcile", displaced[t])
  <2>1. states' \in [Aliases -> States] /\ BusyIsLeased'
    BY <1>1, <1>5, StateSet DEF IInv, TypeOK, States
  <2>2. /\ op' \in OpType /\ op'.kind = "restore" /\ op'.for = t /\ op'.pc = "reconcile"
    BY <1>5 DEF Op, OpType, OpKinds, OpPcs, Targets, IInv, TypeOK, LeasesTyped
  <2>3. active'[t] = 0 /\ states'[t] = "draining"
    BY <1>1, <1>5 DEF IInv, TypeOK, LoadedTyped, LeasesTyped, setState
  <2>4. Holder'
    BY <2>2, <2>3 DEF Holder, At
  <2>5. TypeOK'
    BY <1>1, <1>2, <1>3, <2>1, <2>2 DEF IInv, TypeOK, LoadedTyped, LeasesTyped, TimersTyped
  <2> QED BY <1>1, <2>1, <2>4, <2>5 DEF IInv, SwapsApart, VictimsFree, DemandIsLoad
<1> QED BY <1>4, <1>5 DEF RestoreLocks

\* What any step of a restoration under opMu does: it changes what is loaded
\* and the states, and goes on or lets go of opMu.
LEMMA RestoreStepKeeps ==
    ASSUME IInv,
           UNCHANGED <<active, demand, displaced, timer, loose, late, sw, swaps, foreign>>,
           LoadedTyped', owned' \in [Aliases -> BOOLEAN], faults' \in Nat, op' \in OpType,
           BusyIsLeased', Holder'
    PROVE  IInv'
<1>1. TypeOK'
    BY DEF IInv, TypeOK, LeasesTyped, TimersTyped
<1> QED BY <1>1 DEF IInv, SwapsApart, VictimsFree, DemandIsLoad

\* A restoration fails.
LEMMA RestoreFailsKeeps ==
    ASSUME IInv, NEW a \in Aliases, RestoreFails(a), UNCHANGED active
    PROVE  /\ states' \in [Aliases -> States] /\ UNCHANGED health /\ BusyIsLeased'
           /\ op' \in OpType /\ Holder'
<1>1. op' = Free /\ op' \in OpType /\ op'.kind = "none"
    BY OpTyped DEF RestoreFails
<1>2. states' \in [Aliases -> States] /\ BusyIsLeased'
    BY StateSet DEF IInv, TypeOK, States, RestoreFails
<1> QED BY <1>1, <1>2 DEF RestoreFails, Holder, At

\* The next step of a restoration is a step for the same transient.
LEMMA RestoreGoesOn ==
    ASSUME IInv, op.kind = "restore", NEW pc \in OpPcs, op' = [op EXCEPT !.pc = pc]
    PROVE  /\ op' \in OpType /\ op'.kind = "restore" /\ op'.for = op.for /\ op'.pc = pc
           /\ op.for \in Aliases /\ op'.items = op.items /\ op'.arg = op.arg
BY DEF IInv, TypeOK, OpType, Holder

\* Its view of the server, first of all.
LEMMA RestoreReconcilesKeeps ==
    ASSUME IInv, RestoreReconciles
    PROVE  IInv'
<1>1. /\ op.kind = "restore" /\ op.for \in Aliases
      /\ UNCHANGED <<lemonade, active, demand, owned, displaced, timer, loose, late, sw, swaps, foreign>>
      /\ faults' \in Nat /\ lemonade \in [Aliases -> Statuses] /\ active \in [Aliases -> Nat]
    BY DEF RestoreReconciles, timers, At, Works, Fails, IInv, TypeOK, LoadedTyped, LeasesTyped, Holder
<1>2. /\ LoadedTyped' /\ BusyIsLeased' /\ op' \in OpType /\ Holder'
  <2>1. CASE Reconcile(lemonade) /\ op' = [op EXCEPT !.pc = "drain"]
    <3>1. /\ health' \in [Aliases -> Statuses] /\ states' \in [Aliases -> States]
          /\ \A a \in Aliases : states'[a] = "busy" => active[a] > 0
      BY <1>1, <2>1, ObservedTyped DEF Reconcile
    <3>2. op' \in OpType /\ op'.kind = "restore" /\ op'.for = op.for /\ op'.pc = "drain"
      BY <1>1, <2>1, RestoreGoesOn DEF OpPcs
    <3>3. Holder'
      BY <1>1, <3>2 DEF Holder, At
    <3> QED BY <1>1, <3>1, <3>2, <3>3 DEF LoadedTyped, BusyIsLeased
  <2>2. CASE RestoreFails(op.for)
    BY <1>1, <2>2, RestoreFailsKeeps DEF IInv, TypeOK, LoadedTyped
  <2> QED BY <2>1, <2>2 DEF RestoreReconciles
<1> QED BY <1>1, <1>2, RestoreStepKeeps DEF IInv, TypeOK, LeasesTyped

\* The second look at leases and demand.
LEMMA RestoreDrainsKeeps ==
    ASSUME IInv, RestoreDrains
    PROVE  IInv'
<1>1. /\ op.kind = "restore" /\ op.for \in Aliases
      /\ UNCHANGED <<lemonade, health, active, demand, owned, displaced, timer, loose, late,
                     sw, swaps, faults, foreign>>
    BY DEF RestoreDrains, timers, bounds, At, IInv, Holder
<1>2. /\ states' \in [Aliases -> States] /\ BusyIsLeased' /\ op' \in OpType /\ Holder'
  <2>1. CASE setState(op.for, "ready") /\ op' = Free
    BY <1>1, <2>1, StateSet, OpTyped DEF IInv, TypeOK, States, Holder, At
  <2>2. CASE /\ ~ (active[op.for] > 0)
             /\ setState(op.for, "draining") /\ op' = [op EXCEPT !.pc = "unload"]
    <3>1. states' \in [Aliases -> States] /\ BusyIsLeased'
      BY <1>1, <2>2, StateSet DEF IInv, TypeOK, States
    <3>2. op' \in OpType /\ op'.kind = "restore" /\ op'.for = op.for /\ op'.pc = "unload"
      BY <1>1, <2>2, RestoreGoesOn DEF OpPcs
    <3>3. active'[op.for] = 0 /\ states'[op.for] = "draining"
      BY <1>1, <2>2 DEF IInv, TypeOK, LoadedTyped, LeasesTyped, setState
    <3> QED BY <1>1, <3>1, <3>2, <3>3 DEF Holder, At
  <2> QED BY <2>1, <2>2 DEF RestoreDrains
<1> QED BY <1>1, <1>2, RestoreStepKeeps DEF IInv, TypeOK, LeasesTyped, LoadedTyped

\* The call that unloads the transient.
LEMMA RestoreUnloadsKeeps ==
    ASSUME IInv, RestoreUnloads
    PROVE  IInv'
<1> DEFINE gone == [lemonade EXCEPT ![op.for] = "absent"]
<1>1. /\ op.kind = "restore" /\ op.for \in Aliases
      /\ UNCHANGED <<active, demand, owned, displaced, timer, loose, late, sw, swaps, foreign>>
      /\ faults' \in Nat /\ active \in [Aliases -> Nat]
    BY DEF RestoreUnloads, timers, At, Works, Fails, IInv, TypeOK, LeasesTyped, Holder
<1>2. gone \in [Aliases -> Statuses] /\ lemonade \in [Aliases -> Statuses]
    BY DEF IInv, TypeOK, LoadedTyped, Statuses
<1>3. /\ LoadedTyped' /\ BusyIsLeased' /\ op' \in OpType /\ Holder'
  <2>1. CASE lemonade' = gone /\ Reconcile(gone) /\ op' = [op EXCEPT !.pc = "item"]
    <3>1. /\ health' \in [Aliases -> Statuses] /\ states' \in [Aliases -> States]
          /\ \A a \in Aliases : states'[a] = "busy" => active[a] > 0
      BY <1>1, <1>2, <2>1, ObservedTyped DEF Reconcile
    <3>2. op' \in OpType /\ op'.kind = "restore" /\ op'.for = op.for /\ op'.pc = "item"
      BY <1>1, <2>1, RestoreGoesOn DEF OpPcs
    <3>3. Holder'
      BY <1>1, <3>2 DEF Holder, At
    <3> QED BY <1>1, <1>2, <2>1, <3>1, <3>2, <3>3 DEF LoadedTyped, BusyIsLeased
  <2>2. CASE lemonade' \in {lemonade, gone} /\ RestoreFails(op.for)
    BY <1>1, <1>2, <2>2, RestoreFailsKeeps DEF IInv, TypeOK, LoadedTyped
  <2> QED BY <2>1, <2>2 DEF RestoreUnloads
<1> QED BY <1>1, <1>3, RestoreStepKeeps DEF IInv, TypeOK, LeasesTyped

\* The next model to restore, if there is room for it.
LEMMA RestoreItemKeeps ==
    ASSUME IInv, RestoreItem
    PROVE  IInv'
<1>1. /\ op.kind = "restore" /\ op.for \in Aliases /\ FirstItem \in Aliases /\ op \in OpType
      /\ UNCHANGED <<lemonade, active, demand, owned, displaced, timer, loose, late,
                     sw, swaps, faults, foreign>>
    BY FirstItemIsItem DEF RestoreItem, timers, bounds, At, IInv, TypeOK, OpType, Holder
<1>2. /\ LoadedTyped' /\ BusyIsLeased' /\ op' \in OpType /\ Holder'
  <2>1. CASE HasDemand(op.for) /\ op' = [op EXCEPT !.pc = "resume"] /\ UNCHANGED <<states, health>>
    <3>1. op' \in OpType /\ op'.kind = "restore" /\ op'.for = op.for /\ op'.pc = "resume"
      BY <1>1, <2>1, RestoreGoesOn DEF OpPcs
    <3>2. Holder'
      BY <1>1, <2>1, <3>1 DEF Holder, At, HasDemand
    <3> QED BY <1>1, <2>1, <3>1, <3>2 DEF IInv, TypeOK, LoadedTyped, BusyIsLeased
  <2>2. CASE RestoreFails(FirstItem)
    BY <1>1, <2>2, RestoreFailsKeeps DEF IInv, TypeOK, LoadedTyped
  <2>3. CASE op' = [op EXCEPT !.pc = "load", !.arg = FirstItem] /\ UNCHANGED <<states, health>>
    <3>1. op' \in OpType /\ op'.kind = "restore" /\ op'.for = op.for /\ op'.pc = "load"
      BY <1>1, <2>3 DEF OpType, OpPcs
    <3>2. Holder'
      BY <1>1, <3>1 DEF Holder, At
    <3> QED BY <1>1, <2>3, <3>1, <3>2 DEF IInv, TypeOK, LoadedTyped, BusyIsLeased
  <2> QED BY <2>1, <2>2, <2>3 DEF RestoreItem
<1> QED BY <1>1, <1>2, RestoreStepKeeps DEF IInv, TypeOK, LeasesTyped
\* The load of the next model.
LEMMA RestoreLoadsKeeps ==
    ASSUME IInv, RestoreLoads
    PROVE  IInv'
<1> DEFINE there == [lemonade EXCEPT ![op.arg] = "ready"]
<1>1. /\ op.kind = "restore" /\ op.for \in Aliases /\ op.pc = "load"
      /\ UNCHANGED <<active, demand, owned, displaced, timer, loose, late, sw, swaps, foreign>>
      /\ faults' \in Nat /\ active \in [Aliases -> Nat]
    BY DEF RestoreLoads, timers, At, Works, Fails, IInv, TypeOK, LeasesTyped, Holder
<1>2. there \in [Aliases -> Statuses] /\ lemonade \in [Aliases -> Statuses]
    BY DEF IInv, TypeOK, LoadedTyped, Statuses
<1>3. /\ LoadedTyped' /\ BusyIsLeased' /\ op' \in OpType /\ Holder'
  <2>1. CASE HasDemand(op.for) /\ op' = [op EXCEPT !.pc = "resume"] /\ UNCHANGED <<lemonade, states, health>>
    <3>1. op' \in OpType /\ op'.kind = "restore" /\ op'.for = op.for /\ op'.pc = "resume"
      BY <1>1, <2>1, RestoreGoesOn DEF OpPcs
    <3>2. Holder'
      BY <1>1, <2>1, <3>1 DEF Holder, At, HasDemand
    <3> QED BY <1>1, <2>1, <3>1, <3>2 DEF IInv, TypeOK, LoadedTyped, BusyIsLeased
  <2>2. CASE lemonade' = there /\ Reconcile(there) /\ op' = [op EXCEPT !.pc = "after"]
    <3>1. /\ health' \in [Aliases -> Statuses] /\ states' \in [Aliases -> States]
          /\ \A a \in Aliases : states'[a] = "busy" => active[a] > 0
      BY <1>1, <1>2, <2>2, ObservedTyped DEF Reconcile
    <3>2. op' \in OpType /\ op'.kind = "restore" /\ op'.for = op.for /\ op'.pc = "after"
      BY <1>1, <2>2, RestoreGoesOn DEF OpPcs
    <3>3. Holder'
      BY <1>1, <3>2 DEF Holder, At
    <3> QED BY <1>1, <1>2, <2>2, <3>1, <3>2, <3>3 DEF LoadedTyped, BusyIsLeased
  <2>3. CASE lemonade' \in {lemonade, there} /\ RestoreFails(op.arg)
    <3>1. states' \in [Aliases -> States] /\ BusyIsLeased'
      BY <1>1, <2>3, StateSet DEF IInv, TypeOK, OpType, States, RestoreFails
    <3>2. op' = Free /\ op' \in OpType /\ op'.kind = "none"
      BY <2>3, OpTyped DEF RestoreFails
    <3>3. Holder'
      BY <3>2 DEF Holder, At
    <3> QED BY <1>2, <2>3, <3>1, <3>2, <3>3 DEF IInv, TypeOK, LoadedTyped, RestoreFails
  <2> QED BY <2>1, <2>2, <2>3 DEF RestoreLoads
<1> QED BY <1>1, <1>3, RestoreStepKeeps DEF IInv, TypeOK, LeasesTyped

\* The look at the demand after it.
LEMMA RestoreAfterKeeps ==
    ASSUME IInv, RestoreAfter
    PROVE  IInv'
<1> DEFINE gone == [lemonade EXCEPT ![op.arg] = "absent"]
<1>1. /\ op.kind = "restore" /\ op.for \in Aliases /\ op \in OpType
      /\ UNCHANGED <<active, demand, owned, displaced, timer, loose, late, sw, swaps, foreign>>
      /\ faults' \in Nat /\ active \in [Aliases -> Nat]
    BY DEF RestoreAfter, timers, At, Works, Fails, IInv, TypeOK, LeasesTyped, Holder
<1>2. gone \in [Aliases -> Statuses] /\ lemonade \in [Aliases -> Statuses]
    BY DEF IInv, TypeOK, LoadedTyped, Statuses
<1>3. op' \in OpType /\ Holder'
  <2>1. CASE HasDemand(op.for) /\ op' = [op EXCEPT !.pc = "resume"]
    <3>1. op' \in OpType /\ op'.kind = "restore" /\ op'.for = op.for /\ op'.pc = "resume"
      BY <1>1, <2>1, RestoreGoesOn DEF OpPcs
    <3> QED BY <1>1, <2>1, <3>1 DEF Holder, At, HasDemand
  <2>2. CASE op' = [op EXCEPT !.pc = "item", !.items = @ \ {op.arg}]
    <3>1. op' \in OpType /\ op'.kind = "restore" /\ op'.for = op.for /\ op'.pc = "item"
      BY <1>1, <2>2 DEF OpType, OpPcs
    <3> QED BY <1>1, <3>1 DEF Holder, At
  <2> QED BY <2>1, <2>2 DEF RestoreAfter
<1>4. LoadedTyped' /\ BusyIsLeased'
  <2>1. CASE lemonade' = gone /\ Reconcile(gone)
    <3>1. /\ health' \in [Aliases -> Statuses] /\ states' \in [Aliases -> States]
          /\ \A a \in Aliases : states'[a] = "busy" => active[a] > 0
      BY <1>1, <1>2, <2>1, ObservedTyped DEF Reconcile
    <3> QED BY <1>1, <1>2, <2>1, <3>1 DEF LoadedTyped, BusyIsLeased
  <2>2. CASE lemonade' \in {lemonade, gone} /\ UNCHANGED <<states, health>>
    BY <1>1, <1>2, <2>2 DEF IInv, TypeOK, LoadedTyped, BusyIsLeased
  <2> QED BY <2>1, <2>2 DEF RestoreAfter
<1> QED BY <1>1, <1>3, <1>4, RestoreStepKeeps DEF IInv, TypeOK, LeasesTyped

\* The transient comes back.
LEMMA RestoreResumesKeeps ==
    ASSUME IInv, RestoreResumes
    PROVE  IInv'
<1> DEFINE t == op.for
           there == [lemonade EXCEPT ![t] = "ready"]
<1>1. /\ op.kind = "restore" /\ t \in Aliases /\ op' = Free
      /\ UNCHANGED <<active, demand, owned, displaced, timer, loose, late, sw, swaps, foreign>>
      /\ faults' \in Nat /\ active \in [Aliases -> Nat]
    BY DEF RestoreResumes, timers, At, Works, Fails, IInv, TypeOK, LeasesTyped, Holder
<1>2. there \in [Aliases -> Statuses] /\ lemonade \in [Aliases -> Statuses]
    BY DEF IInv, TypeOK, LoadedTyped, Statuses
<1>3. op' \in OpType /\ Holder'
    BY <1>1, OpTyped DEF Holder, At
<1>4. LoadedTyped' /\ BusyIsLeased'
  <2>1. CASE UNCHANGED health /\ lemonade' \in {lemonade, there} /\ \E st \in {"ready", "failed"} : setState(t, st)
    BY <1>1, <1>2, <2>1, StateSet DEF IInv, TypeOK, LoadedTyped, States
  <2>2. CASE lemonade' = there /\ ReconcileAs(there, t, "ready")
    <3>1. /\ health' \in [Aliases -> Statuses] /\ states' \in [Aliases -> States]
          /\ \A a \in Aliases : states'[a] = "busy" => active[a] > 0
      BY <1>1, <1>2, <2>2, ReconciledAs DEF States
    <3> QED BY <1>1, <1>2, <2>2, <3>1 DEF LoadedTyped, BusyIsLeased
  <2> QED BY <2>1, <2>2 DEF RestoreResumes
<1> QED BY <1>1, <1>3, <1>4, RestoreStepKeeps DEF IInv, TypeOK, LeasesTyped

\* All is restored.
LEMMA RestoreEndsKeeps ==
    ASSUME IInv, RestoreEnds
    PROVE  IInv'
<1>1. /\ op.kind = "restore" /\ op.for \in Aliases /\ op' = Free
      /\ UNCHANGED <<lemonade, health, active, demand, timer, loose, late, sw,
                     swaps, faults, foreign>>
      /\ setState(op.for, "unloaded")
    BY DEF RestoreEnds, timers, bounds, At, IInv, Holder
<1>2. op' \in OpType /\ Holder'
    BY <1>1, OpTyped DEF Holder, At
<1>3. states' \in [Aliases -> States] /\ BusyIsLeased'
    BY <1>1, StateSet DEF IInv, TypeOK, States
<1>4. owned' \in [Aliases -> BOOLEAN]
  <2>1. \A a \in Aliases : (owned[a] \/ a \in op.restored) \in BOOLEAN
    OBVIOUS
  <2>2. owned' = [a \in Aliases |-> owned[a] \/ a \in op.restored]
    BY DEF RestoreEnds
  <2> QED BY <2>1, <2>2, Zenon
<1>5. displaced' \in [Aliases -> SUBSET Aliases]
    BY DEF RestoreEnds, IInv, TypeOK, LeasesTyped
<1>6. TypeOK'
    BY <1>1, <1>2, <1>3, <1>4, <1>5 DEF IInv, TypeOK, LoadedTyped, LeasesTyped, TimersTyped
<1> QED BY <1>1, <1>2, <1>3, <1>6 DEF IInv, SwapsApart, VictimsFree, DemandIsLoad

-----------------------------------------------------------------------------
(* Type correctness, and what the leases promise.                           *)

\* The periodic reconciliation, and a change by another application.
LEMMA OutsideKeeps ==
    ASSUME IInv, Watches \/ \E a \in Aliases : ForeignChange(a)
    PROVE  IInv'
<1>1. UNCHANGED <<active, demand, owned, displaced, timer, loose, late, op, sw, swaps, faults>>
    BY DEF Watches, ForeignChange, maps, timers, bounds
<1>2. lemonade \in [Aliases -> Statuses] /\ active \in [Aliases -> Nat]
    BY DEF IInv, TypeOK, LoadedTyped, LeasesTyped
<1>3. /\ LoadedTyped' /\ BusyIsLeased' /\ foreign' \in Nat /\ Holder'
  <2>1. CASE Watches
    <3>1. /\ op = Free /\ Reconcile(lemonade) /\ UNCHANGED <<lemonade, foreign>>
      BY <2>1 DEF Watches, bounds
    <3>2. /\ health' \in [Aliases -> Statuses] /\ states' \in [Aliases -> States]
          /\ \A a \in Aliases : states'[a] = "busy" => active[a] > 0
      BY <1>2, <3>1, ObservedTyped DEF Reconcile
    <3>3. Holder'
      BY <1>1, <3>1, OpTyped DEF Holder, At
    <3> QED BY <1>1, <1>2, <3>1, <3>2, <3>3 DEF LoadedTyped, BusyIsLeased, IInv, TypeOK
  <2>2. CASE \E a \in Aliases : ForeignChange(a)
    <3>1. /\ UNCHANGED <<health, states>> /\ lemonade' \in [Aliases -> Statuses] /\ foreign' \in Nat
      BY <1>2, <2>2 DEF ForeignChange, maps, IInv, TypeOK
    <3> QED BY <1>1, <3>1 DEF IInv, TypeOK, LoadedTyped, BusyIsLeased, Holder, HasDemand, At
  <2> QED BY <2>1, <2>2
<1>4. TypeOK'
    BY <1>1, <1>3 DEF IInv, TypeOK, LeasesTyped, TimersTyped
<1> QED BY <1>1, <1>3, <1>4 DEF IInv, SwapsApart, VictimsFree, DemandIsLoad

\* Every step keeps the invariant.
LEMMA StepKeeps ==
    ASSUME IInv, [Next]_vars
    PROVE  IInv'
<1>1. CASE Transition
    BY <1>1, UnloadChecksKeeps, UnloadMarksKeeps, UnloadCallsKeeps, LoadEndsKeeps, LoadMarksKeeps,
       LoadCallsKeeps, RestoreReconcilesKeeps, RestoreDrainsKeeps, RestoreUnloadsKeeps,
       RestoreItemKeeps, RestoreLoadsKeeps, RestoreAfterKeeps, RestoreResumesKeeps, RestoreEndsKeeps
       DEF Transition
<1>2. CASE \E t \in Aliases : Swap(t) \/ Timers(t) \/ Acquire(t) \/ Release(t)
    BY <1>2, StartSwapKeeps, LoadBeginsKeeps, LoadLocksKeeps, SwapGrantsKeeps, TimersKeep,
       RestoreLocksKeeps, AcquireKeeps, ReleaseKeeps DEF Swap, Timers
<1>3. CASE \E t \in Targets : \E v \in Aliases : UnloadLocks(t, v)
    BY <1>3, UnloadLocksKeeps
<1>4. CASE StartLocalSwap \/ UnloadAll \/ LocalSwapEnds
    BY <1>4, StartLocalSwapKeeps, UnloadAllKeeps, LocalSwapEndsKeeps
<1>5. CASE Watches \/ \E a \in Aliases : ForeignChange(a)
    BY <1>5, OutsideKeeps
<1>6. CASE UNCHANGED vars
    BY <1>6 DEF vars, maps, timers, bounds, IInv, TypeOK, LoadedTyped, LeasesTyped, TimersTyped,
       SwapsApart, VictimsFree, DemandIsLoad, Holder, HasDemand, At, BusyIsLeased
<1> QED BY <1>1, <1>2, <1>3, <1>4, <1>5, <1>6 DEF Next

\* The inductive invariant of the manager and its callers: the swaps of the
\* router stay apart and their victims free, and what the holder of opMu has
\* looked at under mu still holds when it relies on it.
THEOREM ManagerInvariant == Spec => []IInv
<1>1. Init => IInv
    BY InitHolds
<1>2. IInv /\ [Next]_vars => IInv'
    BY StepKeeps
<1> QED BY <1>1, <1>2, PTL DEF Spec

\* A model counts as busy only while it has a lease, whatever the order of
\* Acquire, Release and the reconciliations (reconcileLocked).
THEOREM BusyModelsAreLeased == Spec => []BusyIsLeased
<1>1. IInv => BusyIsLeased
    BY DEF IInv
<1> QED BY <1>1, ManagerInvariant, PTL

\* The model an Unload or a restoration takes from the server has no lease,
\* although both release mu between their look at the leases and the call.
THEOREM LeasesProtect == Spec => LeaseProtects
<1>1. ASSUME IInv, [Next]_vars
      PROVE  [UnloadCalls \/ RestoreUnloads => ~LeasedDropped]_vars
  <2>1. lemonade \in [Aliases -> Statuses] /\ active \in [Aliases -> Nat]
    BY <1>1 DEF IInv, TypeOK, LoadedTyped, LeasesTyped
  <2>2. ASSUME UnloadCalls PROVE ~LeasedDropped
    <3>1. /\ lemonade' \in {lemonade, [lemonade EXCEPT ![op.arg] = "absent"]}
          /\ op.for \in Targets /\ op.arg \in sw[op.for].evict
      BY <1>1, <2>2 DEF UnloadCalls, At, IInv, Holder, SwapsApart
    <3>2. active[op.arg] = 0
      BY <1>1, <3>1 DEF IInv, VictimsFree
    <3> QED BY <2>1, <3>1, <3>2 DEF LeasedDropped
  <2>3. ASSUME RestoreUnloads PROVE ~LeasedDropped
    <3>1. /\ lemonade' \in {lemonade, [lemonade EXCEPT ![op.for] = "absent"]}
          /\ active[op.for] = 0
      BY <1>1, <2>3 DEF RestoreUnloads, At, IInv, Holder
    <3> QED BY <2>1, <3>1 DEF LeasedDropped
  <2> QED BY <2>2, <2>3
<1> QED BY <1>1, ManagerInvariant, PTL DEF Spec, LeaseProtects
-----------------------------------------------------------------------------
(* Capacity, while nobody else changes the server.                          *)

\* Load and restore decide on the view they took under opMu: it is still what
\* the server holds, and there was room in it.
ViewExact ==
    /\ op.kind = "load" \/ (op.kind = "restore" /\ op.pc \in {"item", "load", "after"})
         => health = lemonade
    /\ At("load", "call") \/ At("restore", "load") => ~Full

\* A model more on a server with room is not too many.
LEMMA HeldGrows ==
    ASSUME NEW view \in [Aliases -> Statuses], NEW a,
           Cardinality(Held(view)) < Capacity
    PROVE  Cardinality(Held([view EXCEPT ![a] = "ready"])) <= Capacity
<1> DEFINE there == [view EXCEPT ![a] = "ready"]
<1>1. /\ IsFiniteSet(Held(view)) /\ IsFiniteSet(Held(there))
      /\ Held(there) \subseteq Held(view) \union {a}
    BY FS_Subset, FiniteAssumption DEF Held
<1> DEFINE both == Held(view) \union {a}
<1>2. Cardinality(Held(view)) \in Nat
    BY <1>1, FS_CardinalityType
<1> HIDE DEF there
<1>3. /\ IsFiniteSet(both)
      /\ Cardinality(both) = IF a \in Held(view) THEN Cardinality(Held(view))
                             ELSE Cardinality(Held(view)) + 1
    BY <1>1, FS_AddElement
<1>4. /\ IsFiniteSet(both) /\ Cardinality(both) <= Cardinality(Held(view)) + 1
    BY <1>2, <1>3
<1> HIDE DEF both
<1>5. Held(there) \subseteq both
    BY <1>1 DEF both
<1>6. Cardinality(Held(there)) <= Cardinality(both)
    BY <1>5, <1>4, FS_Subset
<1>7. Cardinality(Held(there)) \in Nat /\ Cardinality(both) \in Nat
    BY <1>1, <1>4, FS_CardinalityType
<1>8. Cardinality(Held(there)) <= Capacity
    BY <1>2, <1>4, <1>6, <1>7, CapacityAssumption
<1> QED BY <1>8 DEF there

\* Every step keeps the view exact as long as opMu is held for its sake.
LEMMA ViewStays ==
    ASSUME MaxForeign = 0, IInv, ViewExact, [Next]_vars
    PROVE  ViewExact'
<1>1. CASE op'.kind \in {"none", "unload"} \/ (op'.kind = "restore" /\ op'.pc = "reconcile")
    BY <1>1 DEF ViewExact, At
<1>2. CASE UNCHANGED <<op, lemonade, health>>
    BY <1>2 DEF ViewExact, At, Full, Held
<1>3. Free.kind = "none" /\ op \in OpType
    BY OpTyped DEF IInv, TypeOK
<1>4. CASE Transition
  <2>1. CASE UnloadChecks \/ UnloadMarks \/ UnloadCalls
    <3>1. op.kind = "unload" /\ (op' = Free \/ op' = [op EXCEPT !.pc = "mark"] \/ op' = [op EXCEPT !.pc = "call"])
      BY <2>1 DEF UnloadChecks, UnloadMarks, UnloadCalls, UnloadOver, At
    <3>2. "mark" \in OpPcs /\ "call" \in OpPcs
      BY DEF OpPcs
    <3>3. op'.kind \in {"none", "unload"}
      BY <1>3, <3>1, <3>2, OpGoesOn
    <3> QED BY <1>1, <3>3
  <2>2. CASE LoadCoalesces \/ LoadRefused \/ LoadCalls \/ RestoreResumes \/ RestoreEnds
    <3>1. op' = Free
      BY <2>2 DEF LoadCoalesces, LoadRefused, LoadCalls, LoadReturns, RestoreResumes, RestoreEnds
    <3> QED BY <1>1, <1>3, <3>1
  <2>3. CASE LoadMarks
    <3>1. op.kind = "load" /\ ~Full /\ op' = [op EXCEPT !.pc = "call"] /\ UNCHANGED <<lemonade, health>>
      BY <2>3 DEF LoadMarks, At
    <3>2. op'.kind = "load" /\ op'.pc = "call"
      BY <1>3, <3>1, OpTyped DEF OpPcs
    <3> QED BY <3>1, <3>2 DEF ViewExact, At, Full, Held
  <2>4. CASE RestoreReconciles \/ RestoreDrains
    <3>1. \/ op'.kind = "none"
          \/ op'.kind = "restore" /\ op'.pc \in {"drain", "unload"}
      <4>1. /\ op.kind = "restore"
            /\ op' = Free \/ op' = [op EXCEPT !.pc = "drain"] \/ op' = [op EXCEPT !.pc = "unload"]
        BY <2>4 DEF RestoreReconciles, RestoreDrains, RestoreFails, At
      <4>2. "drain" \in OpPcs /\ "unload" \in OpPcs
        BY DEF OpPcs
      <4> QED BY <1>3, <4>1, <4>2, OpGoesOn
    <3> QED BY <3>1 DEF ViewExact, At
  <2>5. CASE RestoreUnloads
    <3>1. \/ op'.kind = "none"
          \/ op'.kind = "restore" /\ op'.pc = "item" /\ health' = lemonade'
      <4>1. \/ op' = Free
            \/ op.kind = "restore" /\ op' = [op EXCEPT !.pc = "item"] /\ health' = lemonade'
        BY <2>5 DEF RestoreUnloads, RestoreFails, Reconcile, At
      <4>2. "item" \in OpPcs
        BY DEF OpPcs
      <4>3. CASE op' = Free
        BY <1>3, <4>3
      <4>4. CASE op.kind = "restore" /\ op' = [op EXCEPT !.pc = "item"] /\ health' = lemonade'
        BY <1>3, <4>2, <4>4, OpGoesOn
      <4> QED BY ONLY <4>1, <4>3, <4>4
    <3> QED BY <1>1, <3>1 DEF ViewExact, At
  <2>6. CASE RestoreItem
    <3>1. CASE op'.kind = "none" \/ (op'.kind = "restore" /\ op'.pc = "resume")
      BY <3>1 DEF ViewExact, At
    <3>2. CASE op' = [op EXCEPT !.pc = "load", !.arg = FirstItem] /\ UNCHANGED <<states, health>> /\ ~Full
      <4>1. op'.kind = "restore" /\ op'.pc = "load" /\ health = lemonade /\ UNCHANGED lemonade
        BY <1>3, <2>6, <3>2 DEF RestoreItem, At, OpType, ViewExact
      <4> QED BY <3>2, <4>1 DEF ViewExact, At, Full, Held
    <3> QED BY <1>3, <2>6, <3>1, <3>2, OpTyped DEF RestoreItem, RestoreFails, At, OpPcs
  <2>7. CASE RestoreLoads
    <3>1. \/ op'.kind = "none" \/ (op'.kind = "restore" /\ op'.pc = "resume")
          \/ op'.kind = "restore" /\ op'.pc = "after" /\ health' = lemonade'
      BY <1>3, <2>7, OpTyped DEF RestoreLoads, RestoreFails, Reconcile, At, OpPcs
    <3> QED BY <1>1, <3>1 DEF ViewExact, At
  <2>8. CASE RestoreAfter
    <3>1. CASE op' = [op EXCEPT !.pc = "resume"]
      <4>1. op'.kind = "restore" /\ op'.pc = "resume"
        BY <1>3, <2>8, <3>1, OpTyped DEF RestoreAfter, At, OpPcs
      <4> QED BY <4>1 DEF ViewExact, At
    <3>2. CASE op' = [op EXCEPT !.pc = "item", !.items = @ \ {op.arg}] /\ UNCHANGED <<lemonade, health>>
      <4>1. op'.kind = "restore" /\ op'.pc = "item" /\ health = lemonade
        BY <1>3, <2>8, <3>2 DEF RestoreAfter, At, OpType, ViewExact
      <4> QED BY <3>2, <4>1 DEF ViewExact, At
    <3> QED BY <2>8, <3>1, <3>2 DEF RestoreAfter
  <2> QED BY <1>4, <2>1, <2>2, <2>3, <2>4, <2>5, <2>6, <2>7, <2>8 DEF Transition
<1>5. CASE \E t \in Aliases : StartSwap(t) \/ LoadBegins(t) \/ SwapGrants(t) \/ TimerFires(t)
                              \/ LooseTimerFires(t) \/ Acquire(t) \/ Release(t)
  <2>1. UNCHANGED <<op, lemonade, health>>
    BY <1>5 DEF StartSwap, LoadBegins, SwapGrants, TimerFires, LooseTimerFires, Acquire, Release
  <2> QED BY <1>2, <2>1
<1>6. ASSUME NEW t \in Aliases, LoadLocks(t)
      PROVE  ViewExact'
  <2>1. CASE op' = Free
    BY <1>1, <1>3, <2>1
  <2>2. CASE Reconcile(lemonade) /\ op' = Op("load", t, t, "check", {}) /\ UNCHANGED lemonade
    <3>1. op'.kind = "load" /\ op'.pc = "check" /\ health' = lemonade'
      BY <2>2 DEF Op, Reconcile
    <3> QED BY <3>1 DEF ViewExact, At
  <2> QED BY <1>6, <2>1, <2>2 DEF LoadLocks, LoadReturns
<1>7. ASSUME NEW t \in Aliases, NEW current \in BOOLEAN, RestoreLocks(t, current)
      PROVE  ViewExact'
  <2>1. UNCHANGED <<op, lemonade, health>> \/ (op'.kind = "restore" /\ op'.pc = "reconcile")
    BY <1>7 DEF RestoreLocks, Op
  <2> QED BY <1>1, <1>2, <2>1
<1>8. CASE \E t \in Targets : \E v \in Aliases : UnloadLocks(t, v)
  <2>1. op'.kind \in {"none", "unload"}
    BY <1>3, <1>8 DEF UnloadLocks, UnloadOver, Op
  <2> QED BY <1>1, <2>1
<1>9. CASE StartLocalSwap \/ LocalSwapEnds \/ UNCHANGED vars
  <2>1. UNCHANGED <<op, lemonade, health>>
    BY <1>9 DEF StartLocalSwap, LocalSwapEnds, vars
  <2> QED BY <1>2, <2>1
<1>10. CASE UnloadAll \/ Watches
  <2>1. op' = Free
    BY <1>10 DEF UnloadAll, Watches
  <2> QED BY <1>1, <1>3, <2>1
<1>11. ~ \E a \in Aliases : ForeignChange(a)
    BY DEF ForeignChange, IInv, TypeOK
<1> QED BY <1>4, <1>5, <1>6, <1>7, <1>8, <1>9, <1>10, <1>11 DEF Next, Swap, Timers

\* While nobody else changes the server, neither a Load nor a restoration puts
\* more on it than its pool may hold, whatever ran since the swap was planned.
THEOREM CapacityKept ==
    ASSUME MaxForeign = 0
    PROVE  Spec => LoadsWithinCapacity
<1>1. Init => ViewExact
    BY OpTyped DEF Init, ViewExact, At, Free, Op
<1>2. IInv /\ ViewExact /\ [Next]_vars => ViewExact'
    BY ViewStays
<1>3. ASSUME IInv, ViewExact
      PROVE  LoadCalls \/ RestoreLoads =>
                 \/ Cardinality(Held(lemonade')) <= Capacity
                 \/ Held(lemonade') = Held(lemonade)
  <2>1. lemonade \in [Aliases -> Statuses]
    BY <1>3 DEF IInv, TypeOK, LoadedTyped
  <2>2. ASSUME NEW a, lemonade' \in {lemonade, [lemonade EXCEPT ![a] = "ready"]},
               ~Full, health = lemonade
        PROVE  \/ Cardinality(Held(lemonade')) <= Capacity
               \/ Held(lemonade') = Held(lemonade)
    <3>1. Cardinality(Held(lemonade)) < Capacity
      <4>1. Cardinality(Held(lemonade)) \in Nat
        BY FS_Subset, FS_CardinalityType, FiniteAssumption DEF Held
      <4> QED BY <2>2, <4>1, CapacityAssumption DEF Full
    <3> QED BY <2>1, <2>2, <3>1, HeldGrows
  <2>3. CASE LoadCalls
    <3>1. /\ lemonade' \in {lemonade, [lemonade EXCEPT ![op.for] = "ready"]}
          /\ ~Full /\ health = lemonade
      BY <1>3, <2>3 DEF LoadCalls, At, ViewExact
    <3> QED BY <2>2, <3>1
  <2>4. CASE RestoreLoads
    <3>1. /\ lemonade' \in {lemonade, [lemonade EXCEPT ![op.arg] = "ready"]}
          /\ ~Full /\ health = lemonade
      BY <1>3, <2>4 DEF RestoreLoads, At, ViewExact
    <3> QED BY <2>2, <3>1
  <2> QED BY <2>3, <2>4
<1> QED BY <1>1, <1>2, <1>3, ManagerInvariant, PTL DEF Spec, LoadsWithinCapacity
-----------------------------------------------------------------------------
(* Leases, while nobody else changes the server and no call to it fails.    *)

\* A model in a serving state is on the server, unless its own Load is still
\* to come; a Load that finds it ready, and a restoration that finds it leased
\* again, rely on it.
ServingIsLoaded ==
    /\ \A a \in Aliases : Serving(a) /\ sw[a].pc # "load" => lemonade[a] = "ready"
    /\ At("load", "check") /\ Serving(op.for) => lemonade[op.for] = "ready"
    /\ At("restore", "drain") /\ active[op.for] > 0 => lemonade[op.for] = "ready"

\* Every step keeps it.
LEMMA ServingLoadedStays ==
    ASSUME MaxForeign = 0, MaxFaults = 0, IInv, IInv', ServingIsLoaded, [Next]_vars
    PROVE  ServingIsLoaded'
<1>1. ~ Fails /\ ~ \E a \in Aliases : ForeignChange(a)
    BY DEF Fails, ForeignChange, IInv, TypeOK
<1>2. /\ op \in OpType /\ Free.kind = "none"
      /\ op.kind \in {"load", "restore"} => op.for \in Aliases
      /\ active \in [Aliases -> Nat] /\ active' \in [Aliases -> Nat]
      /\ lemonade \in [Aliases -> Statuses] /\ lemonade' \in [Aliases -> Statuses]
      /\ states \in [Aliases -> States] /\ sw \in [Targets -> SwapType]
    BY OpTyped DEF IInv, TypeOK, LoadedTyped, LeasesTyped, Holder
<1> DEFINE Part1 == \A a \in Aliases : Serving(a) /\ sw[a].pc # "load" => lemonade[a] = "ready"
<1>3. ASSUME Part1', ~ (op'.kind = "load" /\ op'.pc = "check"), ~ (op'.kind = "restore" /\ op'.pc = "drain")
      PROVE  ServingIsLoaded'
    BY <1>3 DEF ServingIsLoaded, At
<1>4. ASSUME \A a \in Aliases : states'[a] \in {"ready", "busy"} => lemonade'[a] = "ready",
             op'.kind = "restore" /\ op'.pc = "drain" => active'[op'.for] = 0,
             op'.kind = "load" => op'.for \in Aliases
      PROVE  ServingIsLoaded'
    BY <1>4 DEF ServingIsLoaded, Serving, At
<1>5. ASSUME NEW t \in Aliases, StartSwap(t) \/ LoadBegins(t) \/ TimerFires(t) \/ LooseTimerFires(t)
      PROVE  ServingIsLoaded'
  <2>1. /\ UNCHANGED <<lemonade, states, active, op>>
        /\ \A a \in Aliases : Serving(a) /\ sw'[a].pc # "load" => sw[a].pc # "load"
    <3>1. CASE StartSwap(t)
      BY <1>2, <3>1 DEF StartSwap, SwapType, Serving, Targets
    <3>2. CASE LoadBegins(t)
      BY <1>2, <3>2 DEF LoadBegins, SwapType, Targets
    <3>3. CASE TimerFires(t) \/ LooseTimerFires(t)
      BY <3>3 DEF TimerFires, LooseTimerFires, maps
    <3> QED BY <1>5, <3>1, <3>2, <3>3
  <2> QED BY <1>2, <2>1 DEF ServingIsLoaded, Serving, At
<1>6. ASSUME NEW t \in Aliases, Acquire(t) \/ SwapGrants(t)
      PROVE  ServingIsLoaded'
  <2>1. UNCHANGED <<lemonade, op>> /\ sw[t].pc # "load"
    BY <1>6 DEF Acquire, SwapGrants
  <2>2. \A a \in Aliases : sw'[a].pc # "load" => sw[a].pc # "load" \/ a = t
    BY <1>2, <1>6 DEF Acquire, SwapGrants, Targets
  <2>3. CASE Serving(t) /\ Lease(t)
    <3>1. /\ lemonade[t] = "ready"
          /\ \A a \in Aliases \ {t} : states'[a] = states[a] /\ active'[a] = active[a]
      BY <2>1, <2>3, LeaseTyped DEF ServingIsLoaded
    <3> QED BY <1>2, <2>1, <2>2, <3>1 DEF ServingIsLoaded, Serving, At
  <2>4. CASE UNCHANGED <<states, active>>
    BY <1>2, <2>1, <2>2, <2>4 DEF ServingIsLoaded, Serving, At
  <2> QED BY <1>6, <2>3, <2>4 DEF Acquire, SwapGrants, maps
<1>7. ASSUME NEW t \in Aliases, Release(t)
      PROVE  ServingIsLoaded'
  <2>1. /\ UNCHANGED <<lemonade, op, sw>>
        /\ \A a \in Aliases : active'[a] <= active[a]
        /\ \A a \in Aliases : states'[a] \in {"ready", "busy"} => states[a] \in {"ready", "busy"}
    BY <1>2, <1>7 DEF Release
  <2> QED BY <1>2, <2>1 DEF ServingIsLoaded, Serving, At
<1>8. CASE StartLocalSwap \/ LocalSwapEnds \/ UNCHANGED vars
  <2>1. UNCHANGED <<lemonade, states, active, op>>
    BY <1>8 DEF StartLocalSwap, LocalSwapEnds, vars, maps
  <2>2. \A a \in Aliases : sw'[a] = sw[a]
    BY <1>2, <1>8, NoneAssumption DEF StartLocalSwap, LocalSwapEnds, vars, Targets
  <2> QED BY <2>1, <2>2 DEF ServingIsLoaded, Serving, At
<1>9. ASSUME NEW t \in Aliases, LoadLocks(t)
      PROVE  ServingIsLoaded'
  <2>1. /\ Reconcile(lemonade) /\ UNCHANGED lemonade /\ op' = Op("load", t, t, "check", {})
    BY <1>1, <1>9 DEF LoadLocks
  <2>2. \A a \in Aliases : states'[a] \in {"ready", "busy"} => lemonade'[a] = "ready"
    BY <1>2, <2>1, ObservedTyped DEF Reconcile
  <2>3. op'.kind = "load" /\ op'.for = t
    BY <2>1 DEF Op
  <2> QED BY <1>4, <2>2, <2>3
<1>10. ASSUME NEW t \in Targets, NEW v \in Aliases, UnloadLocks(t, v)
       PROVE  ServingIsLoaded'
  <2>1. Reconcile(lemonade) /\ UNCHANGED lemonade /\ op' = Op("unload", t, v, "check", {})
    BY <1>1, <1>10 DEF UnloadLocks
  <2>2. \A a \in Aliases : states'[a] \in {"ready", "busy"} => lemonade'[a] = "ready"
    BY <1>2, <2>1, ObservedTyped DEF Reconcile
  <2>3. op'.kind = "unload"
    BY <2>1 DEF Op
  <2> QED BY <1>4, <2>2, <2>3
<1>11. ASSUME NEW t \in Aliases, NEW current \in BOOLEAN, RestoreLocks(t, current)
       PROVE  ServingIsLoaded'
  <2>1. UNCHANGED <<lemonade, active, sw>>
    BY <1>11 DEF RestoreLocks
  <2>2. CASE UNCHANGED <<states, op>>
    BY <2>1, <2>2 DEF ServingIsLoaded, Serving, At
  <2>3. CASE setState(t, "draining") /\ op' = Op("restore", t, t, "reconcile", displaced[t])
    <3>1. \A a \in Aliases : states'[a] \in {"ready", "busy"} => states'[a] = states[a]
      BY <1>2, <2>3 DEF setState
    <3>2. op'.kind = "restore" /\ op'.pc = "reconcile"
      BY <2>3 DEF Op
    <3> QED BY <1>3, <2>1, <3>1, <3>2 DEF ServingIsLoaded, Serving
  <2> QED BY <1>11, <2>2, <2>3 DEF RestoreLocks
<1>12. CASE UnloadAll \/ Watches
  <2>1. op' = Free /\ \A a \in Aliases : states'[a] \in {"ready", "busy"} => lemonade'[a] = "ready"
    <3>1. CASE UnloadAll
      BY <1>1, <3>1 DEF UnloadAll
    <3>2. CASE Watches
      <4>1. op' = Free /\ Reconcile(lemonade) /\ UNCHANGED lemonade
        BY <3>2 DEF Watches
      <4> QED BY <1>2, <4>1, ObservedTyped DEF Reconcile
    <3> QED BY <1>12, <3>1, <3>2
  <2> QED BY <1>2, <1>4, <2>1
<1>13. ASSUME NEW pc \in OpPcs \ {"check"}, ~ (op.kind = "restore" /\ pc = "drain"),
              op' = [op EXCEPT !.pc = pc] \/ op' = Free, Part1'
       PROVE  ServingIsLoaded'
  <2>1. op' = Free \/ (op'.kind = op.kind /\ op'.pc = pc)
    BY <1>2, <1>13, OpGoesOn
  <2> QED BY <1>2, <1>3, <1>13, <2>1
<1>14. CASE Transition
  <2>1. CASE UnloadChecks
    <3>1. UNCHANGED <<lemonade, states>> /\ \A a \in Aliases : sw'[a].pc = sw[a].pc
      BY <1>2, <2>1, VictimDone DEF UnloadChecks, UnloadOver, maps, IInv, Holder, At, Targets
    <3>2. Part1'
      BY <3>1 DEF ServingIsLoaded, Serving
    <3>3. op' = [op EXCEPT !.pc = "mark"] \/ op' = Free
      BY <2>1 DEF UnloadChecks, UnloadOver
    <3> QED BY <1>13, <2>1, <3>2, <3>3 DEF UnloadChecks, At, OpPcs
  <2>2. CASE UnloadMarks \/ LoadMarks
    <3>1. /\ UNCHANGED <<lemonade, sw>> /\ op' = [op EXCEPT !.pc = "call"]
          /\ \A a \in Aliases : states'[a] \in {"ready", "busy"} => states'[a] = states[a]
      BY <1>2, <2>2 DEF UnloadMarks, LoadMarks, setState
    <3>2. Part1'
      BY <3>1 DEF ServingIsLoaded, Serving
    <3> QED BY <1>13, <3>1, <3>2 DEF OpPcs
  <2>3. CASE UnloadCalls
    <3>1. /\ op' = Free /\ lemonade' = [lemonade EXCEPT ![op.arg] = "absent"]
          /\ ReconcileAs(lemonade', op.arg, "unloaded") /\ UNCHANGED active
      BY <1>1, <2>3 DEF UnloadCalls, UnloadOver, ReconcileAs
    <3>2. \A a \in Aliases : states'[a] \in {"ready", "busy"} => lemonade'[a] = "ready"
      BY <1>2, <3>1, ObservedTyped DEF ReconcileAs
    <3> QED BY <1>2, <1>4, <3>1, <3>2
  <2>4. CASE LoadCoalesces \/ LoadRefused
    <3>1. /\ UNCHANGED <<lemonade, states>> /\ op' = Free /\ op.for \in Aliases
          /\ \A a \in Aliases \ {op.for} : sw'[a] = sw[a]
          /\ Serving(op.for) => lemonade[op.for] = "ready"
      BY <1>2, <2>4 DEF LoadCoalesces, LoadRefused, LoadReturns, ServingIsLoaded, At, Targets
    <3>2. Part1'
      BY <3>1 DEF ServingIsLoaded, Serving
    <3> QED BY <1>2, <1>3, <3>1, <3>2
  <2>5. CASE LoadCalls
    <3>1. /\ op' = Free /\ lemonade' = [lemonade EXCEPT ![op.for] = "ready"] /\ UNCHANGED active
          /\ op.for \in Aliases
      BY <1>1, <1>2, <2>5 DEF LoadCalls, LoadReturns, At
    <3>2. PICK st \in {"ready", "failed"} : ReconcileAs(lemonade', op.for, st)
      BY <1>1, <2>5 DEF LoadCalls, ReconcileAs
    <3>3. \A a \in Aliases : states'[a] \in {"ready", "busy"} => lemonade'[a] = "ready"
      BY <1>2, <3>1, <3>2, ObservedTyped DEF ReconcileAs
    <3> QED BY <1>2, <1>4, <3>1, <3>3
  <2>6. CASE RestoreReconciles
    <3>1. /\ Reconcile(lemonade) /\ UNCHANGED <<lemonade, active>> /\ op.kind = "restore"
          /\ op' = [op EXCEPT !.pc = "drain"] /\ active[op.for] = 0
      BY <1>1, <2>6 DEF RestoreReconciles, At, IInv, Holder
    <3>2. \A a \in Aliases : states'[a] \in {"ready", "busy"} => lemonade'[a] = "ready"
      BY <1>2, <3>1, ObservedTyped DEF Reconcile
    <3>3. op'.kind = "restore" /\ op'.for = op.for
      BY <1>2, <3>1, OpGoesOn DEF OpPcs
    <3> QED BY <1>4, <3>1, <3>2, <3>3
  <2>7. CASE RestoreDrains
    <3>1. /\ UNCHANGED <<lemonade, sw>> /\ op.for \in Aliases
          /\ op' = [op EXCEPT !.pc = "unload"] \/ op' = Free
      BY <1>2, <2>7 DEF RestoreDrains, At
    <3>2. /\ \A a \in Aliases \ {op.for} : states'[a] = states[a]
          /\ \/ states'[op.for] = "draining"
             \/ active[op.for] > 0 \/ HasDemand(op.for)
      BY <1>2, <2>7 DEF RestoreDrains, setState, At
    <3>3. \/ states'[op.for] = "draining"
          \/ lemonade[op.for] = "ready" \/ sw[op.for].pc = "load"
      BY <2>7, <3>1, <3>2 DEF RestoreDrains, ServingIsLoaded, At, HasDemand, IInv, DemandIsLoad
    <3>4. Part1'
      BY <3>1, <3>2, <3>3 DEF ServingIsLoaded, Serving
    <3>5. CASE op' = [op EXCEPT !.pc = "unload"]
      BY <1>13, <3>4, <3>5 DEF OpPcs
    <3> QED BY <1>2, <1>3, <3>1, <3>4, <3>5
  <2>8. CASE RestoreUnloads
    <3>1. /\ lemonade' = [lemonade EXCEPT ![op.for] = "absent"] /\ UNCHANGED active
          /\ Reconcile(lemonade') /\ op' = [op EXCEPT !.pc = "item"] /\ op.kind = "restore"
      BY <1>1, <2>8 DEF RestoreUnloads, Reconcile, At
    <3>2. \A a \in Aliases : states'[a] \in {"ready", "busy"} => lemonade'[a] = "ready"
      BY <1>2, <3>1, ObservedTyped DEF Reconcile
    <3>3. op'.kind = "restore" /\ op'.pc = "item"
      BY <1>2, <3>1, OpGoesOn DEF OpPcs
    <3> QED BY <1>4, <3>2, <3>3
  <2>9. CASE RestoreItem
    <3>1. /\ UNCHANGED <<lemonade, sw>> /\ op.kind = "restore"
          /\ \A a \in Aliases : states'[a] \in {"ready", "busy"} => states'[a] = states[a]
      BY <1>2, <2>9 DEF RestoreItem, RestoreFails, setState, At
    <3>2. Part1'
      BY <3>1 DEF ServingIsLoaded, Serving
    <3>3. CASE op' = [op EXCEPT !.pc = "resume"]
      BY <1>13, <3>2, <3>3 DEF OpPcs
    <3>4. CASE op' = [op EXCEPT !.pc = "load", !.arg = FirstItem]
      <4>1. op'.kind = "restore" /\ op'.pc = "load"
        BY <1>2, <3>1, <3>4 DEF OpType
      <4> QED BY <1>3, <3>2, <4>1
    <3> QED BY <1>2, <1>3, <2>9, <3>2, <3>3, <3>4 DEF RestoreItem, RestoreFails
  <2>10. CASE RestoreLoads
    <3>1. CASE /\ UNCHANGED <<lemonade, states, sw>> /\ op' = [op EXCEPT !.pc = "resume"]
      BY <1>13, <3>1 DEF ServingIsLoaded, Serving, OpPcs
    <3>2. CASE /\ lemonade' = [lemonade EXCEPT ![op.arg] = "ready"] /\ UNCHANGED active
               /\ Reconcile(lemonade') /\ op' = [op EXCEPT !.pc = "after"] /\ op.kind = "restore"
      <4>1. \A a \in Aliases : states'[a] \in {"ready", "busy"} => lemonade'[a] = "ready"
        BY <1>2, <3>2, ObservedTyped DEF Reconcile
      <4>2. op'.kind = "restore" /\ op'.pc = "after"
        BY <1>2, <3>2, OpGoesOn DEF OpPcs
      <4> QED BY <1>4, <4>1, <4>2
    <3> QED BY <1>1, <2>10, <3>1, <3>2 DEF RestoreLoads, Reconcile, At
  <2>11. CASE RestoreAfter
    <3>1. op.kind = "restore"
      BY <2>11 DEF RestoreAfter, At
    <3>2. CASE /\ lemonade' = [lemonade EXCEPT ![op.arg] = "absent"] /\ UNCHANGED active
               /\ Reconcile(lemonade') /\ op' = [op EXCEPT !.pc = "resume"]
      <4>1. \A a \in Aliases : states'[a] \in {"ready", "busy"} => lemonade'[a] = "ready"
        BY <1>2, <3>2, ObservedTyped DEF Reconcile
      <4>2. op'.kind = "restore" /\ op'.pc = "resume"
        BY <1>2, <3>1, <3>2, OpGoesOn DEF OpPcs
      <4> QED BY <1>4, <4>1, <4>2
    <3>3. CASE UNCHANGED <<lemonade, states, sw>> /\ op' = [op EXCEPT !.pc = "item", !.items = @ \ {op.arg}]
      <4>1. op'.kind = "restore" /\ op'.pc = "item"
        BY <1>2, <3>1, <3>3 DEF OpType
      <4> QED BY <1>3, <3>3, <4>1 DEF ServingIsLoaded, Serving
    <3> QED BY <1>1, <2>11, <3>2, <3>3 DEF RestoreAfter, Reconcile
  <2>12. CASE RestoreResumes
    <3>1. op' = Free /\ op.for \in Aliases /\ sw[op.for].pc = "load" /\ UNCHANGED <<sw, active>>
      BY <1>2, <2>12 DEF RestoreResumes, At, IInv, Holder, HasDemand, DemandIsLoad
    <3>2. CASE setState(op.for, "ready") /\ UNCHANGED lemonade
      <4>1. \A a \in Aliases \ {op.for} : states'[a] = states[a]
        BY <1>2, <3>2 DEF setState
      <4> QED BY <1>2, <1>3, <3>1, <3>2, <4>1 DEF ServingIsLoaded, Serving
    <3>3. CASE /\ lemonade' = [lemonade EXCEPT ![op.for] = "ready"]
               /\ ReconcileAs(lemonade', op.for, "ready")
      <4>1. \A a \in Aliases : states'[a] \in {"ready", "busy"} => lemonade'[a] = "ready"
        BY <1>2, <3>1, <3>3, ObservedTyped DEF ReconcileAs
      <4> QED BY <1>2, <1>4, <3>1, <4>1
    <3> QED BY <1>1, <2>12, <3>2, <3>3 DEF RestoreResumes, ReconcileAs
  <2>13. CASE RestoreEnds
    <3>1. /\ UNCHANGED <<lemonade, sw>> /\ op' = Free
          /\ \A a \in Aliases : states'[a] \in {"ready", "busy"} => states'[a] = states[a]
      BY <1>2, <2>13 DEF RestoreEnds, setState
    <3> QED BY <1>2, <1>3, <3>1 DEF ServingIsLoaded, Serving
  <2> QED BY <1>14, <2>1, <2>2, <2>3, <2>4, <2>5, <2>6, <2>7, <2>8, <2>9, <2>10, <2>11, <2>12, <2>13
          DEF Transition
<1> QED BY <1>1, <1>5, <1>6, <1>7, <1>8, <1>9, <1>10, <1>11, <1>12, <1>14 DEF Next, Swap, Timers

\* While nobody else changes the server and no call to it fails, a request is
\* only ever let through to a model the server has ready: a lease on the fast
\* path and one at the end of a swap.
THEOREM GrantsAreLoaded ==
    ASSUME MaxForeign = 0, MaxFaults = 0
    PROVE  Spec => GrantedIsLoaded
<1>1. Init => ServingIsLoaded
    BY OpTyped DEF Init, ServingIsLoaded, Serving, At
<1>2. IInv /\ IInv' /\ ServingIsLoaded /\ [Next]_vars => ServingIsLoaded'
    BY ServingLoadedStays
<1>3. ASSUME IInv, ServingIsLoaded, [Next]_vars
      PROVE  [\A a \in Aliases : active'[a] > active[a] => lemonade[a] = "ready"]_vars
  <2>1. active \in [Aliases -> Nat]
    BY <1>3 DEF IInv, TypeOK, LeasesTyped
  <2>2. ASSUME NEW t \in Aliases, Serving(t), sw[t].pc # "load", Lease(t)
        PROVE  \A a \in Aliases : active'[a] > active[a] => lemonade[a] = "ready"
    BY <1>3, <2>1, <2>2 DEF Lease, ServingIsLoaded
  <2>3. ASSUME NEW t \in Aliases, Release(t)
        PROVE  \A a \in Aliases : active'[a] > active[a] => lemonade[a] = "ready"
    BY <2>1, <2>3 DEF Release
  <2>4. ASSUME UNCHANGED active
        PROVE  \A a \in Aliases : active'[a] > active[a] => lemonade[a] = "ready"
    BY <2>1, <2>4
  <2>5. \/ \E t \in Aliases : Acquire(t) \/ SwapGrants(t) \/ Release(t)
        \/ UNCHANGED active
    <3>1. CASE Transition
      BY <3>1 DEF Transition, UnloadChecks, UnloadMarks, UnloadCalls, LoadCoalesces, LoadRefused,
         LoadMarks, LoadCalls, RestoreReconciles, RestoreDrains, RestoreUnloads, RestoreItem,
         RestoreLoads, RestoreAfter, RestoreResumes, RestoreEnds, maps
    <3>2. CASE \E t \in Aliases : StartSwap(t) \/ LoadBegins(t) \/ LoadLocks(t) \/ Timers(t) \/ ForeignChange(t)
      BY <3>2 DEF StartSwap, LoadBegins, LoadLocks, Timers, TimerFires, LooseTimerFires,
         RestoreLocks, ForeignChange, maps
    <3>3. CASE \E t \in Targets : \E v \in Aliases : UnloadLocks(t, v)
      BY <3>3 DEF UnloadLocks
    <3>4. CASE StartLocalSwap \/ UnloadAll \/ LocalSwapEnds \/ Watches \/ UNCHANGED vars
      BY <3>4 DEF StartLocalSwap, UnloadAll, LocalSwapEnds, Watches, vars, maps
    <3> QED BY <1>3, <3>1, <3>2, <3>3, <3>4 DEF Next, Swap
  <2> QED BY <2>2, <2>3, <2>4, <2>5 DEF Acquire, SwapGrants, maps
<1> QED BY <1>1, <1>2, <1>3, ManagerInvariant, PTL DEF Spec, GrantedIsLoaded
=============================================================================
