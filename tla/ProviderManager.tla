-------------------------- MODULE ProviderManager --------------------------
(***************************************************************************)
(* One provider's lifecycle manager (internal/provider/registry.go): the   *)
(* residency of its configured models on a Lemonade server that lives on   *)
(* its own and that other applications use too.                            *)
(*                                                                         *)
(* Two locks order its operations.  opMu is held for a whole transition    *)
(* (load, unload, restoration, reconciliation), across calls to the server;*)
(* mu only around accesses to the maps.  BeginSwap, Acquire and Release    *)
(* take mu alone and run between the steps of a transition.  The variable  *)
(* op is what the holder of opMu does.                                     *)
(*                                                                         *)
(* The router is the caller: sw[t] is the doSwap goroutine of the swap to  *)
(* t, started under the scheduler's rules (no overlap with another swap,   *)
(* no victim with a request in flight; see Router).  Local stands for a    *)
(* process-managed model that shares the machine: a swap to it evicts      *)
(* every model of the provider that runs.                                  *)
(***************************************************************************)
EXTENDS Integers, FiniteSets

CONSTANTS
    Aliases,        \* configured models of the provider
    Local,          \* a process-managed model, whose swaps empty the provider
    None,           \* no alias
    Residency,      \* alias -> residency class
    Rank,           \* alias -> place in the order of restoration
    Capacity,       \* pool.Capacity
    RestorePreferred, \* pool.RestorePreferred
    EvictionFor(_, _, _), \* lifecycleSwapper.EvictionFor(target, resident, held)
    MaxLeases,      \* bound: requests in flight per model
    MaxSwaps,       \* bound: swaps started
    MaxLate,        \* bound: superseded timers that run at a time
    LocalSwaps,     \* whether Local is ever asked for
    MayAbandon,     \* whether the waiter of a swap may leave before its grant
    MaxFaults,      \* bound: failing calls to the server
    MaxForeign      \* bound: changes made by other applications

ASSUME FiniteAssumption == IsFiniteSet(Aliases)
ASSUME NoneAssumption == None \notin Aliases /\ Local \notin Aliases \union {None}
ASSUME ResidencyAssumption ==
    /\ Residency \in [Aliases -> {"hard-pinned", "preferred", "transient", "external"}]
    /\ Rank \in [Aliases -> Nat]
ASSUME CapacityAssumption == Capacity \in Nat \ {0} /\ RestorePreferred \in BOOLEAN
ASSUME BoundAssumption ==
    /\ {MaxLeases, MaxSwaps, MaxLate, MaxFaults, MaxForeign} \subseteq Nat
    /\ LocalSwaps \in BOOLEAN /\ MayAbandon \in BOOLEAN
ASSUME EvictionAssumption ==
    \A t \in Aliases : \A R, H \in SUBSET Aliases :
        EvictionFor(t, R, H) \subseteq R \ {t}

VARIABLES
    lemonade,   \* what the server really holds
    health,     \* Manager.health: the last snapshot of it
    states, active, demand, owned, displaced, \* the maps of Manager
    timer,      \* Manager.timers: the idle timer of a transient
    loose,      \* running timers that are no longer in the map
    late,       \* restore goroutines whose timer has been superseded
    op,         \* what the holder of opMu does
    sw,         \* the router's swaps
    swaps, faults, foreign  \* what the bounds count

maps == <<states, active, demand, owned, displaced>>
timers == <<timer, loose, late>>
bounds == <<swaps, faults, foreign>>
vars == <<lemonade, health, maps, timers, op, sw, bounds>>

Statuses == {"absent", "loading", "ready", "failed"}
States == {"unloaded", "loading", "ready", "busy", "draining", "unloading", "failed"}
\* items: what a restoration has still to load, of all it set out to restore.
Op(kind, for, arg, pc, items) ==
    [kind |-> kind, for |-> for, arg |-> arg, pc |-> pc,
     items |-> items, restored |-> items]
Free == Op("none", None, None, "", {})
Targets == Aliases \union {Local}
NoSwap == [pc |-> "idle", todo |-> {}, evict |-> {}]

\* Preferred and pinned models are loaded when the program starts.
Init ==
    /\ lemonade = [a \in Aliases |-> IF Residency[a] \in {"preferred", "hard-pinned"}
                                     THEN "ready" ELSE "absent"]
    /\ health = lemonade
    /\ states = [a \in Aliases |-> IF lemonade[a] = "ready" THEN "ready" ELSE "unloaded"]
    /\ active = [a \in Aliases |-> 0]
    /\ demand = [a \in Aliases |-> 0]
    /\ owned = [a \in Aliases |-> lemonade[a] = "ready"]
    /\ displaced = [a \in Aliases |-> {}]
    /\ timer = [a \in Aliases |-> "none"]
    /\ loose = [a \in Aliases |-> 0]
    /\ late = [a \in Aliases |-> 0]
    /\ op = Free
    /\ sw = [a \in Targets |-> NoSwap]
    /\ swaps = 0 /\ faults = 0 /\ foreign = 0

-----------------------------------------------------------------------------
Held(view) == {a \in Aliases : view[a] # "absent"}
Resident == {a \in Aliases : states[a] \notin {"unloaded", "failed"}}
\* Seeded bug: a model that is being unloaded, or failed to load, serves.
ServingUnlessUnloaded(a) == states[a] # "unloaded"

Serving(a) == states[a] \in {"ready", "busy"}
\* Seeded bug: one too many.
FullPastCapacity == Cardinality(Held(health)) > Capacity

Full == Cardinality(Held(health)) >= Capacity
HasDemand(a) == demand[a] > 0

\* A call to the server works, or fails.
Works == UNCHANGED faults
Fails == faults < MaxFaults /\ faults' = faults + 1

\* Seeded bug: no lease counts as one.
ObservedBusy(view, a) ==
    CASE view[a] = "absent" -> "unloaded"
      [] view[a] = "ready" -> IF active[a] >= 0 THEN "busy" ELSE "ready"
      [] OTHER -> view[a]

\* reconcileLocked: take the server's view; a lease makes ready into busy.
Observed(view, a) ==
    CASE view[a] = "absent" -> "unloaded"
      [] view[a] = "ready" -> IF active[a] > 0 THEN "busy" ELSE "ready"
      [] OTHER -> view[a]

Reconcile(view) ==
    /\ health' = view
    /\ states' = [a \in Aliases |-> Observed(view, a)]

\* As Reconcile, but the caller then sets the state of a.
ReconcileAs(view, a, st) ==
    /\ health' = view
    /\ states' = [x \in Aliases |-> IF x = a THEN st ELSE Observed(view, x)]

setState(a, st) == states' = [states EXCEPT ![a] = st]

\* Stop and delete the timer of t.  One that has fired cannot be stopped: its
\* goroutine goes on.
dropTimer(t) ==
    /\ timer' = [timer EXCEPT ![t] = "none"]
    /\ late' = IF timer[t] = "fired" THEN [late EXCEPT ![t] = @ + 1] ELSE late
    /\ UNCHANGED loose

-----------------------------------------------------------------------------
(* The router's side.                                                       *)

\* collidesWith, and the busy check of the scheduler.
MaySwap(t, V) ==
    /\ \A u \in Targets \ {t} :
         sw[u].pc # "idle" =>
            u \notin V /\ t \notin sw[u].evict /\ V \intersect sw[u].evict = {}
    /\ \A v \in V : active[v] = 0

\* BeginSwap: record the preferred victims of a transient.
BeginSwap(t, V) ==
    displaced' = IF Residency[t] = "transient"
                 THEN [displaced EXCEPT ![t] = @ \union
                         {v \in V : Residency[v] = "preferred"}]
                 ELSE displaced

StartSwap(t) ==
    LET V == EvictionFor(t, Resident, Held(health))
    IN  /\ swaps < MaxSwaps /\ sw[t].pc = "idle" /\ ~Serving(t)
        /\ MaySwap(t, V)
        /\ BeginSwap(t, V)
        /\ sw' = [sw EXCEPT ![t] = [pc |-> "stop", todo |-> V, evict |-> V]]
        /\ swaps' = swaps + 1
        /\ UNCHANGED <<lemonade, health, states, active, demand, owned, timers,
                       op, faults, foreign>>

Lease(a) ==
    /\ dropTimer(a)
    /\ active' = [active EXCEPT ![a] = @ + 1]
    /\ setState(a, "busy")

\* Acquire for a request on the scheduler's fast path.
Acquire(a) ==
    /\ Serving(a) /\ active[a] < MaxLeases
    /\ sw[a].pc = "idle" /\ \A u \in Targets : a \notin sw[u].evict
    /\ Lease(a)
    /\ UNCHANGED <<lemonade, health, demand, owned, displaced, op, sw, bounds>>

\* The swap is over: its waiter gets a lease, unless it left, or the model is
\* no longer ready.
SwapGrants(t) ==
    /\ sw[t].pc = "grant"
    /\ sw' = [sw EXCEPT ![t] = NoSwap]
    /\ \/ /\ Serving(t) /\ active[t] < MaxLeases /\ Lease(t)
          /\ UNCHANGED <<demand, owned, displaced>>
       \/ (MayAbandon \/ ~Serving(t)) /\ UNCHANGED <<maps, timers>>
    /\ UNCHANGED <<lemonade, health, op, bounds>>

\* Release: the last lease of a transient that displaced something arms the
\* idle timer.
Release(a) ==
    /\ active[a] > 0
    /\ active' = [active EXCEPT ![a] = @ - 1]
    /\ states' = IF active[a] = 1 /\ states[a] = "busy"
                 THEN [states EXCEPT ![a] = "ready"] ELSE states
    /\ IF /\ active[a] = 1 /\ Residency[a] = "transient"
          /\ RestorePreferred /\ displaced[a] # {}
       THEN /\ timer' = [timer EXCEPT ![a] = "armed"]
            /\ loose' = IF timer[a] = "armed" THEN [loose EXCEPT ![a] = @ + 1] ELSE loose
            /\ UNCHANGED late
       ELSE UNCHANGED timers
    /\ UNCHANGED <<lemonade, health, demand, owned, displaced, op, sw, bounds>>

-----------------------------------------------------------------------------
(* Unload, of each victim of a swap; doSwap only logs its errors.           *)

UnloadOver(v, t) ==
    /\ op' = Free
    /\ sw' = [sw EXCEPT ![t].todo = @ \ {v}]

UnloadLocks(t, v) ==
    /\ op = Free /\ sw[t].pc = "stop" /\ v \in sw[t].todo
    /\ \/ /\ Works /\ Reconcile(lemonade)
          /\ op' = Op("unload", t, v, "check", {})
          /\ UNCHANGED sw
       \/ /\ Fails /\ UnloadOver(v, t)
          /\ UNCHANGED <<health, states>>
    /\ UNCHANGED <<lemonade, active, demand, owned, displaced, timers, swaps, foreign>>

At(kind, pc) == op.kind = kind /\ op.pc = pc

\* A model with leases, one that is not loaded and one that somebody else
\* loaded are left alone.
UnloadChecks ==
    LET v == op.arg
    IN  /\ At("unload", "check")
        /\ IF \/ active[v] > 0
              \/ states[v] = "unloaded"
              \/ Residency[v] = "external" /\ ~owned[v]
           THEN UnloadOver(v, op.for)
           ELSE op' = [op EXCEPT !.pc = "mark"] /\ UNCHANGED sw
        /\ UNCHANGED <<lemonade, health, maps, timers, bounds>>

UnloadMarks ==
    /\ At("unload", "mark")
    /\ setState(op.arg, "unloading")
    /\ op' = [op EXCEPT !.pc = "call"]
    /\ UNCHANGED <<lemonade, health, active, demand, owned, displaced, timers, sw, bounds>>

\* Unpin and unload, then reconcile; either may fail.
UnloadCalls ==
    LET v == op.arg
        gone == [lemonade EXCEPT ![v] = "absent"]
    IN  /\ At("unload", "call")
        /\ \/ /\ Works /\ lemonade' = gone
              /\ ReconcileAs(gone, v, "unloaded")
              /\ owned' = [owned EXCEPT ![v] = FALSE]
           \/ /\ Fails /\ lemonade' \in {lemonade, gone}
              /\ setState(v, "failed")
              /\ UNCHANGED <<health, owned>>
        /\ UnloadOver(v, op.for)
        /\ UNCHANGED <<active, demand, displaced, timers, swaps, foreign>>

\* A swap to Local: when every resident model is a victim, one UnloadAll
\* replaces the unloads.  The victims are the models whose process runs,
\* which a draining one does not.
StartLocalSwap ==
    LET V == {a \in Resident : states[a] # "draining"}
    IN  /\ LocalSwaps /\ swaps < MaxSwaps /\ sw[Local].pc = "idle"
        /\ V # {} /\ MaySwap(Local, V)
        /\ sw' = [sw EXCEPT ![Local] =
                    [pc |-> IF Resident = V THEN "sweep" ELSE "stop",
                     todo |-> V, evict |-> V]]
        /\ swaps' = swaps + 1
        /\ UNCHANGED <<lemonade, health, maps, timers, op, faults, foreign>>

\* UnloadAll clears the whole server, whatever it holds by now.
UnloadAll ==
    /\ op = Free /\ sw[Local].pc = "sweep"
    /\ sw' = [sw EXCEPT ![Local] = NoSwap]
    /\ \/ /\ Works
          /\ lemonade' = [a \in Aliases |-> "absent"] /\ health' = lemonade'
          /\ states' = [a \in Aliases |-> "unloaded"]
          /\ owned' = [a \in Aliases |-> FALSE]
          /\ displaced' = [a \in Aliases |-> {}]
       \/ Fails /\ UNCHANGED <<lemonade, health, states, owned, displaced>>
    /\ UNCHANGED <<active, demand, timers, op, swaps, foreign>>

LocalSwapEnds ==
    /\ sw[Local].pc = "stop" /\ sw[Local].todo = {}
    /\ sw' = [sw EXCEPT ![Local] = NoSwap]
    /\ UNCHANGED <<lemonade, health, maps, timers, op, bounds>>

-----------------------------------------------------------------------------
(* Load, of the target of a swap.                                           *)

LoadBegins(t) ==
    /\ sw[t].pc = "stop" /\ sw[t].todo = {}
    /\ demand' = [demand EXCEPT ![t] = @ + 1]
    /\ dropTimer(t)
    /\ sw' = [sw EXCEPT ![t].pc = "load"]
    /\ UNCHANGED <<lemonade, health, states, active, owned, displaced, op, bounds>>

LoadReturns(t, ok) ==
    /\ op' = Free
    /\ demand' = [demand EXCEPT ![t] = @ - 1]
    /\ sw' = [sw EXCEPT ![t] = IF ok THEN [@ EXCEPT !.pc = "grant"] ELSE NoSwap]

LoadLocks(t) ==
    /\ op = Free /\ sw[t].pc = "load"
    /\ \/ /\ Works /\ Reconcile(lemonade)
          /\ op' = Op("load", t, t, "check", {})
          /\ UNCHANGED <<demand, sw>>
       \/ /\ Fails /\ LoadReturns(t, FALSE)
          /\ UNCHANGED <<health, states>>
    /\ UNCHANGED <<lemonade, active, owned, displaced, timers, swaps, foreign>>

\* Already there: coalesced.  Externally managed, or no room: an error.
LoadCoalesces ==
    /\ At("load", "check") /\ states[op.for] = "ready"
    /\ LoadReturns(op.for, TRUE)
    /\ UNCHANGED <<lemonade, health, states, active, owned, displaced, timers, bounds>>

\* Seeded bug: without room the load is tried again for ever.
LoadRetries ==
    /\ At("load", "check") /\ states[op.for] # "ready"
    /\ Residency[op.for] = "external" \/ Full
    /\ op' = Free
    /\ UNCHANGED <<lemonade, health, maps, timers, sw, bounds>>

LoadRefused ==
    /\ At("load", "check") /\ states[op.for] # "ready"
    /\ Residency[op.for] = "external" \/ Full
    /\ LoadReturns(op.for, FALSE)
    /\ UNCHANGED <<lemonade, health, states, active, owned, displaced, timers, bounds>>

LoadMarks ==
    /\ At("load", "check") /\ states[op.for] # "ready"
    /\ Residency[op.for] # "external" /\ ~Full
    /\ setState(op.for, "loading")
    /\ op' = [op EXCEPT !.pc = "call"]
    /\ UNCHANGED <<lemonade, health, active, demand, owned, displaced, timers, sw, bounds>>

\* The model counts as ready only in state ready: one that kept a lease while
\* another application dropped it is busy, and the load reports a failure.
LoadCalls ==
    LET t == op.for
        there == [lemonade EXCEPT ![t] = "ready"]
        ok == active[t] = 0
    IN  /\ At("load", "call")
        /\ \/ /\ Works /\ lemonade' = there
              /\ ReconcileAs(there, t, IF ok THEN "ready" ELSE "failed")
              /\ owned' = IF ok THEN [owned EXCEPT ![t] = TRUE] ELSE owned
              /\ LoadReturns(t, ok)
           \/ /\ Fails /\ lemonade' \in {lemonade, there}
              /\ setState(t, "failed")
              /\ LoadReturns(t, FALSE)
              /\ UNCHANGED <<health, owned>>
        /\ UNCHANGED <<active, displaced, timers, swaps, foreign>>

-----------------------------------------------------------------------------
(* restore, run by a timer of the transient t.                              *)

TimerFires(t) ==
    /\ timer[t] = "armed" /\ late[t] + loose[t] < MaxLate
    /\ timer' = [timer EXCEPT ![t] = "fired"]
    /\ UNCHANGED <<lemonade, health, maps, loose, late, op, sw, bounds>>

LooseTimerFires(t) ==
    /\ loose[t] > 0
    /\ loose' = [loose EXCEPT ![t] = @ - 1]
    /\ late' = [late EXCEPT ![t] = @ + 1]
    /\ UNCHANGED <<lemonade, health, maps, timer, op, sw, bounds>>

\* The goroutine gets opMu and deletes the map's timer, whichever that is; it
\* gives up when the transient is in use, or displaced nothing.
RestoreLocks(t, current) ==
    /\ op = Free
    /\ IF current THEN timer[t] = "fired" ELSE late[t] > 0
    /\ timer' = [timer EXCEPT ![t] = "none"]
    /\ loose' = IF timer[t] = "armed" THEN [loose EXCEPT ![t] = @ + 1] ELSE loose
    /\ late' = IF current \/ timer[t] = "fired" THEN late
               ELSE [late EXCEPT ![t] = @ - 1]
    /\ IF active[t] > 0 \/ displaced[t] = {} \/ HasDemand(t)
       THEN UNCHANGED <<states, op>>
       ELSE /\ setState(t, "draining")
            /\ op' = Op("restore", t, t, "reconcile", displaced[t])
    /\ UNCHANGED <<lemonade, health, active, demand, owned, displaced, sw, bounds>>

RestoreFails(a) ==
    /\ setState(a, "failed") /\ op' = Free
    /\ UNCHANGED health

RestoreReconciles ==
    /\ At("restore", "reconcile")
    /\ \/ Works /\ Reconcile(lemonade) /\ op' = [op EXCEPT !.pc = "drain"]
       \/ Fails /\ RestoreFails(op.for)
    /\ UNCHANGED <<lemonade, active, demand, owned, displaced, timers, sw, swaps, foreign>>

\* Seeded bug: leases taken since the first look are not seen.
RestoreDrainsBlindly ==
    /\ At("restore", "drain")
    /\ setState(op.for, "draining") /\ op' = [op EXCEPT !.pc = "unload"]
    /\ UNCHANGED <<lemonade, health, active, demand, owned, displaced, timers, sw, bounds>>

RestoreDrains ==
    /\ At("restore", "drain")
    /\ IF active[op.for] > 0 \/ HasDemand(op.for)
       THEN setState(op.for, "ready") /\ op' = Free
       ELSE setState(op.for, "draining") /\ op' = [op EXCEPT !.pc = "unload"]
    /\ UNCHANGED <<lemonade, health, active, demand, owned, displaced, timers, sw, bounds>>

RestoreUnloads ==
    LET gone == [lemonade EXCEPT ![op.for] = "absent"]
    IN  /\ At("restore", "unload")
        /\ \/ /\ Works /\ lemonade' = gone /\ Reconcile(gone)
              /\ op' = [op EXCEPT !.pc = "item"]
           \/ Fails /\ lemonade' \in {lemonade, gone} /\ RestoreFails(op.for)
        /\ UNCHANGED <<active, demand, owned, displaced, timers, sw, swaps, foreign>>

\* The next displaced model, by priority.
FirstItem == CHOOSE a \in op.items : \A b \in op.items : Rank[a] <= Rank[b]

\* New demand for the transient postpones the rest.
RestoreItem ==
    /\ At("restore", "item") /\ op.items # {}
    /\ IF HasDemand(op.for)
       THEN op' = [op EXCEPT !.pc = "resume"] /\ UNCHANGED <<states, health>>
       ELSE IF Full THEN RestoreFails(FirstItem)
       ELSE /\ op' = [op EXCEPT !.pc = "load", !.arg = FirstItem]
            /\ UNCHANGED <<states, health>>
    /\ UNCHANGED <<lemonade, active, demand, owned, displaced, timers, sw, bounds>>

\* Up to three attempts; demand is looked at before each.
RestoreLoads ==
    LET there == [lemonade EXCEPT ![op.arg] = "ready"]
    IN  /\ At("restore", "load")
        /\ \/ /\ HasDemand(op.for) /\ Works
              /\ op' = [op EXCEPT !.pc = "resume"]
              /\ UNCHANGED <<lemonade, states, health>>
           \/ /\ Works /\ lemonade' = there /\ Reconcile(there)
              /\ op' = [op EXCEPT !.pc = "after"]
           \/ Fails /\ lemonade' \in {lemonade, there} /\ RestoreFails(op.arg)
        /\ UNCHANGED <<active, demand, owned, displaced, timers, sw, swaps, foreign>>

\* Demand that came during the load undoes it, errors ignored.
RestoreAfter ==
    /\ At("restore", "after")
    /\ IF HasDemand(op.for)
       THEN /\ op' = [op EXCEPT !.pc = "resume"]
            /\ LET gone == [lemonade EXCEPT ![op.arg] = "absent"]
               IN  \/ Works /\ lemonade' = gone /\ Reconcile(gone)
                   \/ Fails /\ lemonade' \in {lemonade, gone}
                      /\ UNCHANGED <<states, health>>
       ELSE /\ op' = [op EXCEPT !.pc = "item", !.items = @ \ {op.arg}]
            /\ UNCHANGED <<lemonade, states, health, faults>>
    /\ UNCHANGED <<active, demand, owned, displaced, timers, sw, swaps, foreign>>

\* resumeDemandedTransient: bring the transient back, keep displaced.
RestoreResumes ==
    LET t == op.for
        there == [lemonade EXCEPT ![t] = "ready"]
    IN  /\ At("restore", "resume") /\ op' = Free
        /\ \/ /\ states[t] # "unloaded" /\ setState(t, "ready")
              /\ UNCHANGED <<lemonade, health, faults>>
           \/ /\ states[t] = "unloaded" /\ Works
              /\ lemonade' = there /\ ReconcileAs(there, t, "ready")
           \/ /\ states[t] = "unloaded" /\ Fails
              /\ lemonade' \in {lemonade, there} /\ setState(t, "failed")
              /\ UNCHANGED health
        /\ UNCHANGED <<active, demand, owned, displaced, timers, sw, swaps, foreign>>

\* Done: displaced is deleted as it is now, the copy restored is owned.
RestoreEnds ==
    LET t == op.for
    IN  /\ At("restore", "item") /\ op.items = {}
        /\ displaced' = [displaced EXCEPT ![t] = {}]
        /\ setState(t, "unloaded")
        /\ owned' = [a \in Aliases |-> owned[a] \/ a \in op.restored]
        /\ op' = Free
        /\ UNCHANGED <<lemonade, health, active, demand, timers, sw, bounds>>

-----------------------------------------------------------------------------
\* watch: reconcile at every discovery interval.
Watches ==
    /\ op = Free /\ Reconcile(lemonade)
    /\ UNCHANGED <<lemonade, active, demand, owned, displaced, timers, op, sw, bounds>>

\* Another application, or the server itself, changes what is loaded.
ForeignChange(a) ==
    /\ foreign < MaxForeign /\ foreign' = foreign + 1
    /\ \E st \in Statuses \ {lemonade[a]} :
         /\ lemonade[a] = "absent" => Cardinality(Held(lemonade)) < Capacity
         /\ lemonade' = [lemonade EXCEPT ![a] = st]
    /\ UNCHANGED <<health, maps, timers, op, sw, swaps, faults>>

Transition ==
    \/ UnloadChecks \/ UnloadMarks \/ UnloadCalls
    \/ LoadCoalesces \/ LoadRefused \/ LoadMarks \/ LoadCalls
    \/ RestoreReconciles \/ RestoreDrains \/ RestoreUnloads \/ RestoreItem
    \/ RestoreLoads \/ RestoreAfter \/ RestoreResumes \/ RestoreEnds

Swap(t) ==
    \/ StartSwap(t) \/ LoadBegins(t) \/ LoadLocks(t) \/ SwapGrants(t)

Timers(t) ==
    \/ TimerFires(t) \/ LooseTimerFires(t)
    \/ \E current \in BOOLEAN : RestoreLocks(t, current)

Next ==
    \/ Transition
    \/ \E t \in Aliases :
         Swap(t) \/ Timers(t) \/ Acquire(t) \/ Release(t) \/ ForeignChange(t)
    \/ \E t \in Targets : \E v \in Aliases : UnloadLocks(t, v)
    \/ StartLocalSwap \/ UnloadAll \/ LocalSwapEnds
    \/ Watches

Spec == Init /\ [][Next]_vars

\* A swap gets opMu.
LockStep ==
    \/ \E t \in Targets : \E v \in Aliases : UnloadLocks(t, v)
    \/ \E t \in Aliases : LoadLocks(t)
    \/ UnloadAll

\* opMu is a Go mutex: of the goroutines that wait for it none waits for
\* ever.  Calls to the server are bounded by their timeouts, and the run loop
\* and the swap goroutines are scheduled.
Fairness ==
    /\ WF_vars(Transition) /\ SF_vars(LockStep)
    /\ WF_vars(LocalSwapEnds \/ \E t \in Aliases : LoadBegins(t) \/ SwapGrants(t))
    /\ WF_vars(\E a \in Aliases : Release(a))

FairSpec == Spec /\ Fairness

-----------------------------------------------------------------------------
(* Properties.                                                              *)

OpKinds == {"none", "unload", "load", "restore"}
OpPcs == {"", "check", "mark", "call", "reconcile", "drain", "unload", "item",
          "load", "after", "resume"}
SwPcs == {"idle", "stop", "sweep", "load", "grant"}

OpType == [kind : OpKinds, for : Targets \union {None},
           arg : Aliases \union {None}, pc : OpPcs,
           items : SUBSET Aliases, restored : SUBSET Aliases]
SwapType == [pc : SwPcs, todo : SUBSET Aliases, evict : SUBSET Aliases]

LoadedTyped ==
    /\ lemonade \in [Aliases -> Statuses] /\ health \in [Aliases -> Statuses]
    /\ states \in [Aliases -> States]
LeasesTyped ==
    /\ active \in [Aliases -> Nat] /\ demand \in [Aliases -> Nat]
    /\ owned \in [Aliases -> BOOLEAN] /\ displaced \in [Aliases -> SUBSET Aliases]
TimersTyped ==
    /\ timer \in [Aliases -> {"none", "armed", "fired"}]
    /\ loose \in [Aliases -> Nat] /\ late \in [Aliases -> Nat]

\* Type invariant of the manager, its server and the swaps.
TypeOK ==
    /\ LoadedTyped /\ LeasesTyped /\ TimersTyped
    /\ op \in OpType /\ sw \in [Targets -> SwapType]
    /\ {swaps, faults, foreign} \subseteq Nat

\* The server drops a model that has a lease.
LeasedDropped == \E a \in Aliases :
    active[a] > 0 /\ lemonade[a] # "absent" /\ lemonade'[a] = "absent"

\* An active lease prevents unload (docs/lemonade.md, Residency semantics):
\* Unload looks at the leases before it marks the model, restore when it
\* marks the transient as draining; no request may slip in between.
LeaseProtects == [][UnloadCalls \/ RestoreUnloads => ~LeasedDropped]_vars

\* ... the same of a restoration that undoes its last load ...
UndoSparesLeased == [][RestoreAfter => ~LeasedDropped]_vars

\* ... and of the UnloadAll of a swap to a process-managed model.
SweepSparesLeased == [][UnloadAll => ~LeasedDropped]_vars

\* While nobody else touches the server, Load and restore never put more
\* models on it than the pool's capacity, whatever ran since the swap was
\* planned (their checks under opMu, against the view last taken).
LoadsWithinCapacity ==
    [][LoadCalls \/ RestoreLoads =>
         \/ Cardinality(Held(lemonade')) <= Capacity
         \/ Held(lemonade') = Held(lemonade)]_vars

\* ... and so the server holds at most capacity models at any time ("Maximum
\* LLM residency llemon-swap plans against", docs/lemonade.md).
NoOverCapacity == Cardinality(Held(lemonade)) <= Capacity

\* A lease marks its model for as long as the server has it: a model is only
\* ever counted as evictable-while-ready when no request uses it (Acquire,
\* Release and reconcileLocked agree on busy).
BusyIsLeased == \A a \in Aliases : states[a] = "busy" => active[a] > 0

\* While nobody else changes the server and no call fails, a lease is only
\* ever granted on a model the server has ready.  (The state alone does not
\* tell: restore may mark as ready a transient another one has evicted; a
\* swap for it is then active, and keeps requests off the fast path.)
GrantedIsLoaded ==
    [][\A a \in Aliases : active'[a] > active[a] => lemonade[a] = "ready"]_vars

\* No swap waits for ever: neither its Unloads nor its Load are starved by
\* restorations, reconciliations or each other.
SwapsEnd == \A t \in Targets : sw[t].pc # "idle" ~> sw[t].pc = "idle"

\* Nothing runs and nothing is scheduled to run.
Settled ==
    /\ op = Free /\ \A t \in Targets : sw[t].pc = "idle"
    /\ \A a \in Aliases : /\ active[a] = 0 /\ timer[a] = "none"
                           /\ loose[a] = 0 /\ late[a] = 0

\* llemon-swap restores displaced defaults after their work finishes
\* (README.md): once nothing is left to do, none is still displaced.
DisplacedRestored ==
    Settled => \A t, p \in Aliases : p \in displaced[t] => lemonade[p] # "absent"

\* A preferred model that is absent is remembered as displaced until it has
\* been brought back (resumeDemandedTransient preserves the displaced set so
\* that a later Release can restore it).
DisplacedRemembered ==
    \A p \in Aliases : Residency[p] = "preferred" /\ lemonade[p] = "absent" =>
        \E t \in Aliases : p \in displaced[t] \/ sw[t].evict # {}

\* A transient stays for its whole idle time after its last work
\* (docs/lemonade.md, restoration): no restoration starts while the timer of
\* a newer idle period is still running.
FullIdleTime ==
    [][\A t \in Aliases :
         timer[t] = "armed" /\ op.kind # "restore" /\ op'.kind = "restore"
           => op'.for # t]_vars

\* A load is refused for want of capacity only when every slot is held by
\* pinned or external models (docs/lemonade.md, no_evictable_capacity).
RefusedOnlyWhenPinned ==
    [][LoadRefused /\ Residency[op.for] # "external" =>
         \A a \in Held(health) : Residency[a] \in {"hard-pinned", "external"}]_vars

=============================================================================
