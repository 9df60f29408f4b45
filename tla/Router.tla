------------------------------ MODULE Router ------------------------------
(***************************************************************************)
(* The local model router: the run loop of baseRouter                      *)
(* (internal/router/base.go), the FIFO scheduler it drives                 *)
(* (internal/router/scheduler/fifo.go), the doSwap goroutines it starts,   *)
(* the ServeHTTP goroutines that wait on it, and, seen from outside, the   *)
(* processes it starts and stops.                                          *)
(*                                                                         *)
(* The run loop is one goroutine that handles one event at a time, so a    *)
(* handler is atomic for the other users of the scheduler's maps.  It is   *)
(* not atomic for the processes and the clients: where a handler walks a   *)
(* list, reading process states or handing out grants item by item, each   *)
(* item is a step, and loopPc keeps the loop inside the handler until the  *)
(* walk is over.                                                           *)
(***************************************************************************)
EXTENDS Integers, Sequences, FiniteSets, SequencesExt

CONSTANTS
    Models,         \* keys of baseRouter.processes, fixed at construction
    Unknown,        \* a model name no process answers to
    Requests,       \* the HandlerReqs: each is sent at most once
    SwapIds,        \* slots for doSwap goroutines (bound: goroutines alive)
    Limit,          \* limits: model -> admitted requests at a time
    Priority,       \* cfg.Priority: model -> integer
    Pools,          \* lifecycle pools
    PoolOf,         \* model -> its LifecyclePool, or something not in Pools
    ResidentFirst,  \* pools with residentFirst
    MaxBurst,       \* pool -> maxResidentBurst, 0 when the bound is off
    WaitBounded,    \* pools with maxResidentWait > 0
    Leased,         \* models of a provider: LeaseAware processes
    Loaded,         \* models that are ready when the router starts
    MaxUnloads,     \* bound: Unload calls in a behaviour
    MayShutdown,    \* whether Shutdown may be called
    MayExit,        \* whether processes stop, or provider models appear,
                    \* without the router asking
    MayDisconnect,  \* requests whose client may disconnect
    EvictionFor(_, _, _)  \* Swapper.EvictionFor(target, running, resident)

Ids == Models \union {Unknown}

ASSUME UnknownAssumption == Unknown \notin Models
ASSUME LimitAssumption == Limit \in [Models -> Nat \ {0}]
ASSUME PolicyAssumption ==
    /\ Priority \in [Models -> Int]
    /\ DOMAIN PoolOf = Models
    /\ ResidentFirst \subseteq Pools /\ WaitBounded \subseteq Pools
    /\ MaxBurst \in [Pools -> Nat]
    \* validated at load: residentFirst needs a bound
    /\ \A p \in ResidentFirst : MaxBurst[p] > 0 \/ p \in WaitBounded
ASSUME LoadedAssumption == Leased \subseteq Models /\ Loaded \subseteq Leased
ASSUME BoundAssumption == MaxUnloads \in Nat /\ MayShutdown \in BOOLEAN
                          /\ MayExit \in BOOLEAN /\ MayDisconnect \subseteq Requests

\* Every swapper of the code evicts only models that run, never its target.
ASSUME EvictionAssumption ==
    \A m \in Models : \A R, S \in SUBSET Models :
        EvictionFor(m, R, S) \subseteq (R \union S) \ {m}

VARIABLES
    cpc,            \* where each request's ServeHTTP goroutine is
    want,           \* the model it asks for
    active,         \* FIFO.active: targets of the swaps the scheduler tracks
    evict,          \* activeSwap.evict of each active target
    waiters,        \* activeSwap.waiters of each active target
    queued,         \* FIFO.queued
    waited,         \* queued requests older than maxResidentWait
    reserved,       \* FIFO.reserved
    inFlight,       \* FIFO.inFlight
    residentBursts, \* FIFO.residentBursts
    loopPc,         \* where the run loop is
    fan,            \* waiters the current handler has still to answer
    fanErr,         \* ... with an error (else with a tracked handler)
    pending,        \* drainQueue: items not yet looked at, in fair order
    remaining,      \* drainQueue: items that stay queued
    targets,        \* Unload: the models asked for
    toStop,         \* Unload, shutdown: processes still to be stopped
    unloads,        \* Unload calls so far
    shuttingDown,   \* baseRouter.shuttingDown
    shut,           \* shutdownCtx is cancelled
    swap,           \* the doSwap goroutines
    ps              \* process states, as State() reports them

clientVars == <<cpc, want>>
swapTable  == <<active, evict, waiters>>
queueVars  == <<queued, waited>>
counters   == <<reserved, inFlight, residentBursts>>
walkVars   == <<fan, fanErr, pending, remaining, targets, toStop>>
ctlVars    == <<unloads, shuttingDown, shut>>
vars == <<clientVars, swapTable, queueVars, counters, loopPc, walkVars,
          ctlVars, swap, ps>>

ClientPcs == {"idle", "arriving", "waiting", "serving", "finishing",
              "cancelling", "done"}
LoopPcs == {"select", "fanout", "unload", "drain", "shutdown", "exited"}
ProcStates == {"stopped", "starting", "ready", "shutdown"}
SwapPcs == {"free", "stop", "ensure", "start", "report"}
Swaps == [pc : SwapPcs, model : Ids, left : SUBSET Models, err : BOOLEAN,
          orphan : BOOLEAN]

FreeSwap == [pc |-> "free", model |-> Unknown, left |-> {}, err |-> FALSE,
             orphan |-> FALSE]

Init ==
    /\ cpc = [r \in Requests |-> "idle"]
    /\ want = [r \in Requests |-> Unknown]
    /\ active = {}
    /\ evict = [m \in Models |-> {}]
    /\ waiters = [m \in Models |-> {}]
    /\ queued = <<>> /\ waited = {}
    /\ reserved = [m \in Models |-> 0]
    /\ inFlight = [m \in Models |-> 0]
    /\ residentBursts = [p \in Pools |-> 0]
    /\ loopPc = "select"
    /\ fan = {} /\ fanErr = FALSE
    /\ pending = <<>> /\ remaining = <<>>
    /\ targets = {} /\ toStop = {}
    /\ unloads = 0 /\ shuttingDown = FALSE /\ shut = FALSE
    /\ swap = [s \in SwapIds |-> FreeSwap]
    /\ ps = [m \in Models |-> IF m \in Loaded THEN "ready" ELSE "stopped"]

-----------------------------------------------------------------------------
(* What the scheduler sees, and its decisions.                              *)

\* RunningModels, united with the targets of the other active swaps.
runningSet(m) ==
    {x \in Models : ps[x] \notin {"stopped", "shutdown"}} \union (active \ {m})

Ready == {m \in Models : ps[m] = "ready"}

Evictions(m) == EvictionFor(m, runningSet(m), Ready)

\* A new swap to m cannot run beside the active ones.
collidesWith(m, ev) ==
    \E a \in active \ {m} :
        \/ a \in ev
        \/ m \in evict[a]
        \/ ev \intersect evict[a] # {}

\* Seeded bug: requests in flight are not looked at.
conflictsWithNothing(ev) == FALSE

conflictsWithInFlight(ev) == \E v \in ev : inFlight[v] > 0

\* The target is ready, nothing is to be evicted and nobody evicts it.
FastPath(m) ==
    ps[m] = "ready" /\ Evictions(m) = {} /\ ~collidesWith(m, {})

Blocked(m) ==
    \/ collidesWith(m, Evictions(m))
    \/ conflictsWithInFlight(Evictions(m))

isCold(m) == ps[m] # "ready" \/ Evictions(m) # {}

ColdQueued(p) ==
    {r \in ToSet(queued) : PoolOf[want[r]] = p /\ isCold(want[r])}

\* The oldest cold request has waited maxResidentWait iff some cold request
\* has: the oldest has waited longest.
BoundReached(p) ==
    \/ MaxBurst[p] > 0 /\ residentBursts[p] >= MaxBurst[p]
    \/ p \in WaitBounded /\ ColdQueued(p) \intersect waited # {}

shouldYieldToCold(m) ==
    /\ PoolOf[m] \in ResidentFirst
    /\ ColdQueued(PoolOf[m]) # {}
    /\ BoundReached(PoolOf[m])

(***************************************************************************)
(* fairOrder.  In a resident-first pool that has cold work, the pool's     *)
(* places in the queue are refilled: residents first, then cold work, each *)
(* in the order they had, except that the first cold item leads when a     *)
(* bound is reached.  pi[i] is the old place of the new i-th item.         *)
(***************************************************************************)
\* Seeded bug: the items of a pool come back last first.
LastFirstRank(i) == -i

FairRank(i) ==
    LET p == PoolOf[want[queued[i]]]
        cold(j) == PoolOf[want[queued[j]]] = p /\ isCold(want[queued[j]])
    IN  IF ~cold(i) THEN 1
        ELSE IF BoundReached(p) /\ \A j \in 1..(i - 1) : ~cold(j) THEN 0
        ELSE 2

IsFairOrder(pi) ==
    \A i \in DOMAIN queued :
        LET p == PoolOf[want[queued[i]]] IN
        /\ PoolOf[want[queued[pi[i]]]] = p
        /\ IF p \in ResidentFirst /\ ColdQueued(p) # {}
           THEN \A j \in DOMAIN queued :
                  (i < j /\ PoolOf[want[queued[j]]] = p) =>
                    \/ FairRank(pi[i]) < FairRank(pi[j])
                    \/ FairRank(pi[i]) = FairRank(pi[j]) /\ pi[i] < pi[j]
           ELSE pi[i] = i

Permutes(pi) == \A i, j \in DOMAIN pi : pi[i] = pi[j] => i = j

-----------------------------------------------------------------------------
(* Pieces of the handlers.                                                  *)

\* Seeded bug: the reserved slot is not released.
GrantErrorKeepsSlot(r) ==
    /\ cpc' = IF cpc[r] = "waiting" THEN [cpc EXCEPT ![r] = "done"] ELSE cpc
    /\ UNCHANGED reserved

\* GrantError, preceded by the release of the reserved slot.  A client still
\* parked takes the error and returns; one that left is unaffected.
GrantError(r) ==
    /\ reserved' = [reserved EXCEPT ![want[r]] = @ - 1]
    /\ cpc' = IF cpc[r] = "waiting" THEN [cpc EXCEPT ![r] = "done"] ELSE cpc

\* AcquireLease fails for a provider model that is not ready.
LeaseRefused(m) == m \in Leased /\ ps[m] # "ready"

\* Seeded bug: a grant counts although the client has left.
grantHandlerCountsGone(r) ==
    IF LeaseRefused(want[r]) THEN GrantError(r) /\ UNCHANGED inFlight
    ELSE /\ inFlight' = [inFlight EXCEPT ![want[r]] = @ + 1]
         /\ cpc' = IF cpc[r] = "waiting" THEN [cpc EXCEPT ![r] = "serving"] ELSE cpc
         /\ UNCHANGED reserved

\* grantHandler: inFlight counts the request only if the client took the
\* grant; otherwise its slot is released.
grantHandler(r) ==
    IF LeaseRefused(want[r]) THEN GrantError(r) /\ UNCHANGED inFlight
    ELSE IF cpc[r] = "waiting"
    THEN /\ inFlight' = [inFlight EXCEPT ![want[r]] = @ + 1]
         /\ cpc' = [cpc EXCEPT ![r] = "serving"]
         /\ UNCHANGED reserved
    ELSE /\ reserved' = [reserved EXCEPT ![want[r]] = @ - 1]
         /\ UNCHANGED <<inFlight, cpc>>

recordResidentAdmission(m) ==
    residentBursts' =
        IF PoolOf[m] \in Pools /\ ColdQueued(PoolOf[m]) # {}
        THEN [residentBursts EXCEPT ![PoolOf[m]] = @ + 1]
        ELSE residentBursts

Join(r) ==
    /\ waiters' = [waiters EXCEPT ![want[r]] = @ \union {r}]
    /\ UNCHANGED <<active, evict, residentBursts, swap>>

\* startSwap: record the swap, reset the pool's burst, launch doSwap.
startSwap(r) ==
    LET m == want[r]
        ev == Evictions(m)
        s == CHOOSE i \in SwapIds : swap[i].pc = "free"
    IN  /\ \E i \in SwapIds : swap[i].pc = "free"
        /\ active' = active \union {m}
        /\ evict' = [evict EXCEPT ![m] = ev]
        /\ waiters' = [waiters EXCEPT ![m] = {r}]
        /\ residentBursts' = IF PoolOf[m] \in Pools
                             THEN [residentBursts EXCEPT ![PoolOf[m]] = 0]
                             ELSE residentBursts
        /\ swap' = [swap EXCEPT ![s] = [FreeSwap EXCEPT
                        !.pc = "stop", !.model = m, !.left = ev]]

\* Seeded bug: before the first item of the same priority.
enqueueAtFront(r) ==
    LET lower == {j \in DOMAIN queued :
                    Priority[want[queued[j]]] <= Priority[want[r]]}
        i == CHOOSE k \in 1..(Len(queued) + 1) :
                /\ k \in lower \/ k = Len(queued) + 1
                /\ \A j \in lower : k <= j
    IN  queued' = InsertAt(queued, i, r)

\* enqueue: before the first item of strictly lower priority.
enqueue(r) ==
    LET lower == {j \in DOMAIN queued :
                    Priority[want[queued[j]]] < Priority[want[r]]}
        i == CHOOSE k \in 1..(Len(queued) + 1) :
                /\ k \in lower \/ k = Len(queued) + 1
                /\ \A j \in lower : k <= j
    IN  queued' = InsertAt(queued, i, r)

\* Seeded bug: nobody walks the queue.
BeginNothing == loopPc' = "select" /\ UNCHANGED pending

\* The walk that ends OnSwapDone, OnServeDone and OnUnload: drainQueue, over
\* the queue in fair order.  FIFO.queued stays as it is until the walk ends.
BeginDrain ==
    IF queued = <<>>
    THEN loopPc' = "select" /\ UNCHANGED pending
    ELSE /\ loopPc' = "drain"
         /\ \E pi \in [DOMAIN queued -> DOMAIN queued] :
              /\ Permutes(pi) /\ IsFairOrder(pi)
              /\ pending' = [i \in DOMAIN queued |-> queued[pi[i]]]

-----------------------------------------------------------------------------
(* ServeHTTP goroutines.                                                    *)

\* ServeHTTP: with the router shutting down the request is refused at once.
Arrive(r, m) ==
    /\ cpc[r] = "idle"
    /\ want' = [want EXCEPT ![r] = m]
    /\ cpc' = [cpc EXCEPT ![r] = IF shuttingDown THEN "done" ELSE "arriving"]
    /\ UNCHANGED <<swapTable, queueVars, counters, loopPc, walkVars, ctlVars,
                   swap, ps>>

\* The client disconnects: before the run loop took the request it simply
\* leaves, afterwards it goes to tell the scheduler.
Disconnect(r) ==
    /\ r \in MayDisconnect
    /\ \/ cpc[r] = "arriving" /\ cpc' = [cpc EXCEPT ![r] = "done"]
       \/ cpc[r] = "waiting" /\ cpc' = [cpc EXCEPT ![r] = "cancelling"]
    /\ UNCHANGED <<want, swapTable, queueVars, counters, loopPc, walkVars,
                   ctlVars, swap, ps>>

\* p.ServeHTTP returns; trackedServe goes to send its ServeDoneEvent.
ServeReturns(r) ==
    /\ cpc[r] = "serving"
    /\ cpc' = [cpc EXCEPT ![r] = "finishing"]
    /\ UNCHANGED <<want, swapTable, queueVars, counters, loopPc, walkVars,
                   ctlVars, swap, ps>>

\* Seeded bug: the send of a cancellation does not listen on shutdownCtx.
LeaveUnlessCancelling(r) ==
    /\ shut /\ cpc[r] \in {"arriving", "waiting", "finishing"}
    /\ cpc' = [cpc EXCEPT ![r] = "done"]
    /\ UNCHANGED <<want, swapTable, queueVars, counters, loopPc, walkVars,
                   ctlVars, swap, ps>>

\* Every wait of a client also listens on shutdownCtx.
LeaveOnShutdown(r) ==
    /\ shut /\ cpc[r] \in {"arriving", "waiting", "cancelling", "finishing"}
    /\ cpc' = [cpc EXCEPT ![r] = "done"]
    /\ UNCHANGED <<want, swapTable, queueVars, counters, loopPc, walkVars,
                   ctlVars, swap, ps>>

-----------------------------------------------------------------------------
(* OnRequest.                                                               *)

\* Unknown model, or no free slot of the concurrency limit: the client reads
\* the refusal from Admit and returns.
RejectRequest(r) ==
    /\ loopPc = "select" /\ cpc[r] = "arriving"
    /\ want[r] \in Models => reserved[want[r]] >= Limit[want[r]]
    /\ cpc' = [cpc EXCEPT ![r] = "done"]
    /\ UNCHANGED <<want, swapTable, queueVars, counters, loopPc, walkVars,
                   ctlVars, swap, ps>>

\* The client is gone when the admission is sent: nothing is recorded, and
\* the client goes on to send its cancellation.
AdmitGone(r) ==
    /\ r \in MayDisconnect
    /\ loopPc = "select" /\ cpc[r] = "arriving"
    /\ cpc' = [cpc EXCEPT ![r] = "cancelling"]
    /\ UNCHANGED <<want, swapTable, queueVars, counters, loopPc, walkVars,
                   ctlVars, swap, ps>>

\* admit: reserve one future serving slot.
Admitted(r) ==
    /\ loopPc = "select" /\ cpc[r] = "arriving" /\ want[r] \in Models
    /\ reserved[want[r]] < Limit[want[r]]
    /\ UNCHANGED <<want, waited, loopPc, walkVars, ctlVars, ps>>

Reserve(r) ==
    /\ reserved' = [reserved EXCEPT ![want[r]] = @ + 1]
    /\ cpc' = [cpc EXCEPT ![r] = "waiting"]

RequestJoins(r) ==
    /\ Admitted(r) /\ want[r] \in active
    /\ Reserve(r) /\ Join(r)
    /\ UNCHANGED <<queued, inFlight>>

\* The client may leave between the admission and the grant, and a provider
\* model may stop being ready: then the slot is released again, though the
\* burst counted the admission.
RequestFastPath(r) ==
    /\ Admitted(r) /\ want[r] \notin active
    /\ FastPath(want[r]) /\ ~shouldYieldToCold(want[r])
    /\ recordResidentAdmission(want[r])
    /\ \/ /\ cpc' = [cpc EXCEPT ![r] = "serving"]
          /\ reserved' = [reserved EXCEPT ![want[r]] = @ + 1]
          /\ inFlight' = [inFlight EXCEPT ![want[r]] = @ + 1]
       \/ /\ r \in MayDisconnect
          /\ cpc' = [cpc EXCEPT ![r] = "cancelling"]
          /\ UNCHANGED <<reserved, inFlight>>
       \/ /\ want[r] \in Leased /\ MayExit
          /\ cpc' = [cpc EXCEPT ![r] = "done"]
          /\ UNCHANGED <<reserved, inFlight>>
    /\ UNCHANGED <<queued, swapTable, swap>>

RequestQueued(r) ==
    /\ Admitted(r) /\ want[r] \notin active
    /\ IF FastPath(want[r]) THEN shouldYieldToCold(want[r])
                            ELSE Blocked(want[r])
    /\ Reserve(r) /\ enqueue(r)
    /\ UNCHANGED <<swapTable, inFlight, residentBursts, swap>>

RequestStartsSwap(r) ==
    /\ Admitted(r) /\ want[r] \notin active
    /\ ~FastPath(want[r]) /\ ~Blocked(want[r])
    /\ Reserve(r) /\ startSwap(r)
    /\ UNCHANGED <<queued, inFlight>>

OnRequest(r) ==
    \/ RejectRequest(r)
    \/ AdmitGone(r)
    \/ RequestJoins(r)
    \/ RequestFastPath(r)
    \/ RequestQueued(r)
    \/ RequestStartsSwap(r)

-----------------------------------------------------------------------------
(* The other events of the run loop.                                        *)

\* OnCancel: prune the request from the queue and from every swap's waiters.
OnCancel(r) ==
    /\ loopPc = "select" /\ cpc[r] = "cancelling"
    /\ LET held == r \in ToSet(queued) \/ \E a \in active : r \in waiters[a]
       IN  reserved' = IF held THEN [reserved EXCEPT ![want[r]] = @ - 1]
                               ELSE reserved
    /\ queued' = RemoveFirst(queued, r)
    /\ waited' = waited \ {r}
    /\ waiters' = [m \in Models |-> waiters[m] \ {r}]
    /\ cpc' = [cpc EXCEPT ![r] = "done"]
    /\ UNCHANGED <<want, active, evict, inFlight, residentBursts, loopPc,
                   walkVars, ctlVars, swap, ps>>

\* OnSwapDone: a result for a model with no active entry is dropped.  The
\* event names the model only, not the swap it comes from.
OnSwapDone(s) ==
    LET m == swap[s].model
    IN  /\ loopPc = "select" /\ swap[s].pc = "report"
        /\ swap' = [swap EXCEPT ![s] = FreeSwap]
        /\ IF m \notin active
           THEN UNCHANGED <<swapTable, loopPc, fan, fanErr>>
           ELSE /\ active' = active \ {m}
                /\ evict' = [evict EXCEPT ![m] = {}]
                /\ fan' = waiters[m]
                /\ waiters' = [waiters EXCEPT ![m] = {}]
                /\ fanErr' = swap[s].err
                /\ loopPc' = "fanout"
        /\ UNCHANGED <<clientVars, queueVars, counters, pending, remaining,
                       targets, toStop, ctlVars, ps>>

\* One waiter of the list OnSwapDone, OnUnload or OnShutdown walks.
AnswerWaiter(r) ==
    /\ loopPc = "fanout" /\ r \in fan
    /\ fan' = fan \ {r}
    /\ IF fanErr THEN GrantError(r) /\ UNCHANGED inFlight
                 ELSE grantHandler(r)
    /\ UNCHANGED <<want, swapTable, queueVars, residentBursts, loopPc, fanErr,
                   pending, remaining, targets, toStop, ctlVars, swap, ps>>

WaitersAnswered ==
    /\ loopPc = "fanout" /\ fan = {}
    /\ IF shut THEN loopPc' = "shutdown" /\ UNCHANGED pending
       ELSE IF targets # {} THEN loopPc' = "unload" /\ UNCHANGED pending
       ELSE BeginDrain
    /\ UNCHANGED <<clientVars, swapTable, queueVars, counters, fan, fanErr,
                   remaining, targets, toStop, ctlVars, swap, ps>>

\* OnServeDone: retry the queue when the model has become idle.
OnServeDone(r) ==
    LET m == want[r]
    IN  /\ loopPc = "select" /\ cpc[r] = "finishing"
        /\ cpc' = [cpc EXCEPT ![r] = "done"]
        /\ inFlight' = [inFlight EXCEPT ![m] = @ - 1]
        /\ reserved' = [reserved EXCEPT ![m] = @ - 1]
        /\ IF inFlight[m] - 1 <= 0 THEN BeginDrain
                                   ELSE UNCHANGED <<loopPc, pending>>
        /\ UNCHANGED <<want, swapTable, queueVars, residentBursts, fan, fanErr,
                       remaining, targets, toStop, ctlVars, swap, ps>>

-----------------------------------------------------------------------------
(* drainQueue, one item at a time.  There is no shouldYieldToCold here.     *)

AtItem(r) == loopPc = "drain" /\ pending # <<>> /\ r = Head(pending)

\* Seeded bug: an item that is dealt with is put back as well.
DequeueKeeps(r) ==
    /\ pending' = Tail(pending)
    /\ remaining' = Append(remaining, r)
    /\ UNCHANGED <<waited, want, queued, loopPc, fan, fanErr, targets, toStop,
                   ctlVars, ps>>

Dequeue(r) ==
    /\ pending' = Tail(pending)
    /\ waited' = waited \ {r}
    /\ UNCHANGED <<remaining, want, queued, loopPc, fan, fanErr, targets,
                   toStop, ctlVars, ps>>

DrainJoins(r) ==
    /\ AtItem(r) /\ want[r] \in active
    /\ Join(r) /\ Dequeue(r)
    /\ UNCHANGED <<cpc, reserved, inFlight>>

DrainFastPath(r) ==
    /\ AtItem(r) /\ want[r] \notin active /\ FastPath(want[r])
    /\ recordResidentAdmission(want[r])
    /\ grantHandler(r) /\ Dequeue(r)
    /\ UNCHANGED <<swapTable, swap>>

DrainStartsSwap(r) ==
    /\ AtItem(r) /\ want[r] \notin active
    /\ ~FastPath(want[r]) /\ ~Blocked(want[r])
    /\ startSwap(r) /\ Dequeue(r)
    /\ UNCHANGED <<cpc, reserved, inFlight>>

DrainKeeps(r) ==
    /\ AtItem(r) /\ want[r] \notin active
    /\ ~FastPath(want[r]) /\ Blocked(want[r])
    /\ pending' = Tail(pending)
    /\ remaining' = Append(remaining, r)
    /\ UNCHANGED <<clientVars, swapTable, queueVars, counters, loopPc, fan,
                   fanErr, targets, toStop, ctlVars, swap, ps>>

DrainEnds ==
    /\ loopPc = "drain" /\ pending = <<>>
    /\ queued' = remaining /\ remaining' = <<>>
    /\ loopPc' = "select"
    /\ UNCHANGED <<clientVars, swapTable, waited, counters, fan, fanErr,
                   pending, targets, toStop, ctlVars, swap, ps>>

DrainStep(r) ==
    \/ DrainJoins(r)
    \/ DrainFastPath(r)
    \/ DrainStartsSwap(r)
    \/ DrainKeeps(r)

-----------------------------------------------------------------------------
(* Stop and EnsureReady of a process, as the router sees them.  A Stop is   *)
(* one step here; until it the process counts as running, as the stopping   *)
(* process does in RunningModels.  The Stop of a provider model waits for a *)
(* load in progress, and may fail, which doSwap and StopProcesses only log. *)

\* A start in progress is aborted and its EnsureReady returns an error.
StartOver(sw, m, err) ==
    [s \in SwapIds |->
        IF sw[s].pc = "start" /\ sw[s].model = m
        THEN [sw[s] EXCEPT !.pc = "report", !.err = err]
        ELSE sw[s]]

Stop(m) ==
    /\ m \in Leased => ps[m] # "starting"
    /\ \/ ps' = IF ps[m] = "shutdown" THEN ps ELSE [ps EXCEPT ![m] = "stopped"]
       \/ m \in Leased /\ UNCHANGED ps

\* OnUnload: drop the active swaps of the targets (their goroutines go on
\* unwatched), then answer their waiters with an error.
OnUnload(T) ==
    /\ loopPc = "select" /\ unloads < MaxUnloads
    /\ unloads' = unloads + 1
    /\ targets' = T /\ toStop' = T
    /\ active' = active \ T
    /\ evict' = [m \in Models |-> IF m \in T THEN {} ELSE evict[m]]
    /\ fan' = UNION {waiters[m] : m \in T}
    /\ waiters' = [m \in Models |-> IF m \in T THEN {} ELSE waiters[m]]
    /\ fanErr' = TRUE
    /\ swap' = [s \in SwapIds |->
                  IF swap[s].model \in T
                  THEN [swap[s] EXCEPT !.orphan = TRUE] ELSE swap[s]]
    /\ loopPc' = "fanout"
    /\ UNCHANGED <<clientVars, queueVars, counters, pending, remaining,
                   shuttingDown, shut, ps>>

QueuedTargets == {r \in ToSet(queued) : want[r] \in targets}

\* ... and the queued requests for the targets, one at a time ...
UnloadDrops(r) ==
    /\ loopPc = "unload" /\ r \in QueuedTargets
    /\ queued' = RemoveFirst(queued, r)
    /\ waited' = waited \ {r}
    /\ GrantError(r)
    /\ UNCHANGED <<want, swapTable, inFlight, residentBursts, loopPc, walkVars,
                   ctlVars, swap, ps>>

\* ... and only then stop the processes: StopProcesses, in any order.
UnloadStops(m) ==
    /\ loopPc = "unload" /\ QueuedTargets = {} /\ m \in toStop
    /\ toStop' = toStop \ {m}
    /\ Stop(m)
    /\ swap' = StartOver(swap, m, TRUE)
    /\ UNCHANGED <<clientVars, swapTable, queueVars, counters, loopPc, fan,
                   fanErr, pending, remaining, targets, ctlVars>>

\* Every target is stopped: drain, and let Unload return.
UnloadEnds ==
    /\ loopPc = "unload" /\ QueuedTargets = {} /\ toStop = {}
    /\ targets' = {}
    /\ BeginDrain
    /\ UNCHANGED <<clientVars, swapTable, queueVars, counters, fan, fanErr,
                   remaining, toStop, ctlVars, swap, ps>>

-----------------------------------------------------------------------------
(* Shutdown.                                                                *)

CallShutdown ==
    /\ MayShutdown /\ ~shuttingDown
    /\ shuttingDown' = TRUE
    /\ UNCHANGED <<clientVars, swapTable, queueVars, counters, loopPc,
                   walkVars, unloads, shut, swap, ps>>

\* handleShutdown: cancel shutdownCtx, answer everyone the scheduler holds.
OnShutdown ==
    /\ loopPc = "select" /\ shuttingDown
    /\ shut' = TRUE
    /\ fan' = ToSet(queued) \union UNION {waiters[m] : m \in active}
    /\ fanErr' = TRUE
    /\ toStop' = Models
    /\ loopPc' = "fanout"
    /\ UNCHANGED <<clientVars, swapTable, queueVars, counters, pending,
                   remaining, targets, unloads, shuttingDown, swap, ps>>

\* ProviderModel.Shutdown leaves the provider's model alone.
ShutdownStops(m) ==
    /\ loopPc = "shutdown" /\ m \in toStop
    /\ toStop' = toStop \ {m}
    /\ IF m \in Leased THEN UNCHANGED <<ps, swap>>
                       ELSE Stop(m) /\ swap' = StartOver(swap, m, TRUE)
    /\ UNCHANGED <<clientVars, swapTable, queueVars, counters, loopPc, fan,
                   fanErr, pending, remaining, targets, ctlVars>>

\* procCancel; Shutdown returns to its caller.
ShutdownEnds ==
    /\ loopPc = "shutdown" /\ toStop = {}
    /\ loopPc' = "exited"
    /\ UNCHANGED <<clientVars, swapTable, queueVars, counters, walkVars,
                   ctlVars, swap, ps>>

-----------------------------------------------------------------------------
(* doSwap goroutines.                                                       *)

\* p.Stop of a victim returns; the victims are stopped in parallel.
SwapStops(s, v) ==
    /\ swap[s].pc = "stop" /\ v \in swap[s].left
    /\ Stop(v)
    /\ swap' = [StartOver(swap, v, TRUE) EXCEPT ![s].left = @ \ {v}]
    /\ UNCHANGED <<clientVars, swapTable, queueVars, counters, loopPc,
                   walkVars, ctlVars>>

\* Seeded bug: the victims are not waited for.
SwapStoppedEarly(s) ==
    /\ swap[s].pc = "stop"
    /\ swap' = [swap EXCEPT ![s].pc = "ensure"]
    /\ UNCHANGED <<clientVars, swapTable, queueVars, counters, loopPc,
                   walkVars, ctlVars, ps>>

\* wg.Wait returned: ask the target to get ready.
SwapStopped(s) ==
    /\ swap[s].pc = "stop" /\ swap[s].left = {}
    /\ swap' = [swap EXCEPT ![s].pc = "ensure"]
    /\ UNCHANGED <<clientVars, swapTable, queueVars, counters, loopPc,
                   walkVars, ctlVars, ps>>

\* EnsureReady is received by the process once no start is in progress.
SwapEnsures(s) ==
    LET m == swap[s].model
    IN  /\ swap[s].pc = "ensure"
        /\ CASE ps[m] = "stopped" ->
                  /\ ps' = [ps EXCEPT ![m] = "starting"]
                  /\ swap' = [swap EXCEPT ![s].pc = "start"]
             [] ps[m] \in {"ready", "shutdown"} ->
                  /\ swap' = [swap EXCEPT ![s].pc = "report",
                                          ![s].err = ps[m] = "shutdown"]
                  /\ UNCHANGED ps
             [] OTHER -> FALSE
        /\ UNCHANGED <<clientVars, swapTable, queueVars, counters, loopPc,
                       walkVars, ctlVars>>

\* Seeded bug: the send of the result does not listen on shutdownCtx.
SwapGivesUpUnlessReporting(s) ==
    /\ shut /\ swap[s].pc \in {"ensure", "start"}
    /\ swap' = [swap EXCEPT ![s] = FreeSwap]
    /\ UNCHANGED <<clientVars, swapTable, queueVars, counters, loopPc,
                   walkVars, ctlVars, ps>>

\* After shutdownCtx is cancelled EnsureReady may return at any point (the
\* start itself goes on) and the result is dropped.
SwapGivesUp(s) ==
    /\ shut /\ swap[s].pc \in {"ensure", "start", "report"}
    /\ swap' = [swap EXCEPT ![s] = FreeSwap]
    /\ UNCHANGED <<clientVars, swapTable, queueVars, counters, loopPc,
                   walkVars, ctlVars, ps>>

-----------------------------------------------------------------------------
(* Processes, and time.                                                     *)

\* doStart ends: healthy, or failed or timed out.
StartEnds(m, ok) ==
    /\ ps[m] = "starting"
    /\ ps' = [ps EXCEPT ![m] = IF ok THEN "ready" ELSE "stopped"]
    /\ swap' = StartOver(swap, m, ~ok)
    /\ UNCHANGED <<clientVars, swapTable, queueVars, counters, loopPc,
                   walkVars, ctlVars>>

\* The upstream exits on its own, or the process's TTL stops it.
ProcessExits(m) ==
    /\ MayExit /\ ps[m] = "ready"
    /\ ps' = [ps EXCEPT ![m] = "stopped"]
    /\ UNCHANGED <<clientVars, swapTable, queueVars, counters, loopPc,
                   walkVars, ctlVars, swap>>

\* A restoration or another application loads a provider model.
ProviderLoads(m) ==
    /\ MayExit /\ m \in Leased /\ ps[m] = "stopped"
    /\ ps' = [ps EXCEPT ![m] = "ready"]
    /\ UNCHANGED <<clientVars, swapTable, queueVars, counters, loopPc,
                   walkVars, ctlVars, swap>>

\* procCtx is cancelled: the process tears down and its run loop ends.
ProcessShutdown(m) ==
    /\ loopPc = "exited" /\ ps[m] # "shutdown" /\ m \notin Leased
    /\ ps' = [ps EXCEPT ![m] = "shutdown"]
    /\ swap' = StartOver(swap, m, TRUE)
    /\ UNCHANGED <<clientVars, swapTable, queueVars, counters, loopPc,
                   walkVars, ctlVars>>

\* A queued request has waited maxResidentWait.
WaitElapses(r) ==
    /\ r \in ToSet(queued) \ waited /\ loopPc = "select"
    /\ PoolOf[want[r]] \in WaitBounded
    /\ waited' = waited \union {r}
    /\ UNCHANGED <<clientVars, swapTable, queued, counters, loopPc, walkVars,
                   ctlVars, swap, ps>>

-----------------------------------------------------------------------------
LoopStep ==
    \/ \E r \in Requests :
         OnRequest(r) \/ OnCancel(r) \/ OnServeDone(r) \/ AnswerWaiter(r)
         \/ DrainStep(r) \/ UnloadDrops(r)
    \/ \E s \in SwapIds : OnSwapDone(s)
    \/ \E m \in Models : UnloadStops(m) \/ ShutdownStops(m)
    \/ WaitersAnswered \/ DrainEnds \/ UnloadEnds
    \/ OnShutdown \/ ShutdownEnds

ClientStep(r) ==
    \/ \E m \in Ids : Arrive(r, m)
    \/ Disconnect(r) \/ ServeReturns(r) \/ LeaveOnShutdown(r)

SwapStep(s) ==
    \/ \E v \in Models : SwapStops(s, v)
    \/ SwapStopped(s) \/ SwapEnsures(s) \/ SwapGivesUp(s)

ProcessStep(m) ==
    \/ \E ok \in BOOLEAN : StartEnds(m, ok)
    \/ ProcessExits(m) \/ ProviderLoads(m) \/ ProcessShutdown(m)

\* Nothing is left to do: every request was answered.
Quiescent ==
    /\ \A r \in Requests : cpc[r] = "done"
    /\ \A s \in SwapIds : swap[s].pc = "free"
    /\ loopPc \in {"select", "exited"}
    /\ UNCHANGED vars

Next ==
    \/ LoopStep
    \/ \E T \in SUBSET Models \ {{}} : OnUnload(T)
    \/ CallShutdown
    \/ \E r \in Requests : ClientStep(r) \/ WaitElapses(r)
    \/ \E s \in SwapIds : SwapStep(s)
    \/ \E m \in Models : ProcessStep(m)
    \/ Quiescent

Spec == Init /\ [][Next]_vars

\* Goroutines are scheduled; a start is bounded by the health-check timeout;
\* an upstream handler returns; a cancelled context is noticed.
Fairness ==
    /\ WF_vars(LoopStep)
    /\ \A r \in Requests : WF_vars(ServeReturns(r)) /\ WF_vars(LeaveOnShutdown(r))
    /\ \A s \in SwapIds : WF_vars(SwapStep(s))
    /\ \A m \in Models : WF_vars(\E ok \in BOOLEAN : StartEnds(m, ok))
                         /\ WF_vars(ProcessShutdown(m))

FairSpec == Spec /\ Fairness

-----------------------------------------------------------------------------
(* Properties.                                                              *)

\* Type invariant of the scheduler, the loop, the clients and the processes.
TypeOK ==
    /\ cpc \in [Requests -> ClientPcs] /\ want \in [Requests -> Ids]
    /\ active \subseteq Models
    /\ evict \in [Models -> SUBSET Models]
    /\ waiters \in [Models -> SUBSET Requests]
    /\ queued \in Seq(Requests) /\ waited \subseteq Requests
    /\ reserved \in [Models -> Int] /\ inFlight \in [Models -> Int]
    /\ residentBursts \in [Pools -> Nat]
    /\ loopPc \in LoopPcs
    /\ fan \subseteq Requests /\ fanErr \in BOOLEAN
    /\ pending \in Seq(Requests) /\ remaining \in Seq(Requests)
    /\ targets \subseteq Models /\ toStop \subseteq Models
    /\ unloads \in Nat /\ shuttingDown \in BOOLEAN /\ shut \in BOOLEAN
    /\ swap \in [SwapIds -> Swaps]
    /\ ps \in [Models -> ProcStates]

\* The requests in the queue, wherever the current handler keeps them.
InQueue == IF loopPc = "drain" THEN ToSet(pending) \union ToSet(remaining)
                               ELSE ToSet(queued)

AsWaiter(r) == r \in fan \/ \E m \in Models : r \in waiters[m]
Served(r) == cpc[r] \in {"serving", "finishing"}

\* A reservation is held by exactly the requests the scheduler still owes
\* something to, so release never panics (fifo.go release) and an admission
\* slot is never lost.  Not stated once the router shuts down.
ReservationsExact ==
    ~shut => \A m \in Models :
        /\ reserved[m] = Cardinality({r \in Requests : want[r] = m /\
                            (r \in InQueue \/ AsWaiter(r) \/ Served(r))})
        /\ reserved[m] <= Limit[m]

\* inFlight counts exactly the granted requests whose handler has not been
\* seen to return: a grant that failed leaves no trace (GrantServe's comment).
InFlightExact ==
    ~shut => \A m \in Models :
        inFlight[m] = Cardinality({r \in Requests : want[r] = m /\ Served(r)})

\* An admitted request is in one place only and nobody else is: a client that
\* waits is queued once, or waits on one swap; one that left, is served or
\* has its answer is nowhere, except that a cancellation may be on its way.
HeldOnce ==
    ~shut => \A r \in Requests :
        /\ cpc[r] = "waiting" => r \in InQueue \/ AsWaiter(r)
        /\ cpc[r] \in {"idle", "arriving", "serving", "finishing", "done"} =>
             r \notin InQueue /\ ~AsWaiter(r)
        /\ Cardinality({i \in DOMAIN queued : queued[i] = r}) <= 1
        /\ r \in InQueue => ~AsWaiter(r)
        /\ \A m, n \in Models :
             r \in waiters[m] => r \notin fan /\ (r \in waiters[n] => m = n)
        /\ \A m \in Models : r \in waiters[m] => want[r] = m /\ m \in active

\* Active swaps may run in parallel only when they touch different models
\* (OnRequest step 6, collidesWith).
SwapsDisjoint ==
    \A a, b \in active :
        a # b => ({a} \union evict[a]) \intersect ({b} \union evict[b]) = {}

\* Each tracked swap has its own goroutine, and each goroutine is tracked.
OneGoroutinePerSwap ==
    ~shut => \A m \in Models :
        m \in active <=> \E s \in SwapIds : swap[s].pc # "free"
                             /\ swap[s].model = m /\ ~swap[s].orphan

\* A swap never stops a process that is handling requests
\* (conflictsWithInFlight): only an Unload or a Shutdown does.
NoBusyEviction ==
    [][\A s \in SwapIds : \A v \in Models :
         SwapStops(s, v) /\ ~shut =>
            \A r \in Requests : want[r] = v => ~Served(r)]_vars

\* A queue never waits for nothing: whenever the loop is back at its select,
\* a swap result or the end of a request in flight is still to come, and it
\* will walk the queue again.
QueueIsWatched ==
    loopPc = "select" /\ queued # <<>> /\ ~shut =>
        active # {} \/ \E m \in Models : inFlight[m] > 0

\* First come, first served per model: no step puts a request in front of one
\* for its model that was in the queue before it, whatever priority or fairness
\* does around them (enqueue, fairOrder, drainQueue).
PerModelOrder ==
    [][\A k, l \in DOMAIN queued' :
         (/\ k < l /\ want[queued'[k]] = want[queued'[l]]
          /\ \E j \in DOMAIN queued : queued[j] = queued'[l]) =>
            \E i, j \in DOMAIN queued :
                i < j /\ queued[i] = queued'[k] /\ queued[j] = queued'[l]]_vars

\* Siblings that evict each other are never both loaded (group swap = true).
Excludes(a, b) == /\ b \in EvictionFor(a, {b}, {}) /\ a \in EvictionFor(b, {a}, {})
SiblingsExclusive ==
    \A a, b \in Models :
        Excludes(a, b) => ps[a] \in {"stopped", "shutdown"}
                          \/ ps[b] \in {"stopped", "shutdown"}

\* Every request that the loop has taken is answered: nobody is lost in the
\* queue, on a swap or between two handlers.
EveryRequestAnswered ==
    \A r \in Requests :
        cpc[r] \in {"waiting", "cancelling"} ~> cpc[r] = "done"

\* A swap whose active entry Unload removed finds no entry when its result
\* arrives and is dropped (comment of OnUnload, fifo.go).
StaleResultDropped ==
    [][\A s \in SwapIds :
         OnSwapDone(s) /\ swap[s].orphan => UNCHANGED <<active, waiters>>]_vars

\* After Unload returns, the processes it named are stopped (comment of
\* OnUnload, fifo.go).
UnloadedIsStopped ==
    [][UnloadEnds => \A m \in targets : ps[m] \in {"stopped", "shutdown"}]_vars

\* When handleShutdown cancels procCtx every process is stopped, so the
\* cancellation kills nothing (comment of handleShutdown, base.go).
StoppedBeforeCancel ==
    [][ShutdownEnds => \A m \in Models : ps[m] = "stopped"]_vars

\* A shutdown completes: every process run loop ends, every swap goroutine
\* returns and no client is left waiting.
ShutdownCompletes ==
    shuttingDown ~> /\ \A m \in Models \ Leased : ps[m] = "shutdown"
                    /\ \A s \in SwapIds : swap[s].pc = "free"
                    /\ \A r \in Requests : cpc[r] \in {"idle", "done"}

\* At most maxResidentBurst resident admissions pass cold work of a
\* resident-first pool (docs/lemonade.md, bounded fairness).
BurstBounded ==
    \A p \in ResidentFirst : MaxBurst[p] > 0 => residentBursts[p] <= MaxBurst[p]

\* When a cold request has waited maxResidentWait, a walk of the queue looks
\* at a request that has waited that long before the rest of its pool.
OldestColdPromoted ==
    [][loopPc # "drain" /\ loopPc' = "drain" =>
         \A p \in ResidentFirst :
            LET mine == {i \in DOMAIN pending' : PoolOf[want'[pending'[i]]] = p}
            IN  ColdQueued(p) \intersect waited # {} =>
                  \E i \in mine : /\ pending'[i] \in waited
                                  /\ \A j \in mine : i <= j]_vars

=============================================================================
