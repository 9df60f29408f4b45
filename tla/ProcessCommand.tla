--------------------------- MODULE ProcessCommand ---------------------------
(***************************************************************************)
(* The life of one upstream server (internal/process/process_command.go):  *)
(* the run loop that owns its state, the doStart goroutine, the callers of *)
(* Run, EnsureReady, WaitReady and Stop, the ServeHTTP calls, the TTL      *)
(* goroutines, and the operating system processes they start and kill.     *)
(*                                                                         *)
(* The request channels are unbuffered: a call is received only when the   *)
(* loop is at a select that listens to its channel.  Each call is made     *)
(* once; the instances of the upstream are numbered.                       *)
(***************************************************************************)
EXTENDS Integers, FiniteSets

CONSTANTS
    Callers,        \* calls of Run, EnsureReady, WaitReady and Stop
    Kind,           \* caller -> which of them it calls
    Serves,         \* calls of ServeHTTP
    TTLs,           \* slots for TTL goroutines (bound: goroutines alive)
    MaxStarts,      \* bound: instances of the upstream ever started
    None,           \* no caller
    TTL,            \* whether config.UnloadAfter > 0
    MayCrash,       \* whether the upstream may exit on its own
    MayCancel,      \* whether callers may give up
    MayShutdown     \* whether parentCtx may be cancelled

ASSUME CallerAssumption ==
    /\ Kind \in [Callers -> {"run", "ensure", "wait", "stop"}]
    /\ None \notin Callers \union TTLs
    /\ Callers \intersect TTLs = {}
ASSUME BoundAssumption ==
    /\ MaxStarts \in Nat
    /\ {TTL, MayCrash, MayCancel, MayShutdown} \subseteq BOOLEAN

VARIABLES
    state,          \* ProcessState
    loop,           \* where run() is
    why,            \* what a kill or an abort is part of
    cmd,            \* the instance the loop owns, 0 for nil
    handler,        \* whether p.handler is set
    readyWaiters,   \* callers of WaitReady that are parked
    runResp,        \* the caller of Run that is parked
    starter,        \* the start request being served
    stopper,        \* the stop request being served
    ds,             \* the doStart goroutine: [pc, cmd]
    alive,          \* instances that run
    started,        \* instances started so far
    parent,         \* parentCtx is cancelled
    cl, res,        \* the callers: where each is, and its result
    serve,          \* the ServeHTTP calls
    ttl,            \* the TTL goroutines
    idle,           \* time since lastUse exceeds the TTL
    quiet           \* ghost: so does the time since the instance got ready

loopVars == <<state, loop, why, cmd, handler, readyWaiters, runResp, starter,
              stopper>>
osVars == <<alive, started>>
callVars == <<cl, res>>
useVars == <<serve, idle, quiet>>
vars == <<loopVars, ds, osVars, parent, callVars, useVars, ttl>>

Results == {"none", "ok", "refused", "failed", "aborted", "exited", "stopped",
            "shutdown", "gaveUp"}
Inflight == Cardinality({q \in Serves : serve[q] \in {"serving", "stored"}})

Init ==
    /\ state = "stopped" /\ loop = "select" /\ why = "none"
    /\ cmd = 0 /\ handler = FALSE
    /\ readyWaiters = {} /\ runResp = None /\ starter = None /\ stopper = None
    /\ ds = [pc |-> "none", cmd |-> 0]
    /\ alive = {} /\ started = 0
    /\ parent = FALSE
    /\ cl = [c \in Callers |-> "idle"] /\ res = [c \in Callers |-> "none"]
    /\ serve = [q \in Serves |-> "idle"]
    /\ ttl = [g \in TTLs |-> "none"]
    \* lastUse is zero: the epoch
    /\ idle = TRUE /\ quiet = FALSE

-----------------------------------------------------------------------------
(* Answers.  A response channel has room for one answer, so the loop never  *)
(* blocks on it, whether or not the caller still listens.                   *)

\* Everyone in D who is still there gets result r.
AnswerAll(D, r) ==
    /\ cl' = [c \in Callers |-> IF c \in D /\ cl[c] = "parked" THEN "done" ELSE cl[c]]
    /\ res' = [c \in Callers |-> IF c \in D /\ cl[c] = "parked" THEN r[c] ELSE res[c]]

\* The TTL goroutine g has its Stop answered, and returns.
TTLAnswered(s) == ttl' = IF s \in TTLs THEN [ttl EXCEPT ![s] = "none"] ELSE ttl

\* notifyWaiters, respondRun and the answer to the request being served.
Settle(waitResult, runResult, starterResult) ==
    LET r == [c \in Callers |->
                IF c \in readyWaiters THEN waitResult
                ELSE IF c = runResp THEN runResult
                ELSE IF c = starter THEN starterResult ELSE "ok"]
    IN  /\ AnswerAll(readyWaiters \union {runResp, starter, stopper}, r)
        /\ TTLAnswered(stopper)
        /\ readyWaiters' = {} /\ runResp' = None
        /\ starter' = None /\ stopper' = None /\ why' = "none"

Dropped == cmd' = 0 /\ handler' = FALSE

-----------------------------------------------------------------------------
(* run(), at its select.                                                    *)

\* Seeded bug: requests are received while an instance is being killed.
AtSelectOrKill == loop \in {"select", "kill"}

AtSelect == loop = "select"

\* An immediate answer to c.
Reply(c, r) ==
    /\ cl' = [cl EXCEPT ![c] = "done"] /\ res' = [res EXCEPT ![c] = r]
    /\ UNCHANGED <<loopVars, ds, ttl>>

\* WaitReady: answered when ready, else parked.
ReceiveWait(c) ==
    /\ AtSelect /\ cl[c] = "sending" /\ Kind[c] = "wait"
    /\ IF state = "ready" THEN Reply(c, "ok")
       ELSE /\ cl' = [cl EXCEPT ![c] = "parked"]
            /\ readyWaiters' = readyWaiters \union {c}
            /\ UNCHANGED <<state, loop, why, cmd, handler, runResp, starter,
                           stopper, ds, res, ttl>>
    /\ UNCHANGED <<osVars, parent, useVars>>

\* Run or EnsureReady: start the upstream, unless the state settles it.
ReceiveStart(c) ==
    /\ AtSelect /\ cl[c] = "sending" /\ Kind[c] \in {"run", "ensure"}
    /\ IF Kind[c] = "ensure" /\ state = "ready" THEN Reply(c, "ok")
       ELSE IF state # "stopped" THEN Reply(c, "refused")
       ELSE /\ cl' = [cl EXCEPT ![c] = "parked"]
            /\ state' = "starting" /\ loop' = "starting" /\ starter' = c
            /\ ds' = [pc |-> "launch", cmd |-> 0]
            /\ UNCHANGED <<why, cmd, handler, readyWaiters, runResp, stopper, res, ttl>>
    /\ UNCHANGED <<osVars, parent, useVars>>

\* Who sends on stopCh: a caller of Stop, or a TTL goroutine.
Stopping(s) == \/ s \in Callers /\ Kind[s] = "stop" /\ cl[s] = "sending"
               \/ s \in TTLs /\ ttl[s] = "stop"

Park(s) ==
    /\ stopper' = s
    /\ cl' = IF s \in Callers THEN [cl EXCEPT ![s] = "parked"] ELSE cl
    /\ ttl' = IF s \in TTLs THEN [ttl EXCEPT ![s] = "parked"] ELSE ttl
    /\ UNCHANGED res

\* Stop of a running upstream: kill it.
ReceiveStop(s) ==
    /\ AtSelect /\ Stopping(s) /\ cmd # 0
    /\ Park(s)
    /\ state' = "stopping" /\ loop' = "kill" /\ why' = "stop"
    /\ UNCHANGED <<cmd, handler, readyWaiters, runResp, starter, ds,
                   osVars, parent, useVars>>

\* A Stop with nothing to stop; the waiters stay parked.
ReceiveIdleStop(s) ==
    /\ AtSelect /\ Stopping(s) /\ cmd = 0
    /\ state' = "stopped"
    /\ cl' = IF s \in Callers THEN [cl EXCEPT ![s] = "done"] ELSE cl
    /\ res' = IF s \in Callers THEN [res EXCEPT ![s] = "ok"] ELSE res
    /\ TTLAnswered(s)
    /\ UNCHANGED <<loop, why, cmd, handler, readyWaiters, runResp, starter,
                   stopper, ds, osVars, parent, useVars>>

\* cmdDone: the upstream exited on its own.
UpstreamGone ==
    /\ AtSelect /\ cmd # 0 /\ cmd \notin alive
    /\ Dropped /\ state' = "stopped"
    /\ Settle("exited", "exited", "exited")
    /\ UNCHANGED <<loop, ds, osVars, parent, useVars>>

\* Seeded bug: the upstream is not killed.
ParentDoneKillsNothing ==
    /\ AtSelect /\ parent
    /\ state' = "shutdown" /\ loop' = "exited"
    /\ Settle("shutdown", "shutdown", "shutdown")
    /\ UNCHANGED <<cmd, handler, ds, osVars, parent, useVars>>

\* parentCtx.Done.
ParentDone ==
    /\ AtSelect /\ parent
    /\ state' = "shutdown"
    /\ IF cmd # 0
       THEN /\ handler' = FALSE /\ loop' = "kill" /\ why' = "shutdown"
            /\ UNCHANGED <<cmd, readyWaiters, runResp, starter, stopper, callVars, ttl>>
       ELSE /\ loop' = "exited" /\ Settle("shutdown", "shutdown", "shutdown")
            /\ UNCHANGED <<cmd, handler>>
    /\ UNCHANGED <<ds, osVars, parent, useVars>>

\* Seeded bug: the exit of the instance is not waited for.
KilledEarly ==
    /\ loop = "kill" /\ why \in {"stop", "shutdown"}
    /\ Dropped
    /\ state' = IF why = "stop" THEN "stopped" ELSE state
    /\ loop' = IF why = "stop" THEN "select" ELSE "exited"
    /\ IF why = "stop" THEN Settle("stopped", "ok", "ok")
                       ELSE Settle("shutdown", "shutdown", "shutdown")
    /\ UNCHANGED <<ds, osVars, parent, useVars>>

\* killProcess returned: the instance has exited.
Killed ==
    /\ loop = "kill" /\ why \in {"stop", "shutdown"} /\ cmd \notin alive
    /\ Dropped
    /\ state' = IF why = "stop" THEN "stopped" ELSE state
    /\ loop' = IF why = "stop" THEN "select" ELSE "exited"
    /\ IF why = "stop" THEN Settle("stopped", "ok", "ok")
                       ELSE Settle("shutdown", "shutdown", "shutdown")
    /\ UNCHANGED <<ds, osVars, parent, useVars>>

-----------------------------------------------------------------------------
(* run(), waiting for doStart.                                              *)

Finished == ds.pc \in {"ok", "failed"}
NoStart == ds' = [pc |-> "none", cmd |-> 0]

\* The upstream is ready: take it over, start a TTL goroutine.  EnsureReady
\* is answered, Run stays parked.
StartSucceeds ==
    /\ loop = "starting" /\ ds.pc = "ok"
    /\ cmd' = ds.cmd /\ handler' = TRUE /\ state' = "ready" /\ loop' = "select"
    /\ LET block == Kind[starter] = "run"
       IN  /\ AnswerAll(readyWaiters \union (IF block THEN {} ELSE {starter}),
                        [c \in Callers |-> "ok"])
           /\ runResp' = IF block THEN starter ELSE runResp
    /\ readyWaiters' = {} /\ starter' = None
    /\ IF TTL THEN \E g \in TTLs : ttl[g] = "none" /\ ttl' = [ttl EXCEPT ![g] = "tick"]
              ELSE UNCHANGED ttl
    /\ quiet' = FALSE
    /\ NoStart
    /\ UNCHANGED <<why, stopper, osVars, parent, serve, idle>>

\* Seeded bug: callers of WaitReady are not notified.
StartFailsQuietly ==
    /\ loop = "starting" /\ ds.pc = "failed"
    /\ state' = "stopped" /\ loop' = "select" /\ starter' = None
    /\ AnswerAll({starter}, [c \in Callers |-> "failed"])
    /\ NoStart
    /\ UNCHANGED <<readyWaiters, runResp, stopper, why, ttl, cmd, handler,
                   osVars, parent, useVars>>

StartFails ==
    /\ loop = "starting" /\ ds.pc = "failed"
    /\ state' = "stopped" /\ loop' = "select"
    /\ Settle("failed", "failed", "failed")
    /\ NoStart
    /\ UNCHANGED <<cmd, handler, osVars, parent, useVars>>

\* A Stop mid-start: cancel doStart, which ends in any way, and wait for it.
StopMidStart(s) ==
    /\ loop = "starting" /\ Stopping(s)
    /\ Park(s)
    /\ loop' = "abort" /\ why' = "stop"
    /\ UNCHANGED <<state, cmd, handler, readyWaiters, runResp, starter, ds,
                   osVars, parent, useVars>>

ParentMidStart ==
    /\ loop = "starting" /\ parent
    /\ state' = "shutdown"
    /\ loop' = "abort" /\ why' = "shutdown"
    /\ UNCHANGED <<cmd, handler, readyWaiters, runResp, starter, stopper, ds,
                   osVars, parent, callVars, useVars, ttl>>

\* doStart returned; an upstream it has got ready meanwhile is killed.
Aborted ==
    /\ loop = "abort" /\ Finished /\ ds.cmd \notin alive
    /\ state' = IF why = "stop" THEN "stopped" ELSE state
    /\ loop' = IF why = "stop" THEN "select" ELSE "exited"
    /\ IF why = "stop" THEN Settle("aborted", "aborted", "aborted")
                       ELSE Settle("shutdown", "shutdown", "shutdown")
    /\ NoStart
    /\ UNCHANGED <<cmd, handler, osVars, parent, useVars>>

-----------------------------------------------------------------------------
(* doStart.                                                                 *)

StartVarsOnly == UNCHANGED <<loopVars, parent, callVars, useVars, ttl>>

\* cmd.Start, which may fail.
Launch ==
    /\ ds.pc = "launch"
    /\ \/ /\ started < MaxStarts /\ started' = started + 1
          /\ alive' = alive \union {started'}
          /\ ds' = [pc |-> "check", cmd |-> started']
       \/ ds' = [ds EXCEPT !.pc = "failed"] /\ UNCHANGED osVars
    /\ StartVarsOnly

\* Health checks: passed; the command exited; timed out or cancelled.
Checks ==
    /\ ds.pc = "check"
    /\ \/ ds' = [ds EXCEPT !.pc = "ok"]
       \/ ds.cmd \notin alive /\ ds' = [pc |-> "failed", cmd |-> 0]
       \/ ds' = [ds EXCEPT !.pc = "kill"]
    /\ UNCHANGED osVars /\ StartVarsOnly

\* abort: killProcess has returned.
StartKilled ==
    /\ ds.pc = "kill" /\ ds.cmd \notin alive
    /\ ds' = [pc |-> "failed", cmd |-> 0]
    /\ UNCHANGED osVars /\ StartVarsOnly

\* killProcess is at work on instance i.
BeingKilled(i) ==
    \/ loop = "kill" /\ cmd = i
    \/ ds.pc = "kill" /\ ds.cmd = i
    \/ loop = "abort" /\ ds.pc = "ok" /\ ds.cmd = i

\* An instance exits: signalled, killed, or by itself.
Dies(i) ==
    /\ i \in alive /\ alive' = alive \ {i}
    /\ BeingKilled(i) \/ MayCrash
    /\ UNCHANGED <<loopVars, ds, started, parent, callVars, useVars, ttl>>

-----------------------------------------------------------------------------
(* Callers.                                                                 *)

CallersOnly == UNCHANGED <<loopVars, ds, osVars, parent, useVars, ttl>>

Call(c) ==
    /\ cl[c] = "idle" /\ cl' = [cl EXCEPT ![c] = "sending"]
    /\ UNCHANGED res /\ CallersOnly

\* Every call gives up on parentCtx while it sends; Run and EnsureReady also
\* while they wait for the answer, WaitReady and Stop do not.
LeaveOnShutdown(c) ==
    /\ parent
    /\ \/ cl[c] = "sending"
       \/ cl[c] = "parked" /\ Kind[c] \in {"run", "ensure"}
    /\ cl' = [cl EXCEPT ![c] = "done"] /\ res' = [res EXCEPT ![c] = "shutdown"]
    /\ CallersOnly

\* The context of EnsureReady and WaitReady.
GiveUp(c) ==
    /\ MayCancel /\ Kind[c] \in {"ensure", "wait"}
    /\ cl[c] \in {"sending", "parked"}
    /\ cl' = [cl EXCEPT ![c] = "done"] /\ res' = [res EXCEPT ![c] = "gaveUp"]
    /\ CallersOnly

Shutdown ==
    /\ MayShutdown /\ ~parent /\ parent' = TRUE
    /\ UNCHANGED <<loopVars, ds, osVars, callVars, useVars, ttl>>

-----------------------------------------------------------------------------
(* ServeHTTP and the TTL goroutines.                                        *)

UseOnly == UNCHANGED <<loopVars, ds, osVars, parent, callVars, ttl>>

\* Load the handler; without one the answer is 503.
ServeLoads(q) ==
    /\ serve[q] = "idle"
    /\ serve' = [serve EXCEPT ![q] = IF handler THEN "loaded" ELSE "done"]
    /\ UNCHANGED <<idle, quiet>> /\ UseOnly

\* inflight.Add(1), and the proxied request.
ServeBegins(q) ==
    /\ serve[q] = "loaded"
    /\ serve' = [serve EXCEPT ![q] = "serving"] /\ quiet' = FALSE
    /\ UNCHANGED idle /\ UseOnly

\* lastUse.Store, then inflight.Add(-1).
ServeStores(q) ==
    /\ serve[q] = "serving"
    /\ serve' = [serve EXCEPT ![q] = "stored"]
    /\ idle' = FALSE /\ quiet' = FALSE /\ UseOnly

ServeEnds(q) ==
    /\ serve[q] = "stored"
    /\ serve' = [serve EXCEPT ![q] = "done"]
    /\ UNCHANGED <<idle, quiet>> /\ UseOnly

\* The TTL elapses since lastUse, and since the instance got ready.
TimePasses ==
    /\ \/ ~idle /\ idle' = TRUE /\ UNCHANGED quiet
       \/ idle /\ ~quiet /\ Inflight = 0 /\ quiet' = TRUE /\ UNCHANGED idle
    /\ UNCHANGED serve /\ UseOnly

TTLOnly == UNCHANGED <<loopVars, ds, osVars, parent, callVars, useVars>>

\* A tick: return unless ready ...
TTLTicks(g) ==
    /\ ttl[g] = "tick"
    /\ ttl' = [ttl EXCEPT ![g] = IF state = "ready" THEN "seen" ELSE "none"]
    /\ TTLOnly

\* ... then look again later while requests run ...
TTLCounts(g) ==
    /\ ttl[g] = "seen"
    /\ ttl' = [ttl EXCEPT ![g] = IF Inflight = 0 THEN "read" ELSE "tick"]
    /\ TTLOnly

\* ... then lastUse: call Stop, or wait for the next tick.
TTLReads(g) ==
    /\ ttl[g] = "read"
    /\ ttl' = [ttl EXCEPT ![g] = IF idle THEN "stop" ELSE "tick"]
    /\ TTLOnly

TTLLeaves(g) ==
    /\ parent /\ ttl[g] = "stop"
    /\ ttl' = [ttl EXCEPT ![g] = "none"]
    /\ TTLOnly

-----------------------------------------------------------------------------
LoopStep ==
    \/ \E c \in Callers : ReceiveWait(c) \/ ReceiveStart(c)
    \/ \E s \in Callers \union TTLs :
         ReceiveStop(s) \/ ReceiveIdleStop(s) \/ StopMidStart(s)
    \/ UpstreamGone \/ ParentDone \/ Killed
    \/ StartSucceeds \/ StartFails \/ ParentMidStart \/ Aborted

DoStart == Launch \/ Checks \/ StartKilled

CallerStep(c) == Call(c) \/ LeaveOnShutdown(c) \/ GiveUp(c)
ServeStep(q) == ServeLoads(q) \/ ServeBegins(q) \/ ServeStores(q) \/ ServeEnds(q)
TTLStep(g) == TTLTicks(g) \/ TTLCounts(g) \/ TTLReads(g) \/ TTLLeaves(g)

\* Every call has returned, or waits for a start or an end that never comes.
Quiescent ==
    /\ \A c \in Callers : cl[c] \in {"parked", "done"}
    /\ loop \in {"select", "exited"}
    /\ UNCHANGED vars

Next ==
    \/ LoopStep \/ DoStart \/ Shutdown \/ TimePasses
    \/ \E i \in 1..MaxStarts : Dies(i)
    \/ \E c \in Callers : CallerStep(c)
    \/ \E q \in Serves : ServeStep(q)
    \/ \E g \in TTLs : TTLStep(g)
    \/ Quiescent

Spec == Init /\ [][Next]_vars

\* Goroutines are scheduled; the health check has a deadline; killProcess
\* ends in SIGKILL.
Fairness ==
    /\ WF_vars(LoopStep) /\ WF_vars(DoStart)
    /\ \A i \in 1..MaxStarts : WF_vars(BeingKilled(i) /\ Dies(i))
    /\ \A c \in Callers : WF_vars(LeaveOnShutdown(c))

FairSpec == Spec /\ Fairness

-----------------------------------------------------------------------------
(* What the routers see of it, as module ManagedProcess describes it.       *)

StartSeen == CASE ds.pc = "none" -> "none"
               [] ds.pc = "launch" -> "begun"
               [] ds.pc = "failed" -> "failed"
               [] OTHER -> "running"

Managed == INSTANCE ManagedProcess WITH start <- StartSeen, Instances <- 1..MaxStarts

-----------------------------------------------------------------------------
(* Properties.                                                              *)

\* The loop keeps the promises of the interface Process, each in one step of
\* what its users see: EnsureReady is answered by the state, never refused for
\* it; no transition leaves a caller parked on a question it has settled; a
\* Stop is answered when nothing runs, a start is one upstream at most, and a
\* process that was shut down is never started again (process.go).
KeepsPromises == Managed!Spec

\* Type invariant of the loop, its goroutines and its callers.
TypeOK ==
    /\ state \in {"stopped", "starting", "ready", "stopping", "shutdown"}
    /\ loop \in {"select", "starting", "kill", "abort", "exited"}
    /\ why \in {"none", "stop", "shutdown"}
    /\ cmd \in 0..MaxStarts /\ handler \in BOOLEAN
    /\ readyWaiters \subseteq Callers
    /\ runResp \in Callers \union {None} /\ starter \in Callers \union {None}
    /\ stopper \in Callers \union TTLs \union {None}
    /\ ds \in [pc : {"none", "launch", "check", "kill", "ok", "failed"},
               cmd : 0..MaxStarts]
    /\ parent \in BOOLEAN
    /\ alive \subseteq 1..MaxStarts /\ started \in 0..MaxStarts
    /\ cl \in [Callers -> {"idle", "sending", "parked", "done"}]
    /\ res \in [Callers -> Results]
    /\ serve \in [Serves -> {"idle", "loaded", "serving", "stored", "done"}]
    /\ ttl \in [TTLs -> {"none", "tick", "seen", "read", "stop", "parked"}]
    /\ idle \in BOOLEAN /\ quiet \in BOOLEAN

\* Never two upstreams at a time: a start waits for the end of the instance
\* before it, however stops, starts, crashes and shutdown interleave.
OneUpstream == Cardinality(alive) <= 1

\* Back at its select without an upstream, or gone, the loop leaves none
\* running: nothing it started, or was starting, is orphaned (StopMidStart,
\* ParentMidStart and the success that races them).
NothingLeftRunning ==
    loop \in {"select", "exited"} /\ cmd = 0 => alive = {}

\* Stop blocks until the process has terminated (process.go, Process.Stop).
StopTerminates ==
    [][\A c \in Callers :
         Kind[c] = "stop" /\ res[c] # "ok" /\ res'[c] = "ok" => alive' = {}]_vars

\* A Run is parked exactly as long as there is an upstream it can outlive,
\* and each parked call is one the loop will answer.
ParkedIsKnown ==
    /\ \A c \in Callers : cl[c] = "parked" =>
         c \in readyWaiters \union {runResp, starter, stopper}
    /\ runResp # None => cmd # 0

\* EnsureReady is never turned down for the state the process is in: stopping
\* holds it back, all other states answer it (its comment in process.go).
EnsureNotRefused == \A c \in Callers : Kind[c] = "ensure" => res[c] # "refused"

\* Every transition that settles whether the process is ready wakes all who
\* wait for that (notifyWaiters, issue #946): a WaitReady parked while a start
\* is under way, or on a process that is being shut down, returns; EnsureReady
\* and Stop always return.
CallersAnswered ==
    \A c \in Callers :
        /\ cl[c] = "parked" /\ Kind[c] # "run" /\ loop = "starting"
             ~> cl[c] = "done"
        /\ cl[c] = "parked" /\ parent ~> cl[c] = "done"
        /\ cl[c] = "sending" /\ Kind[c] \in {"ensure", "stop"} ~> cl[c] = "done"

\* After the parent context is cancelled the loop ends and no upstream lives.
ShutdownEnds == parent ~> loop = "exited" /\ alive = {}

\* ServeHTTP answers 503 when the process is not ready (process.go).
ServesOnlyWhenReady ==
    [][\A q \in Serves :
         serve[q] = "idle" /\ serve'[q] = "loaded" => state = "ready"]_vars

\* The TTL unloads a model after a period of inactivity (vllm-wrapper's
\* README on ttl): it decides to only when that long nothing was asked of it.
UnloadsAfterInactivity ==
    [][\A g \in TTLs : ttl[g] = "read" /\ ttl'[g] = "stop" => quiet]_vars

\* ... and its Stop never interrupts a request.
TTLSparesServing ==
    [][\A g \in TTLs : ReceiveStop(g) => Inflight = 0]_vars

=============================================================================
