--------------------------- MODULE ManagedProcess ---------------------------
(***************************************************************************)
(* What a process promises those who use it, the routers: the interface    *)
(* Process (internal/process/process.go) as its one implementation that    *)
(* runs a command keeps it (process_command.go), without the loop, the     *)
(* channels and the goroutines that bring it about.                        *)
(*                                                                         *)
(* A process has one state that all can see.  A call is sent, is parked    *)
(* while the process cannot answer it yet, and is answered once.  Whatever *)
(* settles the question that parked calls ask answers all of them in that  *)
(* very step, by what has become of the process.                           *)
(***************************************************************************)
CONSTANTS
    Callers,        \* calls of Run, EnsureReady, WaitReady and Stop
    Kind,           \* caller -> which of them it calls
    Instances       \* upstream servers

VARIABLES
    state,          \* what State() returns
    parent,         \* the context the process lives in is cancelled
    start,          \* the start under way: none, begun, running, failed
    alive,          \* upstreams that run
    cl, res         \* the calls: where each is, and its result

callVars == <<cl, res>>
vars == <<state, parent, start, alive, callVars>>

Init ==
    /\ state = "stopped" /\ parent = FALSE /\ start = "none" /\ alive = {}
    /\ cl = [c \in Callers |-> "idle"] /\ res = [c \in Callers |-> "none"]

-----------------------------------------------------------------------------
(* Calls.                                                                   *)

Parked(kinds) == {c \in Callers : cl[c] = "parked" /\ Kind[c] \in kinds}

\* Every parked call of a kind that result has an entry for is answered.
Settle(result) ==
    /\ cl' = [c \in Callers |->
                IF c \in Parked(DOMAIN result) THEN "done" ELSE cl[c]]
    /\ res' = [c \in Callers |->
                IF c \in Parked(DOMAIN result) THEN result[Kind[c]] ELSE res[c]]

Park(c) == cl[c] = "sending" /\ cl' = [cl EXCEPT ![c] = "parked"] /\ res' = res

Return(c, r) == cl' = [cl EXCEPT ![c] = "done"] /\ res' = [res EXCEPT ![c] = r]

Call(c) ==
    /\ cl[c] = "idle" /\ cl' = [cl EXCEPT ![c] = "sending"]
    /\ UNCHANGED <<res, state, parent, start, alive>>

\* A call whose answer the state has settled already: readiness when ready,
\* a second Run, and a Stop of what is stopped, when nothing runs.
AnswerNow(c) ==
    /\ cl[c] = "sending"
    /\ \/ state = "ready" /\ Kind[c] \in {"ensure", "wait"} /\ Return(c, "ok")
       \/ state = "ready" /\ Kind[c] = "run" /\ Return(c, "refused")
       \/ state = "stopped" /\ Kind[c] = "stop" /\ alive = {} /\ Return(c, "ok")
    /\ UNCHANGED <<state, parent, start, alive>>

\* WaitReady only subscribes, it never starts anything.
Subscribe(c) ==
    /\ state = "stopped" /\ Kind[c] = "wait" /\ Park(c)
    /\ UNCHANGED <<state, parent, start, alive>>

\* Nobody waits against a context: Run and EnsureReady return when the
\* parent's is done, as every call does that was not received yet; EnsureReady
\* and WaitReady when their own is.
Leave(c) ==
    /\ \/ parent /\ cl[c] = "sending" /\ Return(c, "shutdown")
       \/ parent /\ c \in Parked({"run", "ensure"}) /\ Return(c, "shutdown")
       \/ /\ cl[c] \in {"sending", "parked"} /\ Kind[c] \in {"ensure", "wait"}
          /\ Return(c, "gaveUp")
    /\ UNCHANGED <<state, parent, start, alive>>

-----------------------------------------------------------------------------
(* A start.                                                                 *)

\* A process that is stopped is started for a Run or an EnsureReady.
StartBegins(c) ==
    /\ state = "stopped" /\ Kind[c] \in {"run", "ensure"} /\ Park(c)
    /\ state' = "starting" /\ start' = "begun"
    /\ UNCHANGED <<parent, alive>>

\* One upstream for a start, and only when no other runs.
UpstreamStarts(i) ==
    /\ start = "begun" /\ alive = {}
    /\ start' = "running" /\ alive' = {i}
    /\ UNCHANGED <<state, parent, callVars>>

\* A start that fails leaves no upstream behind.
StartFails ==
    /\ start \in {"begun", "running"} /\ alive = {}
    /\ start' = "failed"
    /\ UNCHANGED <<state, parent, alive, callVars>>

\* Ready: whoever waits for that is answered, a Run stays parked.  A Stop
\* that was received during the start prevails over its success.
BecomesReady ==
    /\ state = "starting" /\ start = "running" /\ Parked({"stop"}) = {}
    /\ state' = "ready" /\ start' = "none"
    /\ Settle([ensure |-> "ok", wait |-> "ok"])
    /\ UNCHANGED <<parent, alive>>

-----------------------------------------------------------------------------
(* An end.                                                                  *)

\* An upstream that exits by itself, or is killed.
UpstreamDies(i) ==
    /\ i \in alive /\ alive' = alive \ {i}
    /\ UNCHANGED <<state, parent, start, callVars>>

\* A Stop, or a TTL that elapses and has no caller, takes an upstream down.
StopBegins ==
    /\ state = "ready" /\ state' = "stopping"
    /\ \/ UNCHANGED callVars
       \/ \E c \in Callers : Kind[c] = "stop" /\ Park(c)
    /\ UNCHANGED <<parent, start, alive>>

\* During a start a Stop waits for the end of that.
StopMidStart(c) ==
    /\ state = "starting" /\ Kind[c] = "stop" /\ Park(c)
    /\ UNCHANGED <<state, parent, start, alive>>

\* The end that Run, EnsureReady and WaitReady are told of; a Stop has what
\* it asked for.
Verdict(v) == [run |-> v, ensure |-> v, wait |-> v, stop |-> "ok"]

\* Stopped, with nothing that runs: no call is left parked.  What they are
\* told is how it came about: an upstream that exited, a Stop, a start that
\* failed, or one that was aborted.
BecomesStopped ==
    /\ state' = "stopped" /\ start' = "none"
    /\ alive = {}
    /\ \/ state = "ready" /\ Settle(Verdict("exited"))
       \/ state = "stopping" /\ Settle([Verdict("stopped") EXCEPT !.run = "ok"])
       \/ /\ state = "starting" /\ start = "failed" /\ Parked({"stop"}) = {}
          /\ Settle(Verdict("failed"))
       \/ /\ state = "starting" /\ start \in {"running", "failed"}
          /\ Settle(Verdict("aborted"))
    /\ UNCHANGED <<parent, alive>>

\* The context is cancelled: a process that is shut down is not restarted,
\* but may have an upstream to take down ...
ShutdownBegins ==
    /\ parent /\ state \in {"starting", "ready"} /\ state' = "shutdown"
    /\ UNCHANGED <<parent, start, alive, callVars>>

\* ... and then leaves nothing running, and no call parked.
ShutdownEnds ==
    /\ parent /\ state \in {"stopped", "shutdown"} /\ start # "begun" /\ alive = {}
    /\ state' = "shutdown" /\ start' = "none"
    /\ Settle(Verdict("shutdown"))
    /\ UNCHANGED <<parent, alive>>

Cancel ==
    /\ parent' = TRUE
    /\ UNCHANGED <<state, start, alive, callVars>>

-----------------------------------------------------------------------------
Next ==
    \/ \E c \in Callers :
         \/ Call(c) \/ AnswerNow(c) \/ Subscribe(c) \/ Leave(c)
         \/ StartBegins(c) \/ StopMidStart(c)
    \/ \E i \in Instances : UpstreamStarts(i) \/ UpstreamDies(i)
    \/ StartFails \/ BecomesReady \/ StopBegins \/ BecomesStopped
    \/ ShutdownBegins \/ ShutdownEnds \/ Cancel

Spec == Init /\ [][Next]_vars

=============================================================================
