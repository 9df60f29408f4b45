------------------------ MODULE ProcessCommandProofs ------------------------
(***************************************************************************)
(* Theorems about ProcessCommand, for every set of calls of every kind and *)
(* any number of starts.                                                   *)
(***************************************************************************)
EXTENDS ProcessCommand, FiniteSetTheorems, TLAPS

\* Which parts of the process the loop owns at each place.
OwnedHere ==
    /\ loop \in {"select", "exited", "kill"} => ds.pc = "none"
    /\ loop \in {"starting", "abort"} => ds.pc # "none" /\ cmd = 0
    /\ loop = "kill" => cmd # 0
    /\ loop = "exited" => cmd = 0
    /\ loop = "select" => state = IF cmd = 0 THEN "stopped" ELSE "ready"
    /\ loop \in {"kill", "abort"} => why \in {"stop", "shutdown"}

\* doStart has an instance between cmd.Start and its verdict.
StartOwns == ds.cmd # 0 <=> ds.pc \in {"check", "kill", "ok"}

\* Whatever runs is the instance of the loop or the one of doStart.
Accounted == alive \subseteq {cmd, ds.cmd} \ {0}

\* Who is parked where: calls of WaitReady wait for readiness, calls of Run
\* and EnsureReady for a start.
KindsParked ==
    /\ \A c \in readyWaiters : Kind[c] = "wait"
    /\ loop = "starting" => starter # None
    /\ starter # None => Kind[starter] \in {"run", "ensure"}
    /\ runResp # None => Kind[runResp] = "run"

IInv ==
    /\ TypeOK
    /\ OwnedHere /\ StartOwns /\ Accounted
    /\ KindsParked
    /\ EnsureNotRefused

-----------------------------------------------------------------------------
(* Pieces of the handlers.                                                  *)

\* An answer to everyone in D gives each caller its result or leaves it.
LEMMA AnswerAllTyped ==
    ASSUME TypeOK, NEW D, NEW r \in [Callers -> Results], AnswerAll(D, r)
    PROVE  /\ cl' \in [Callers -> {"idle", "sending", "parked", "done"}]
           /\ res' \in [Callers -> Results]
           /\ \A c \in Callers :
                res'[c] = res[c] \/ (c \in D /\ res'[c] = r[c])
BY DEF TypeOK, AnswerAll

\* Settle answers whoever is parked and leaves nobody behind.
LEMMA SettleTyped ==
    ASSUME TypeOK, NEW w \in Results, NEW u \in Results, NEW t \in Results,
           Settle(w, u, t)
    PROVE  /\ cl' \in [Callers -> {"idle", "sending", "parked", "done"}]
           /\ res' \in [Callers -> Results]
           /\ ttl' \in [TTLs -> {"none", "tick", "seen", "read", "stop", "parked"}]
           /\ readyWaiters' = {} /\ runResp' = None /\ starter' = None
           /\ stopper' = None /\ why' = "none"
           /\ \A c \in Callers : res'[c] \in {res[c], w, u, t, "ok"}
<1> DEFINE r == [c \in Callers |->
                   IF c \in readyWaiters THEN w
                   ELSE IF c = runResp THEN u
                   ELSE IF c = starter THEN t ELSE "ok"]
           D == readyWaiters \union {runResp, starter, stopper}
<1>1. r \in [Callers -> Results] /\ \A c \in Callers : r[c] \in {w, u, t, "ok"}
  BY DEF Results
<1>2. AnswerAll(D, r)
  BY DEF Settle
<1> HIDE DEF r, D
<1>3. /\ cl' \in [Callers -> {"idle", "sending", "parked", "done"}]
      /\ res' \in [Callers -> Results]
      /\ \A c \in Callers : res'[c] = res[c] \/ (c \in D /\ res'[c] = r[c])
  BY <1>1, <1>2, AnswerAllTyped
<1>4. ttl' \in [TTLs -> {"none", "tick", "seen", "read", "stop", "parked"}]
  BY DEF Settle, TTLAnswered, TypeOK
<1> QED BY <1>1, <1>3, <1>4 DEF Settle

-----------------------------------------------------------------------------
(* The run loop, action by action.                                          *)

LEMMA ReceiveKeeps ==
    ASSUME IInv, NEW c \in Callers, ReceiveWait(c) \/ ReceiveStart(c)
    PROVE  IInv'
<1> USE CallerAssumption DEF IInv, osVars, useVars, loopVars, AtSelect
<1>1. CASE ReceiveWait(c)
  <2> USE <1>1 DEF ReceiveWait, Reply
  <2>1. TypeOK'
    BY DEF TypeOK, Results
  <2>2. OwnedHere' /\ StartOwns' /\ Accounted'
    BY DEF OwnedHere, StartOwns, Accounted
  <2>3. KindsParked'
    BY DEF KindsParked
  <2>4. EnsureNotRefused'
    BY DEF EnsureNotRefused, TypeOK
  <2> QED BY <2>1, <2>2, <2>3, <2>4
<1>2. CASE ReceiveStart(c)
  <2> USE <1>2 DEF ReceiveStart, Reply
  <2>1. TypeOK'
    <3>1. CASE state' = state
      BY <3>1 DEF TypeOK, Results
    <3>2. CASE state' # state
      <4>1. /\ cl' = [cl EXCEPT ![c] = "parked"] /\ state' = "starting"
            /\ loop' = "starting" /\ starter' = c
            /\ ds' = [pc |-> "launch", cmd |-> 0]
            /\ UNCHANGED <<why, cmd, handler, readyWaiters, runResp, stopper,
                           res, ttl, osVars, parent, useVars>>
        BY <3>2
      <4>2. cl' \in [Callers -> {"idle", "sending", "parked", "done"}]
        BY <4>1 DEF TypeOK
      <4> QED BY <4>1, <4>2, BoundAssumption DEF TypeOK
    <3> QED BY <3>1, <3>2
  <2>2. OwnedHere' /\ StartOwns' /\ Accounted'
    BY DEF OwnedHere, StartOwns, Accounted, TypeOK
  <2>3. KindsParked'
    BY DEF KindsParked
  <2>4. EnsureNotRefused'
    BY DEF EnsureNotRefused, TypeOK, OwnedHere
  <2> QED BY <2>1, <2>2, <2>3, <2>4
<1> QED BY <1>1, <1>2

LEMMA StopKeeps ==
    ASSUME IInv, NEW s \in Callers \union TTLs,
           ReceiveStop(s) \/ ReceiveIdleStop(s) \/ StopMidStart(s)
    PROVE  IInv'
<1> USE CallerAssumption DEF IInv, osVars, useVars, AtSelect
<1>1. TypeOK'
  <2>1. CASE ReceiveStop(s)
    BY <2>1 DEF ReceiveStop, Park, TypeOK, Results
  <2>2. CASE ReceiveIdleStop(s)
    BY <2>2 DEF ReceiveIdleStop, TTLAnswered, TypeOK, Results
  <2>3. CASE StopMidStart(s)
    BY <2>3 DEF StopMidStart, Park, TypeOK, Results
  <2> QED BY <2>1, <2>2, <2>3
<1>2. OwnedHere' /\ StartOwns' /\ Accounted'
  BY DEF ReceiveStop, ReceiveIdleStop, StopMidStart, OwnedHere, StartOwns, Accounted
<1>3. KindsParked'
  BY DEF ReceiveStop, ReceiveIdleStop, StopMidStart, KindsParked
<1>4. EnsureNotRefused'
  BY DEF ReceiveStop, ReceiveIdleStop, StopMidStart, Park, Stopping,
         EnsureNotRefused, TypeOK
<1> QED BY <1>1, <1>2, <1>3, <1>4

\* The five ends of a process or of a start that answer everyone parked.
LEMMA EndKeeps ==
    ASSUME IInv, UpstreamGone \/ Killed \/ StartFails \/ Aborted \/ ParentDone
    PROVE  IInv'
<1> USE DEF IInv, osVars, useVars, callVars, Dropped, AtSelect
<1>1. CASE ParentDone /\ cmd # 0
  <2> USE <1>1 DEF ParentDone
  <2>1. TypeOK'
    BY DEF TypeOK
  <2>2. OwnedHere' /\ StartOwns' /\ Accounted'
    BY DEF OwnedHere, StartOwns, Accounted
  <2>3. KindsParked' /\ EnsureNotRefused'
    BY DEF KindsParked, EnsureNotRefused
  <2> QED BY <2>1, <2>2, <2>3
<1>2. CASE ~ (ParentDone /\ cmd # 0)
  <2>1. PICK w, u, t \in Results \ {"refused"} : Settle(w, u, t)
    <3>1. {"exited", "stopped", "ok", "shutdown", "failed", "aborted"}
             \subseteq Results \ {"refused"}
      BY DEF Results
    <3> QED BY <1>2, <3>1 DEF UpstreamGone, Killed, StartFails, Aborted, ParentDone
  <2>2. /\ cl' \in [Callers -> {"idle", "sending", "parked", "done"}]
        /\ res' \in [Callers -> Results]
        /\ ttl' \in [TTLs -> {"none", "tick", "seen", "read", "stop", "parked"}]
        /\ readyWaiters' = {} /\ runResp' = None /\ starter' = None
        /\ stopper' = None /\ why' = "none"
        /\ \A c \in Callers : res'[c] \in {res[c], w, u, t, "ok"}
    BY <2>1, SettleTyped
  <2>3. /\ loop' \in {"select", "exited"} /\ cmd' = 0
        /\ ds' = [pc |-> "none", cmd |-> 0]
        /\ UNCHANGED <<alive, started, parent, serve, idle, quiet>>
    BY <1>2 DEF UpstreamGone, Killed, StartFails, Aborted, ParentDone, NoStart,
                OwnedHere, StartOwns, TypeOK
  <2>4. /\ state' = "stopped" \/ (loop' = "exited" /\ state' \in {state, "shutdown"})
        /\ handler' = FALSE \/ handler' = handler
    BY <1>2 DEF UpstreamGone, Killed, StartFails, Aborted, ParentDone, OwnedHere
  <2>5. alive = {}
    BY <1>2 DEF UpstreamGone, Killed, StartFails, Aborted, ParentDone, Finished,
                OwnedHere, StartOwns, Accounted
  <2>6. TypeOK'
    <3>1. /\ state' \in {"stopped", "starting", "ready", "stopping", "shutdown"}
          /\ handler' \in BOOLEAN
      BY <2>4 DEF TypeOK
    <3> QED BY <2>2, <2>3, <3>1, BoundAssumption DEF TypeOK
  <2>7. OwnedHere' /\ StartOwns' /\ Accounted'
    BY <2>2, <2>3, <2>4, <2>5 DEF OwnedHere, StartOwns, Accounted
  <2>8. KindsParked' /\ EnsureNotRefused'
    BY <2>2, <2>3 DEF KindsParked, EnsureNotRefused
  <2> QED BY <2>6, <2>7, <2>8
<1> QED BY <1>1, <1>2

LEMMA StartSucceedsKeeps ==
    ASSUME IInv, StartSucceeds
    PROVE  IInv'
<1> USE CallerAssumption DEF IInv, StartSucceeds
<1>1. PICK D : AnswerAll(D, [c \in Callers |-> "ok"])
  OBVIOUS
<1>2. [c \in Callers |-> "ok"] \in [Callers -> Results]
  BY DEF Results
<1>3. /\ cl' \in [Callers -> {"idle", "sending", "parked", "done"}]
      /\ res' \in [Callers -> Results]
      /\ \A c \in Callers : res'[c] = res[c] \/ res'[c] = "ok"
  BY <1>1, <1>2, AnswerAllTyped
<1>4. ttl' \in [TTLs -> {"none", "tick", "seen", "read", "stop", "parked"}]
  BY DEF TypeOK
<1>5. /\ cmd' = ds.cmd /\ cmd' \in 0..MaxStarts /\ cmd' # 0
      /\ loop' = "select" /\ state' = "ready" /\ ds' = [pc |-> "none", cmd |-> 0]
  BY DEF TypeOK, StartOwns, NoStart
<1>6. runResp' \in Callers \union {None} /\ starter' = None /\ readyWaiters' = {}
  BY DEF TypeOK, KindsParked
<1>7. TypeOK'
  <2>1. quiet' = FALSE /\ UNCHANGED <<why, stopper, osVars, parent, serve, idle>>
        /\ handler' = TRUE
    OBVIOUS
  <2>2. TypeOK /\ 0 \in 0..MaxStarts
    BY BoundAssumption
  <2>3. ds' \in [pc : {"none", "launch", "check", "kill", "ok", "failed"},
                 cmd : 0..MaxStarts]
    BY <1>5, <2>2
  <2> QED BY ONLY <1>3, <1>4, <1>5, <1>6, <2>1, <2>2, <2>3 DEF TypeOK, osVars
<1>8. OwnedHere' /\ StartOwns' /\ Accounted'
  BY <1>5 DEF OwnedHere, StartOwns, Accounted, osVars
<1>9. KindsParked'
  BY <1>5, <1>6 DEF KindsParked
<1>10. EnsureNotRefused'
  BY <1>3 DEF EnsureNotRefused
<1> QED BY <1>7, <1>8, <1>9, <1>10

LEMMA ParentMidStartKeeps ==
    ASSUME IInv, ParentMidStart
    PROVE  IInv'
<1> USE DEF IInv, ParentMidStart, osVars, callVars, useVars
<1>1. TypeOK'
  BY DEF TypeOK
<1>2. OwnedHere' /\ StartOwns' /\ Accounted'
  BY DEF OwnedHere, StartOwns, Accounted
<1>3. KindsParked' /\ EnsureNotRefused'
  BY DEF KindsParked, EnsureNotRefused
<1> QED BY <1>1, <1>2, <1>3

-----------------------------------------------------------------------------
(* The other goroutines and the upstream.                                   *)

LEMMA DoStartKeeps ==
    ASSUME IInv, DoStart
    PROVE  IInv'
<1> USE DEF IInv, StartVarsOnly, loopVars, callVars, useVars, osVars
<1>1. TypeOK'
  <2>1. CASE Launch
    <3>1. CASE started < MaxStarts /\ started' = started + 1
               /\ alive' = alive \union {started'}
               /\ ds' = [pc |-> "check", cmd |-> started']
      <4>1. started' \in 0..MaxStarts /\ started' \in 1..MaxStarts
        BY <3>1, BoundAssumption DEF TypeOK
      <4> QED BY <2>1, <3>1, <4>1 DEF Launch, TypeOK
    <3>2. CASE ds' = [ds EXCEPT !.pc = "failed"] /\ UNCHANGED osVars
      BY <2>1, <3>2 DEF Launch, TypeOK
    <3> QED BY <2>1, <3>1, <3>2 DEF Launch
  <2>2. CASE Checks
    <3>1. \/ ds' = [ds EXCEPT !.pc = "ok"]
          \/ ds' = [pc |-> "failed", cmd |-> 0]
          \/ ds' = [ds EXCEPT !.pc = "kill"]
      BY <2>2 DEF Checks
    <3>2. ds' \in [pc : {"none", "launch", "check", "kill", "ok", "failed"},
                   cmd : 0..MaxStarts]
      BY <3>1, BoundAssumption DEF TypeOK
    <3> QED BY <2>2, <3>2 DEF Checks, TypeOK
  <2>3. CASE StartKilled
    BY <2>3, BoundAssumption DEF StartKilled, TypeOK
  <2> QED BY <2>1, <2>2, <2>3 DEF DoStart
<1>2. OwnedHere'
  <2>1. ds.pc # "none" /\ ds'.pc # "none"
    BY DEF DoStart, Launch, Checks, StartKilled, TypeOK
  <2>2. UNCHANGED loopVars
    BY DEF DoStart, Launch, Checks, StartKilled
  <2> QED BY <2>1, <2>2 DEF OwnedHere
<1>3. StartOwns' /\ Accounted'
  <2>1. CASE Launch
    <3>1. ds.cmd = 0
      BY <2>1 DEF Launch, StartOwns
    <3> QED BY <2>1, <3>1 DEF Launch, StartOwns, Accounted, TypeOK
  <2>2. CASE Checks
    BY <2>2 DEF Checks, StartOwns, Accounted, TypeOK
  <2>3. CASE StartKilled
    BY <2>3 DEF StartKilled, StartOwns, Accounted, TypeOK
  <2> QED BY <2>1, <2>2, <2>3 DEF DoStart
<1>4. KindsParked' /\ EnsureNotRefused'
  BY DEF DoStart, Launch, Checks, StartKilled, KindsParked, EnsureNotRefused
<1> QED BY <1>1, <1>2, <1>3, <1>4

LEMMA DiesKeeps ==
    ASSUME IInv, NEW i \in 1..MaxStarts, Dies(i)
    PROVE  IInv'
<1> USE DEF IInv, Dies, loopVars, callVars, useVars
<1>1. TypeOK'
  BY DEF TypeOK
<1>2. OwnedHere' /\ StartOwns' /\ Accounted'
  BY DEF OwnedHere, StartOwns, Accounted
<1>3. KindsParked' /\ EnsureNotRefused'
  BY DEF KindsParked, EnsureNotRefused
<1> QED BY <1>1, <1>2, <1>3

\* A caller's own steps never make its result a refusal.
LEMMA CallerKeeps ==
    ASSUME IInv, NEW c \in Callers, CallerStep(c)
    PROVE  IInv'
<1> USE DEF IInv, CallersOnly, loopVars, osVars, useVars, CallerStep, Call,
            LeaveOnShutdown, GiveUp
<1>1. TypeOK'
  <2>1. \E p \in {"sending", "done"} : cl' = [cl EXCEPT ![c] = p]
    OBVIOUS
  <2>2. res' = res \/ \E r \in {"shutdown", "gaveUp"} : res' = [res EXCEPT ![c] = r]
    OBVIOUS
  <2>3. UNCHANGED <<loopVars, ds, osVars, parent, useVars, ttl>>
    OBVIOUS
  <2> HIDE DEF CallerStep, Call, LeaveOnShutdown, GiveUp
  <2>4. cl' \in [Callers -> {"idle", "sending", "parked", "done"}]
    BY <2>1 DEF TypeOK
  <2>5. res' \in [Callers -> Results]
    BY <2>2 DEF TypeOK, Results
  <2> QED BY <2>3, <2>4, <2>5 DEF TypeOK
<1>2. OwnedHere' /\ StartOwns' /\ Accounted'
  BY DEF OwnedHere, StartOwns, Accounted
<1>3. KindsParked'
  BY DEF KindsParked
<1>4. EnsureNotRefused'
  BY DEF EnsureNotRefused, TypeOK
<1> QED BY <1>1, <1>2, <1>3, <1>4

\* ServeHTTP calls, the clock, the TTL goroutines and the cancellation of
\* parentCtx.
LEMMA UseKeeps ==
    ASSUME IInv,
           \/ Shutdown \/ TimePasses
           \/ \E q \in Serves : ServeStep(q)
           \/ \E g \in TTLs : TTLStep(g)
    PROVE  IInv'
<1> USE DEF IInv, loopVars, osVars, callVars
<1>1. UNCHANGED <<loopVars, ds, osVars, callVars>>
  BY DEF Shutdown, TimePasses, ServeStep, ServeLoads, ServeBegins, ServeStores,
         ServeEnds, UseOnly, TTLStep, TTLTicks, TTLCounts, TTLReads, TTLLeaves, TTLOnly
<1>2. parent' \in BOOLEAN /\ idle' \in BOOLEAN /\ quiet' \in BOOLEAN
  BY DEF TypeOK, Shutdown, TimePasses, ServeStep, ServeLoads, ServeBegins,
         ServeStores, ServeEnds, UseOnly, TTLStep, TTLTicks, TTLCounts, TTLReads,
         TTLLeaves, TTLOnly, useVars
<1>3. serve' \in [Serves -> {"idle", "loaded", "serving", "stored", "done"}]
  BY DEF TypeOK, Shutdown, TimePasses, ServeStep, ServeLoads, ServeBegins,
         ServeStores, ServeEnds, TTLStep, TTLTicks, TTLCounts, TTLReads, TTLLeaves,
         TTLOnly, useVars
<1>4. ttl' \in [TTLs -> {"none", "tick", "seen", "read", "stop", "parked"}]
  BY DEF TypeOK, Shutdown, TimePasses, ServeStep, ServeLoads, ServeBegins,
         ServeStores, ServeEnds, UseOnly, TTLStep, TTLTicks, TTLCounts, TTLReads, TTLLeaves
<1>5. TypeOK'
  BY <1>1, <1>2, <1>3, <1>4 DEF TypeOK
<1>6. OwnedHere' /\ StartOwns' /\ Accounted'
  BY <1>1 DEF OwnedHere, StartOwns, Accounted
<1>7. KindsParked' /\ EnsureNotRefused'
  BY <1>1 DEF KindsParked, EnsureNotRefused
<1> QED BY <1>5, <1>6, <1>7

-----------------------------------------------------------------------------
(* The inductive invariant holds.                                           *)

LEMMA InitHolds == Init => IInv
<1> SUFFICES ASSUME Init
             PROVE  IInv
  OBVIOUS
<1>1. TypeOK
  <2>1. 0 \in 0..MaxStarts
    BY BoundAssumption
  <2> QED BY <2>1 DEF Init, TypeOK, Results
<1>2. OwnedHere /\ StartOwns /\ Accounted
  BY DEF Init, OwnedHere, StartOwns, Accounted
<1>3. KindsParked /\ EnsureNotRefused
  BY DEF Init, KindsParked, EnsureNotRefused
<1> QED BY <1>1, <1>2, <1>3 DEF IInv

LEMMA StepKeeps == IInv /\ [Next]_vars => IInv'
<1> SUFFICES ASSUME IInv, [Next]_vars
             PROVE  IInv'
  OBVIOUS
<1>1. CASE LoopStep
  BY <1>1, ReceiveKeeps, StopKeeps, EndKeeps, StartSucceedsKeeps,
     ParentMidStartKeeps DEF LoopStep
<1>2. CASE DoStart
  BY <1>2, DoStartKeeps
<1>3. CASE \/ Shutdown \/ TimePasses
           \/ \E q \in Serves : ServeStep(q)
           \/ \E g \in TTLs : TTLStep(g)
  BY <1>3, UseKeeps
<1>4. CASE \E i \in 1..MaxStarts : Dies(i)
  BY <1>4, DiesKeeps
<1>5. CASE \E c \in Callers : CallerStep(c)
  BY <1>5, CallerKeeps
<1>6. CASE Quiescent \/ UNCHANGED vars
  <2>1. UNCHANGED vars
    BY <1>6 DEF Quiescent
  <2>2. TypeOK'
    BY <2>1 DEF IInv, TypeOK, vars, loopVars, osVars, callVars, useVars
  <2>3. OwnedHere' /\ StartOwns' /\ Accounted'
    BY <2>1 DEF IInv, OwnedHere, StartOwns, Accounted, vars, loopVars, osVars
  <2>4. KindsParked' /\ EnsureNotRefused'
    BY <2>1 DEF IInv, KindsParked, EnsureNotRefused, vars, loopVars, callVars
  <2> QED BY <2>2, <2>3, <2>4 DEF IInv
<1> QED BY <1>1, <1>2, <1>3, <1>4, <1>5, <1>6 DEF Next

THEOREM Invariance == Spec => []IInv
BY InitHolds, StepKeeps, PTL DEF Spec

-----------------------------------------------------------------------------
(* What follows from it.                                                    *)

\* The loop, its goroutines and its callers are well typed.
THEOREM TypeCorrect == Spec => []TypeOK
<1>1. IInv => TypeOK
  BY DEF IInv
<1> QED BY <1>1, Invariance, PTL

\* However many calls race and however often the upstream is started, two
\* instances never run together: the instance of the loop has exited before
\* doStart launches another (run, doStart, killProcess).
THEOREM NeverTwoUpstreams == Spec => []OneUpstream
<1>1. IInv => OneUpstream
  <2> SUFFICES ASSUME IInv
               PROVE  Cardinality(alive) <= 1
    BY DEF OneUpstream
  <2>1. \E i : alive \subseteq {i}
    BY DEF IInv, OwnedHere, StartOwns, Accounted, TypeOK
  <2>2. PICK i : alive = {} \/ alive = {i}
    BY <2>1
  <2>3. Cardinality({}) = 0 /\ Cardinality({i}) = 1
    BY FS_EmptySet, FS_Singleton
  <2> QED BY <2>2, <2>3
<1> QED BY <1>1, Invariance, PTL

\* A loop that holds no upstream has left none behind: a start that was
\* aborted, failed or superseded ends before the loop goes on.
THEOREM NoOrphan == Spec => []NothingLeftRunning
<1>1. IInv => NothingLeftRunning
  BY DEF IInv, OwnedHere, StartOwns, Accounted, NothingLeftRunning
<1> QED BY <1>1, Invariance, PTL

\* EnsureReady is answered, never refused: at its select the loop is either
\* stopped or ready.
THEOREM EnsureAccepted == Spec => []EnsureNotRefused
<1>1. IInv => EnsureNotRefused
  BY DEF IInv
<1> QED BY <1>1, Invariance, PTL

\* The answer a Stop gets is sent only when no instance runs.
LEMMA StopAnswered ==
    ASSUME IInv, LoopStep, NEW c \in Callers, Kind[c] = "stop",
           res[c] # "ok", res'[c] = "ok"
    PROVE  alive' = {}
<1> USE DEF IInv, osVars
<1>1. ASSUME NEW d \in Callers, ReceiveWait(d) \/ ReceiveStart(d)
      PROVE  FALSE
  <2>1. Kind[d] # "stop"
    BY <1>1 DEF ReceiveWait, ReceiveStart
  <2> QED BY <1>1, <2>1 DEF ReceiveWait, ReceiveStart, Reply, TypeOK
<1>2. ASSUME NEW s \in Callers \union TTLs,
             ReceiveStop(s) \/ ReceiveIdleStop(s) \/ StopMidStart(s)
      PROVE  alive' = {}
  BY <1>2 DEF ReceiveStop, ReceiveIdleStop, StopMidStart, Park, AtSelect,
              OwnedHere, StartOwns, Accounted
<1>3. CASE UpstreamGone \/ Killed \/ StartFails \/ Aborted
  BY <1>3 DEF UpstreamGone, Killed, StartFails, Aborted, Finished, AtSelect,
              OwnedHere, StartOwns, Accounted
<1>4. CASE ParentDone
  BY <1>4 DEF ParentDone, AtSelect, callVars, OwnedHere, StartOwns, Accounted
<1>5. CASE ParentMidStart
  BY <1>5 DEF ParentMidStart, callVars
<1>6. CASE StartSucceeds
  <2>1. starter # None /\ Kind[starter] \in {"run", "ensure"} /\ c \notin readyWaiters
    BY <1>6 DEF StartSucceeds, KindsParked
  <2> QED BY <1>6, <2>1 DEF StartSucceeds, AnswerAll
<1> QED BY <1>1, <1>2, <1>3, <1>4, <1>5, <1>6 DEF LoopStep

\* Stop blocks until the process has terminated (process.go, Process.Stop).
THEOREM StopWaits == Spec => StopTerminates
<1> DEFINE A == \A c \in Callers :
                  Kind[c] = "stop" /\ res[c] # "ok" /\ res'[c] = "ok" => alive' = {}
<1>1. IInv /\ [Next]_vars => [A]_vars
  <2> SUFFICES ASSUME IInv, Next, NEW c \in Callers, Kind[c] = "stop",
                      res[c] # "ok", res'[c] = "ok"
               PROVE  alive' = {}
    OBVIOUS
  <2>1. CASE LoopStep
    BY <2>1, StopAnswered
  <2>2. CASE ~LoopStep
    <3>1. CASE \E d \in Callers : CallerStep(d)
      BY <3>1 DEF CallerStep, Call, LeaveOnShutdown, GiveUp, IInv, TypeOK
    <3>2. CASE ~ \E d \in Callers : CallerStep(d)
      <4>1. res' = res
        BY <2>2, <3>2 DEF Next, DoStart, Launch, Checks, StartKilled, StartVarsOnly,
           Shutdown, TimePasses, Dies, ServeStep, ServeLoads, ServeBegins,
           ServeStores, ServeEnds, UseOnly, TTLStep, TTLTicks, TTLCounts, TTLReads,
           TTLLeaves, TTLOnly, Quiescent, vars, callVars
      <4> QED BY <4>1
    <3> QED BY <3>1, <3>2
  <2> QED BY <2>1, <2>2
<1> QED BY <1>1, Invariance, PTL DEF Spec, StopTerminates

-----------------------------------------------------------------------------
(* ProcessCommand implements ManagedProcess.                                *)

\* What the state, the place of the loop and the request being served say of
\* one another: the answer a loop gives at the end of a wait depends on them.
Served ==
    /\ loop = "starting" => state = "starting"
    /\ loop \in {"kill", "abort"} /\ why = "stop" =>
         state = IF loop = "kill" THEN "stopping" ELSE "starting"
    /\ loop \in {"kill", "abort"} /\ why = "shutdown" =>
         state = "shutdown" /\ parent /\ stopper = None
    /\ stopper # None => loop \in {"kill", "abort"}
    /\ stopper \in Callers => Kind[stopper] = "stop"
    /\ starter # None => loop \in {"starting", "abort"}

PInv == IInv /\ Served /\ ParkedIsKnown

\* At a select nobody is served, and everyone parked waits for readiness or
\* for the end of the upstream.
LEMMA ReceiveServes ==
    ASSUME PInv, NEW c \in Callers, ReceiveWait(c) \/ ReceiveStart(c)
    PROVE  Served' /\ ParkedIsKnown'
<1> USE CallerAssumption DEF PInv, IInv, TypeOK, AtSelect, osVars, useVars
<1>1. CASE ReceiveWait(c)
  <2>1. Served'
    BY <1>1 DEF ReceiveWait, Reply, Served, loopVars
  <2>2. ParkedIsKnown'
    BY <1>1 DEF ReceiveWait, Reply, ParkedIsKnown, loopVars
  <2> QED BY <2>1, <2>2
<1>2. CASE ReceiveStart(c)
  <2>1. Served'
    BY <1>2 DEF ReceiveStart, Reply, Served, loopVars
  <2>2. ParkedIsKnown'
    BY <1>2 DEF ReceiveStart, Reply, ParkedIsKnown, loopVars, Served
  <2> QED BY <2>1, <2>2
<1> QED BY <1>1, <1>2

LEMMA StopServes ==
    ASSUME PInv, NEW s \in Callers \union TTLs,
           ReceiveStop(s) \/ ReceiveIdleStop(s) \/ StopMidStart(s)
    PROVE  Served' /\ ParkedIsKnown'
<1> USE CallerAssumption DEF PInv, IInv, TypeOK, AtSelect, osVars, useVars
<1>1. CASE ReceiveIdleStop(s)
  <2>1. Served'
    BY <1>1 DEF ReceiveIdleStop, Served
  <2>2. ParkedIsKnown'
    BY <1>1 DEF ReceiveIdleStop, ParkedIsKnown
  <2> QED BY <2>1, <2>2
<1>2. CASE ReceiveStop(s) \/ StopMidStart(s)
  <2>1. stopper' = s /\ UNCHANGED <<readyWaiters, runResp, starter, cmd, parent>>
        /\ why' = "stop"
    BY <1>2 DEF ReceiveStop, StopMidStart, Park
  <2>2. stopper = None
    BY <1>2 DEF ReceiveStop, StopMidStart, Served
  <2>3. s \in Callers => Kind[s] = "stop"
    BY <1>2 DEF ReceiveStop, StopMidStart, Stopping
  <2>4. Served'
    BY <1>2, <2>1, <2>3 DEF ReceiveStop, StopMidStart, Served
  <2>5. \A c \in Callers : cl'[c] = "parked" => cl[c] = "parked" \/ c = s
    BY <1>2 DEF ReceiveStop, StopMidStart, Park
  <2>6. ParkedIsKnown'
    BY <2>1, <2>2, <2>5 DEF ParkedIsKnown
  <2> QED BY <2>4, <2>6
<1> QED BY <1>1, <1>2

\* An end that settles a question leaves nobody parked.
LEMMA SettleServes ==
    ASSUME PInv, NEW w, NEW u, NEW t, Settle(w, u, t)
    PROVE  /\ \A c \in Callers : cl'[c] # "parked"
           /\ runResp' = None /\ starter' = None /\ stopper' = None
<1>1. \A c \in Callers : cl[c] = "parked" =>
         c \in readyWaiters \union {runResp, starter, stopper}
  BY DEF PInv, ParkedIsKnown
<1> QED BY <1>1 DEF Settle, AnswerAll

LEMMA EndServes ==
    ASSUME PInv, UpstreamGone \/ Killed \/ StartFails \/ Aborted \/ ParentDone
    PROVE  Served' /\ ParkedIsKnown'
<1> USE CallerAssumption DEF osVars, useVars, callVars, AtSelect
<1>1. CASE ParentDone /\ cmd # 0
  <2>1. Served'
    BY <1>1 DEF ParentDone, PInv, Served
  <2>2. ParkedIsKnown'
    BY <1>1 DEF ParentDone, PInv, ParkedIsKnown
  <2> QED BY <2>1, <2>2
<1>2. CASE ~ (ParentDone /\ cmd # 0)
  <2>1. PICK w, u, t : Settle(w, u, t)
    <3>1. CASE UpstreamGone \/ StartFails
      BY <3>1 DEF UpstreamGone, StartFails
    <3>2. CASE Killed
      BY <3>2 DEF Killed
    <3>3. CASE Aborted
      BY <3>3 DEF Aborted
    <3>4. CASE ParentDone
      BY <1>2, <3>4 DEF ParentDone
    <3> QED BY <3>1, <3>2, <3>3, <3>4
  <2>2. /\ \A c \in Callers : cl'[c] # "parked"
        /\ runResp' = None /\ starter' = None /\ stopper' = None
    BY <2>1, SettleServes
  <2>3. loop' \in {"select", "exited"}
    BY <1>2 DEF UpstreamGone, Killed, StartFails, Aborted, ParentDone
  <2> QED BY <2>2, <2>3 DEF Served, ParkedIsKnown
<1> QED BY <1>1, <1>2

LEMMA StartSucceedsServes ==
    ASSUME PInv, StartSucceeds
    PROVE  Served' /\ ParkedIsKnown'
<1> USE CallerAssumption DEF StartSucceeds
<1>1. starter' = None /\ stopper' = None /\ loop' = "select" /\ cmd' # 0
  BY DEF PInv, IInv, Served, StartOwns
<1>2. Served'
  BY <1>1 DEF Served
<1>3. ASSUME NEW c \in Callers, cl'[c] = "parked"
      PROVE  c = runResp'
  <2>1. stopper = None /\ runResp = None
    BY DEF PInv, IInv, Served, OwnedHere, ParkedIsKnown
  <2>2. c \in readyWaiters \union {runResp, starter, stopper}
    BY <1>3 DEF PInv, ParkedIsKnown, AnswerAll
  <2> QED BY <1>3, <2>1, <2>2 DEF AnswerAll
<1>4. ParkedIsKnown'
  BY <1>1, <1>3 DEF ParkedIsKnown
<1> QED BY <1>2, <1>4

\* Nobody else parks a call or serves one.
LEMMA OthersServe ==
    ASSUME PInv, [Next]_vars, ~LoopStep \/ ParentMidStart
    PROVE  Served' /\ ParkedIsKnown'
<1>1. CASE ParentMidStart
  <2>1. Served'
    BY <1>1 DEF ParentMidStart, PInv, Served
  <2>2. ParkedIsKnown'
    BY <1>1 DEF ParentMidStart, PInv, ParkedIsKnown, callVars
  <2> QED BY <2>1, <2>2
<1>2. CASE ~LoopStep
  <2>1. /\ UNCHANGED loopVars /\ (parent => parent')
        /\ \A c \in Callers : cl'[c] = "parked" => cl[c] = "parked"
    <3>1. CASE DoStart
      BY <3>1 DEF DoStart, Launch, Checks, StartKilled, StartVarsOnly, callVars
    <3>2. CASE \E c \in Callers : CallerStep(c)
      BY <3>2 DEF CallerStep, Call, LeaveOnShutdown, GiveUp, CallersOnly, PInv, IInv, TypeOK
    <3>3. CASE \/ Shutdown \/ TimePasses
               \/ \E i \in 1..MaxStarts : Dies(i)
               \/ \E q \in Serves : ServeStep(q)
               \/ \E g \in TTLs : TTLStep(g)
               \/ Quiescent \/ UNCHANGED vars
      BY <3>3 DEF Shutdown, TimePasses, Dies, ServeStep, ServeLoads, ServeBegins,
         ServeStores, ServeEnds, UseOnly, TTLStep, TTLTicks, TTLCounts, TTLReads,
         TTLLeaves, TTLOnly, Quiescent, vars, callVars
    <3> QED BY <1>2, <3>1, <3>2, <3>3 DEF Next
  <2>2. Served'
    BY <2>1 DEF loopVars, PInv, Served
  <2>3. ParkedIsKnown'
    BY <2>1 DEF loopVars, PInv, ParkedIsKnown
  <2> QED BY <2>2, <2>3
<1> QED BY <1>1, <1>2

THEOREM ServedInvariance == Spec => []PInv
<1>1. Init => PInv
  <2>1. Init => Served /\ ParkedIsKnown
    BY CallerAssumption DEF Init, Served, ParkedIsKnown
  <2> QED BY <2>1, InitHolds DEF PInv
<1>2. PInv /\ [Next]_vars => PInv'
  <2> SUFFICES ASSUME PInv, [Next]_vars
               PROVE  Served' /\ ParkedIsKnown'
    BY StepKeeps DEF PInv
  <2>1. CASE LoopStep /\ ~ParentMidStart
    BY <2>1, ReceiveServes, StopServes, EndServes, StartSucceedsServes DEF LoopStep
  <2>2. CASE ~LoopStep \/ ParentMidStart
    BY <2>2, OthersServe
  <2> QED BY <2>1, <2>2
<1> QED BY <1>1, <1>2, PTL DEF Spec

-----------------------------------------------------------------------------
(* Step by step: every step of ProcessCommand is one of ManagedProcess, or  *)
(* one that its users do not see.                                           *)

Seen == <<state, parent, StartSeen, alive, cl, res>>

\* A settlement answers exactly the calls that are parked, by their kind.
LEMMA SettleMaps ==
    ASSUME PInv, NEW w, NEW u, NEW t, Settle(w, u, t),
           NEW r, DOMAIN r = {"run", "ensure", "wait", "stop"},
           r["wait"] = w, r["stop"] = "ok",
           runResp # None => r["run"] = u,
           starter # None => r["run"] = t /\ r["ensure"] = t
    PROVE  Managed!Settle(r)
<1> USE CallerAssumption
<1> DEFINE D == readyWaiters \union {runResp, starter, stopper}
           a == [c \in Callers |->
                   IF c \in readyWaiters THEN w
                   ELSE IF c = runResp THEN u
                   ELSE IF c = starter THEN t ELSE "ok"]
<1>1. AnswerAll(D, a)
  BY DEF Settle
<1>2. ASSUME NEW c \in Callers
      PROVE  /\ (c \in D /\ cl[c] = "parked") <=> c \in Managed!Parked(DOMAIN r)
             /\ c \in D => a[c] = r[Kind[c]]
  <2>1. cl[c] = "parked" => c \in D
    BY DEF PInv, ParkedIsKnown
  <2>2. c \in Managed!Parked(DOMAIN r) <=> cl[c] = "parked"
    BY DEF Managed!Parked
  <2>3. c \in D => a[c] = r[Kind[c]]
    BY DEF PInv, IInv, KindsParked, Served
  <2> QED BY <2>1, <2>2, <2>3
<1> HIDE DEF D, a
<1>3. /\ cl' = [c \in Callers |-> IF c \in D /\ cl[c] = "parked" THEN "done" ELSE cl[c]]
      /\ res' = [c \in Callers |-> IF c \in D /\ cl[c] = "parked" THEN a[c] ELSE res[c]]
  BY <1>1 DEF AnswerAll
<1>4. cl' = [c \in Callers |-> IF c \in Managed!Parked(DOMAIN r) THEN "done" ELSE cl[c]]
  BY <1>2, <1>3
<1>5. res' = [c \in Callers |-> IF c \in Managed!Parked(DOMAIN r) THEN r[Kind[c]] ELSE res[c]]
  BY <1>2, <1>3
<1> QED BY <1>4, <1>5 DEF Managed!Settle

\* Where the loop is, without an instance of its own, nothing runs.
LEMMA NothingRuns ==
    ASSUME PInv, loop \in {"select", "exited", "starting", "abort", "kill"}
    PROVE  /\ cmd = 0 /\ ds.cmd \notin alive => alive = {}
           /\ cmd = 0 /\ ds.cmd = 0 => alive = {}
           /\ ds.cmd = 0 /\ cmd \notin alive => alive = {}
BY DEF PInv, IInv, Accounted

LEMMA ReceiveMaps ==
    ASSUME PInv, NEW c \in Callers, ReceiveWait(c) \/ ReceiveStart(c)
    PROVE  Managed!AnswerNow(c) \/ Managed!Subscribe(c) \/ Managed!StartBegins(c)
<1> USE DEF osVars, loopVars, AtSelect
<1>1. ds.pc = "none" /\ state = IF cmd = 0 THEN "stopped" ELSE "ready"
  BY DEF ReceiveWait, ReceiveStart, PInv, IInv, OwnedHere
<1>2. CASE ReceiveWait(c)
  <2>1. CASE state = "ready"
    BY <1>2, <2>1 DEF ReceiveWait, Reply, Managed!AnswerNow, Managed!Return, StartSeen
  <2>2. CASE state # "ready"
    BY <1>1, <1>2, <2>2 DEF ReceiveWait, Managed!Subscribe, Managed!Park, StartSeen
  <2> QED BY <2>1, <2>2
<1>3. CASE ReceiveStart(c)
  <2>1. CASE state = "ready"
    BY <1>3, <2>1 DEF ReceiveStart, Reply, Managed!AnswerNow, Managed!Return, StartSeen
  <2>2. CASE state # "ready"
    BY <1>1, <1>3, <2>2 DEF ReceiveStart, Managed!StartBegins, Managed!Park, StartSeen
  <2> QED BY <2>1, <2>2
<1> QED BY <1>2, <1>3

LEMMA StopMaps ==
    ASSUME PInv, NEW s \in Callers \union TTLs,
           ReceiveStop(s) \/ ReceiveIdleStop(s) \/ StopMidStart(s)
    PROVE  \/ Managed!StopBegins
           \/ \E c \in Callers : Managed!AnswerNow(c) \/ Managed!StopMidStart(c)
           \/ UNCHANGED Seen
<1> USE CallerAssumption DEF osVars, useVars, AtSelect
<1>1. s \notin Callers => s \in TTLs
  OBVIOUS
<1>2. CASE ReceiveStop(s)
  <2>1. state = "ready" /\ state' = "stopping" /\ UNCHANGED <<parent, ds, alive>>
    BY <1>2 DEF ReceiveStop, PInv, IInv, OwnedHere
  <2>2. \/ UNCHANGED <<cl, res>>
        \/ \E c \in Callers : Kind[c] = "stop" /\ Managed!Park(c)
    BY <1>2 DEF ReceiveStop, Stopping, Park, Managed!Park
  <2> QED BY <2>1, <2>2 DEF Managed!StopBegins, Managed!callVars, StartSeen
<1>3. CASE ReceiveIdleStop(s)
  <2>1. state = "stopped" /\ state' = "stopped" /\ alive = {}
        /\ UNCHANGED <<parent, ds, alive>>
    BY <1>3, NothingRuns DEF ReceiveIdleStop, PInv, IInv, OwnedHere, StartOwns
  <2>2. CASE s \in Callers
    <3>1. Managed!AnswerNow(s)
      BY <1>3, <2>1, <2>2 DEF ReceiveIdleStop, Stopping, Managed!AnswerNow,
         Managed!Return, StartSeen
    <3> QED BY <2>2, <3>1
  <2>3. CASE s \notin Callers
    BY <1>3, <2>1, <2>3 DEF ReceiveIdleStop, Seen, StartSeen
  <2> QED BY <2>2, <2>3
<1>4. CASE StopMidStart(s)
  <2>1. state = "starting" /\ UNCHANGED <<state, parent, ds, alive>>
    BY <1>4 DEF StopMidStart, PInv, Served
  <2>2. CASE s \in Callers
    <3>1. Managed!StopMidStart(s)
      BY <1>4, <2>1, <2>2 DEF StopMidStart, Stopping, Park, Managed!StopMidStart,
         Managed!Park, StartSeen
    <3> QED BY <2>2, <3>1
  <2>3. CASE s \notin Callers
    BY <1>4, <2>1, <2>3 DEF StopMidStart, Park, Seen, StartSeen
  <2> QED BY <2>2, <2>3
<1> QED BY <1>2, <1>3, <1>4

\* The tables of answers, entry by entry.
LEMMA Verdicts ==
    ASSUME NEW v
    PROVE  /\ DOMAIN Managed!Verdict(v) = {"run", "ensure", "wait", "stop"}
           /\ \A k \in {"run", "ensure", "wait"} : Managed!Verdict(v)[k] = v
           /\ Managed!Verdict(v)["stop"] = "ok"
BY DEF Managed!Verdict

LEMMA Stopped ==
    LET r == [Managed!Verdict("stopped") EXCEPT !.run = "ok"]
    IN  /\ DOMAIN r = {"run", "ensure", "wait", "stop"}
        /\ r["run"] = "ok" /\ r["wait"] = "stopped" /\ r["stop"] = "ok"
BY DEF Managed!Verdict

LEMMA EndMaps ==
    ASSUME PInv, UpstreamGone \/ Killed \/ StartFails \/ Aborted \/ ParentDone
    PROVE  Managed!BecomesStopped \/ Managed!ShutdownBegins \/ Managed!ShutdownEnds
<1> USE CallerAssumption DEF osVars, useVars, AtSelect
<1>1. CASE UpstreamGone
  <2>1. state = "ready" /\ state' = "stopped" /\ alive = {} /\ ds.pc = "none"
        /\ UNCHANGED <<parent, ds, alive>>
    BY <1>1, NothingRuns DEF UpstreamGone, PInv, IInv, OwnedHere, StartOwns
  <2>2. Managed!Settle(Managed!Verdict("exited"))
    <3>1. Settle("exited", "exited", "exited")
      BY <1>1 DEF UpstreamGone
    <3> QED BY <3>1, Verdicts, SettleMaps
  <2> QED BY <2>1, <2>2 DEF Managed!BecomesStopped, StartSeen
<1>2. CASE Killed
  <2>1. ds.pc = "none" /\ ds.cmd = 0 /\ alive = {} /\ UNCHANGED <<parent, ds, alive>>
    BY <1>2, NothingRuns DEF Killed, PInv, IInv, OwnedHere, StartOwns
  <2>2. CASE why = "stop"
    <3>1. state = "stopping" /\ state' = "stopped" /\ starter = None
      BY <1>2, <2>2 DEF Killed, PInv, Served
    <3>2. Managed!Settle([Managed!Verdict("stopped") EXCEPT !.run = "ok"])
      <4>1. Settle("stopped", "ok", "ok")
        BY <1>2, <2>2 DEF Killed
      <4> QED BY <3>1, <4>1, Stopped, SettleMaps
    <3> QED BY <2>1, <3>1, <3>2 DEF Managed!BecomesStopped, StartSeen
  <2>3. CASE why = "shutdown"
    <3>1. state = "shutdown" /\ state' = "shutdown" /\ parent
      BY <1>2, <2>3 DEF Killed, PInv, Served
    <3>2. Managed!Settle(Managed!Verdict("shutdown"))
      <4>1. Settle("shutdown", "shutdown", "shutdown")
        BY <1>2, <2>3 DEF Killed
      <4> QED BY <4>1, Verdicts, SettleMaps
    <3> QED BY <2>1, <3>1, <3>2 DEF Managed!ShutdownEnds, StartSeen
  <2> QED BY <1>2, <2>2, <2>3 DEF Killed
<1>3. CASE StartFails
  <2>1. state = "starting" /\ state' = "stopped" /\ ds.pc = "failed" /\ ds'.pc = "none"
        /\ alive = {} /\ stopper = None /\ UNCHANGED <<parent, alive>>
    BY <1>3, NothingRuns DEF StartFails, NoStart, PInv, IInv, OwnedHere, StartOwns, Served
  <2>2. Managed!Settle(Managed!Verdict("failed"))
    <3>1. Settle("failed", "failed", "failed")
      BY <1>3 DEF StartFails
    <3> QED BY <3>1, Verdicts, SettleMaps
  <2>3. Managed!Parked({"stop"}) = {}
    BY <2>1 DEF Managed!Parked, PInv, IInv, ParkedIsKnown, KindsParked
  <2> QED BY <2>1, <2>2, <2>3 DEF Managed!BecomesStopped, StartSeen
<1>4. CASE Aborted
  <2>1. ds.pc \in {"ok", "failed"} /\ ds'.pc = "none" /\ alive = {}
        /\ UNCHANGED <<parent, alive>>
    BY <1>4, NothingRuns DEF Aborted, Finished, NoStart, PInv, IInv, OwnedHere
  <2>2. CASE why = "stop"
    <3>1. state = "starting" /\ state' = "stopped"
      BY <1>4, <2>2 DEF Aborted, PInv, Served
    <3>2. Managed!Settle(Managed!Verdict("aborted"))
      <4>1. Settle("aborted", "aborted", "aborted")
        BY <1>4, <2>2 DEF Aborted
      <4> QED BY <4>1, Verdicts, SettleMaps
    <3> QED BY <2>1, <3>1, <3>2 DEF Managed!BecomesStopped, StartSeen
  <2>3. CASE why = "shutdown"
    <3>1. state = "shutdown" /\ state' = "shutdown" /\ parent
      BY <1>4, <2>3 DEF Aborted, PInv, Served
    <3>2. Managed!Settle(Managed!Verdict("shutdown"))
      <4>1. Settle("shutdown", "shutdown", "shutdown")
        BY <1>4, <2>3 DEF Aborted
      <4> QED BY <4>1, Verdicts, SettleMaps
    <3> QED BY <2>1, <3>1, <3>2 DEF Managed!ShutdownEnds, StartSeen
  <2> QED BY <1>4, <2>2, <2>3 DEF Aborted, PInv, IInv, OwnedHere
<1>5. CASE ParentDone
  <2>1. ds.pc = "none" /\ ds.cmd = 0 /\ parent /\ state' = "shutdown"
        /\ state = (IF cmd = 0 THEN "stopped" ELSE "ready") /\ UNCHANGED <<parent, ds, alive>>
    BY <1>5 DEF ParentDone, PInv, IInv, OwnedHere, StartOwns
  <2>2. CASE cmd # 0
    BY <1>5, <2>1, <2>2 DEF ParentDone, callVars, Managed!ShutdownBegins,
       Managed!callVars, StartSeen
  <2>3. CASE cmd = 0
    <3>1. Managed!Settle(Managed!Verdict("shutdown"))
      <4>1. Settle("shutdown", "shutdown", "shutdown")
        BY <1>5, <2>3 DEF ParentDone
      <4> QED BY <4>1, Verdicts, SettleMaps
    <3>2. alive = {}
      BY <1>5, <2>1, <2>3, NothingRuns DEF ParentDone
    <3> QED BY <2>1, <2>3, <3>1, <3>2 DEF Managed!ShutdownEnds, StartSeen
  <2> QED BY <2>2, <2>3
<1> QED BY <1>1, <1>2, <1>3, <1>4, <1>5

\* A start that succeeds: no Stop is parked, and whoever is parked on
\* readiness is a subscriber or the starter.
LEMMA ReadyMaps ==
    ASSUME PInv, StartSucceeds
    PROVE  Managed!BecomesReady
<1> USE CallerAssumption
<1> DEFINE r == [ensure |-> "ok", wait |-> "ok"]
           D == readyWaiters \union (IF Kind[starter] = "run" THEN {} ELSE {starter})
<1>1. /\ state = "starting" /\ state' = "ready" /\ ds.pc = "ok" /\ ds'.pc = "none"
      /\ runResp = None /\ stopper = None /\ UNCHANGED <<parent, alive>>
  BY DEF StartSucceeds, NoStart, osVars, PInv, IInv, OwnedHere, Served, ParkedIsKnown
<1>2. AnswerAll(D, [c \in Callers |-> "ok"])
  BY DEF StartSucceeds
<1>3. ASSUME NEW c \in Callers
      PROVE  c \in Managed!Parked(DOMAIN r) <=> c \in D /\ cl[c] = "parked"
  <2>1. cl[c] = "parked" => c \in readyWaiters \union {starter}
    BY <1>1 DEF PInv, ParkedIsKnown
  <2>2. c \in readyWaiters => Kind[c] = "wait"
    BY DEF PInv, IInv, KindsParked
  <2>3. c = starter => Kind[c] \in {"run", "ensure"}
    BY DEF PInv, IInv, KindsParked
  <2>4. DOMAIN r = {"ensure", "wait"}
    OBVIOUS
  <2> QED BY <2>1, <2>2, <2>3, <2>4 DEF Managed!Parked
<1>4. ASSUME NEW c \in Managed!Parked(DOMAIN r)
      PROVE  r[Kind[c]] = "ok"
  BY DEF Managed!Parked
<1>5. Managed!Settle(r)
  <2> HIDE DEF r, D
  <2>1. /\ cl' = [c \in Callers |-> IF c \in D /\ cl[c] = "parked" THEN "done" ELSE cl[c]]
        /\ res' = [c \in Callers |-> IF c \in D /\ cl[c] = "parked" THEN "ok" ELSE res[c]]
    BY <1>2 DEF AnswerAll
  <2> QED BY <1>3, <1>4, <2>1 DEF Managed!Settle
<1>6. Managed!Parked({"stop"}) = {}
  BY <1>1 DEF Managed!Parked, PInv, IInv, ParkedIsKnown, KindsParked
<1> QED BY <1>1, <1>5, <1>6 DEF Managed!BecomesReady, StartSeen

\* A start under way belongs to a loop that waits for it and holds nothing.
LEMMA StartAlone ==
    ASSUME PInv, ds.pc # "none"
    PROVE  /\ cmd = 0
           /\ ds.pc = "launch" => alive = {}
           /\ ds.cmd \notin alive => alive = {}
BY DEF PInv, IInv, TypeOK, OwnedHere, StartOwns, Accounted

LEMMA DoStartMaps ==
    ASSUME PInv, DoStart
    PROVE  \/ \E i \in 1..MaxStarts : Managed!UpstreamStarts(i)
           \/ Managed!StartFails
           \/ UNCHANGED Seen
<1> USE DEF StartVarsOnly, loopVars, callVars, Managed!callVars
<1>1. CASE Launch
  <2>1. alive = {} /\ StartSeen = "begun"
    BY <1>1, StartAlone DEF Launch, StartSeen
  <2>2. CASE ds' = [ds EXCEPT !.pc = "failed"] /\ UNCHANGED osVars
    <3>1. StartSeen' = "failed"
      BY <2>2 DEF StartSeen, PInv, IInv, TypeOK
    <3> QED BY <1>1, <2>1, <2>2, <3>1 DEF Launch, osVars, Managed!StartFails
  <2>3. CASE /\ started < MaxStarts /\ started' = started + 1
             /\ alive' = alive \union {started'}
             /\ ds' = [pc |-> "check", cmd |-> started']
    <3>1. started' \in 1..MaxStarts
      BY <2>3, BoundAssumption DEF PInv, IInv, TypeOK
    <3>2. StartSeen' = "running"
      BY <2>3 DEF StartSeen
    <3> QED BY <1>1, <2>1, <2>3, <3>1, <3>2 DEF Launch, Managed!UpstreamStarts
  <2> QED BY <1>1, <2>2, <2>3 DEF Launch
<1>2. CASE Checks
  <2>1. ds \in [pc : {"none", "launch", "check", "kill", "ok", "failed"}, cmd : 0..MaxStarts]
    BY DEF PInv, IInv, TypeOK
  <2>2. StartSeen = "running"
    BY <1>2 DEF Checks, StartSeen
  <2>3. CASE ds' = [ds EXCEPT !.pc = "ok"] \/ ds' = [ds EXCEPT !.pc = "kill"]
    <3>1. StartSeen' = "running"
      BY <2>1, <2>3 DEF StartSeen
    <3> QED BY <1>2, <2>2, <3>1 DEF Checks, osVars, Seen
  <2>4. CASE ds.cmd \notin alive /\ ds' = [pc |-> "failed", cmd |-> 0]
    <3>1. StartSeen' = "failed" /\ alive = {}
      BY <1>2, <2>4, StartAlone DEF Checks, StartSeen
    <3> QED BY <1>2, <2>2, <3>1 DEF Checks, osVars, Managed!StartFails
  <2> QED BY <1>2, <2>3, <2>4 DEF Checks
<1>3. CASE StartKilled
  <2>1. StartSeen = "running" /\ StartSeen' = "failed" /\ alive = {}
    BY <1>3, StartAlone DEF StartKilled, StartSeen
  <2> QED BY <1>3, <2>1 DEF StartKilled, osVars, Managed!StartFails
<1> QED BY <1>1, <1>2, <1>3 DEF DoStart

LEMMA OthersMap ==
    ASSUME PInv,
           \/ ParentMidStart \/ Shutdown \/ TimePasses
           \/ \E i \in 1..MaxStarts : Dies(i)
           \/ \E c \in Callers : CallerStep(c)
           \/ \E q \in Serves : ServeStep(q)
           \/ \E g \in TTLs : TTLStep(g)
           \/ Quiescent \/ UNCHANGED vars
    PROVE  [Managed!Next]_Seen
<1> USE DEF loopVars, callVars, osVars, Managed!callVars, StartSeen
<1>1. CASE ParentMidStart
  <2>1. Managed!ShutdownBegins
    BY <1>1 DEF ParentMidStart, PInv, Served, Managed!ShutdownBegins
  <2> QED BY <2>1 DEF Managed!Next
<1>2. CASE Shutdown
  <2>1. Managed!Cancel
    BY <1>2 DEF Shutdown, Managed!Cancel
  <2> QED BY <2>1 DEF Managed!Next
<1>3. ASSUME NEW i \in 1..MaxStarts, Dies(i)
      PROVE  Managed!Next
  <2>1. Managed!UpstreamDies(i)
    BY <1>3 DEF Dies, Managed!UpstreamDies
  <2> QED BY <2>1 DEF Managed!Next
<1>4. ASSUME NEW c \in Callers, CallerStep(c)
      PROVE  Managed!Next
  <2>1. CASE Call(c)
    <3>1. Managed!Call(c)
      BY <2>1 DEF Call, CallersOnly, Managed!Call
    <3> QED BY <3>1 DEF Managed!Next
  <2>2. CASE LeaveOnShutdown(c) \/ GiveUp(c)
    <3>1. Managed!Leave(c)
      BY <2>2 DEF LeaveOnShutdown, GiveUp, CallersOnly, Managed!Leave,
         Managed!Return, Managed!Parked
    <3> QED BY <3>1 DEF Managed!Next
  <2> QED BY <1>4, <2>1, <2>2 DEF CallerStep
<1>5. CASE \/ TimePasses
           \/ \E q \in Serves : ServeStep(q)
           \/ \E g \in TTLs : TTLStep(g)
           \/ Quiescent \/ UNCHANGED vars
  <2>1. UNCHANGED <<state, parent, ds, alive, cl, res>>
    BY <1>5 DEF TimePasses, ServeStep, ServeLoads, ServeBegins, ServeStores,
       ServeEnds, UseOnly, TTLStep, TTLTicks, TTLCounts, TTLReads, TTLLeaves,
       TTLOnly, Quiescent, vars
  <2> QED BY <2>1 DEF Seen
<1> QED BY <1>1, <1>2, <1>3, <1>4, <1>5

LEMMA StepMaps ==
    ASSUME PInv, [Next]_vars
    PROVE  [Managed!Next]_Seen
<1>1. CASE LoopStep /\ ~ParentMidStart
  <2>1. CASE \E c \in Callers : ReceiveWait(c) \/ ReceiveStart(c)
    BY <2>1, ReceiveMaps DEF Managed!Next
  <2>2. CASE \E s \in Callers \union TTLs :
               ReceiveStop(s) \/ ReceiveIdleStop(s) \/ StopMidStart(s)
    BY <2>2, StopMaps DEF Managed!Next
  <2>3. CASE UpstreamGone \/ Killed \/ StartFails \/ Aborted \/ ParentDone
    BY <2>3, EndMaps DEF Managed!Next
  <2>4. CASE StartSucceeds
    BY <2>4, ReadyMaps DEF Managed!Next
  <2> QED BY <1>1, <2>1, <2>2, <2>3, <2>4 DEF LoopStep
<1>2. CASE DoStart
  BY <1>2, DoStartMaps DEF Managed!Next
<1>3. CASE ~(LoopStep /\ ~ParentMidStart) /\ ~DoStart
  BY <1>3, OthersMap DEF Next
<1> QED BY <1>1, <1>2, <1>3

\* The loop, doStart and the callers keep the promises of the interface
\* Process (process.go), whatever is called, in whatever order, and however
\* upstreams crash: seen from outside, every step of theirs is one that
\* ManagedProcess allows.
THEOREM Implements == Spec => KeepsPromises
<1>1. Init => Managed!Init
  BY DEF Init, Managed!Init, StartSeen
<1>2. PInv /\ [Next]_vars => [Managed!Next]_Managed!vars
  BY StepMaps DEF Seen, Managed!vars, Managed!callVars
<1> QED BY <1>1, <1>2, ServedInvariance, PTL DEF Spec, Managed!Spec, KeepsPromises

=============================================================================
