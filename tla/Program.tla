------------------------------- MODULE Program -------------------------------
(***************************************************************************)
(* The main program (llama-swap.go): the watchers of the configuration     *)
(* (internal/watcher), the reloads they and SIGHUP start, the exchange of  *)
(* the active server and of the activity store, the requests served        *)
(* meanwhile and their activity rows and captures (server/metrics.go), the *)
(* performance monitor that outlives the reloads (perf/monitor.go), and    *)
(* the shutdown.                                                           *)
(*                                                                         *)
(* A configuration is the version of each source.  What the program does   *)
(* with it, seen from here: where the store lives and how the monitor      *)
(* samples; whether it is valid is left open.                              *)
(***************************************************************************)
EXTENDS ActivityLog

CONSTANTS
    Sources,          \* what -config and -config-dir name, one watcher each
    Requests,
    MaxEdits, MaxHups, \* bounds
    StorePath(_),     \* configStorePath: "" for the store in memory
    PerfOf(_),        \* its performance section, "off" when disabled
    MaxRows,          \* metricsMaxInMemory
    CaptureSize,      \* the compressed size of each request's capture
    CaptureBuffer     \* the capacity of a capture cache

ASSUME ProgramAssumption ==
    /\ "hup" \notin Sources
    /\ MaxEdits \in Nat /\ MaxHups \in Nat /\ MaxRows \in Nat \ {0}
    /\ CaptureSize \in [Requests -> Nat \ {0}] /\ CaptureBuffer \in Nat

Reloaders == Sources \union {"hup"}

VARIABLES
    disk,      \* of each source: its version, Missing while it is not there
    edits, hups,
    prev,      \* of each watcher: the snapshot of its last poll
    cur,       \* of each watcher: the snapshot whose change it reports
    watcher,   \* of each watcher: "start", "idle", "fires" or "gone"
    reloading, \* the flag that keeps reloads apart
    rl,        \* of each reloader: where its call of reload is
    servers,   \* every server made
    stores,    \* every store opened
    active,    \* activeSrv, activeStore and activeStorePath
    req,       \* of each request: where it is
    perf,      \* the monitor: configuration, is stopCancel set, the last context
    cancelled, \* the contexts of the monitor that are cancelled
    sampler,   \* of each sampler (by the context it was started with): the context it waits on
    phase,     \* of the shutdown
    term,      \* what the shutdown read
    missed,    \* why the active configuration may lag behind the disk
    overlap    \* a reload ran during the shutdown

files   == <<disk, edits, hups>>
watch   == <<prev, cur, watcher>>
objects == <<servers, stores, active>>
monitor == <<perf, cancelled, sampler>>
ending  == <<phase, term>>
vars == <<files, watch, reloading, rl, objects, req, monitor, ending, missed, overlap>>

Missing == -1
Off == 0        \* no context
Alive == phase # "exited"

AllThere(d) == \A w \in Sources : d[w] # Missing

NoReload == [step |-> "none"]
Idle(a) == rl[a].step = "none"

-----------------------------------------------------------------------------
(* Servers, stores and the monitor as values.                              *)

(* Seeded bug: the captures are carried over to the new server.            *)
NewServerKeepsCaptures(config, st) ==
    [cfg |-> config, store |-> st,
     captures |-> IF servers = <<>> THEN NewCache(CaptureBuffer) ELSE servers[active.srv].captures,
     shut |-> FALSE]

(* server.New: fresh routers, tracker and captures over the given store.   *)
(* From then on until it is shut a server may have upstream processes,     *)
(* those it preloads (startPreload) and those requests start.              *)
NewServer(config, st) ==
    [cfg |-> config, store |-> st, captures |-> NewCache(CaptureBuffer), shut |-> FALSE]

(* store.New: a file keeps its rows; memory starts empty.                  *)
OpenStore(path, opened) ==
    LET same == {i \in DOMAIN opened : path # "" /\ opened[i].path = path}
        before == CHOOSE i \in same : \A j \in same : j <= i
        log == IF same = {} THEN NewStore(path = "") ELSE [opened[before].log EXCEPT !.open = TRUE]
    IN [path |-> path, log |-> log]

(* Monitor.Start, given the configuration; nothing when it runs.           *)
Started(config) ==
    IF perf.running \/ config = "off"
      THEN perf' = [perf EXCEPT !.conf = config] /\ UNCHANGED sampler
      ELSE /\ perf' = [conf |-> config, running |-> TRUE, ctx |-> perf.ctx + 1, exists |-> TRUE]
           /\ sampler' = Append(sampler, perf.ctx + 1)

(* Seeded bug: the context is forgotten before it is cancelled.            *)
StopMonitorForgets ==
    perf' = [perf EXCEPT !.running = FALSE] /\ UNCHANGED cancelled

(* Monitor.Stop.                                                           *)
StopMonitor ==
    /\ perf' = [perf EXCEPT !.running = FALSE]
    /\ cancelled' = IF perf.running THEN cancelled \union {perf.ctx} ELSE cancelled

-----------------------------------------------------------------------------
Init ==
    LET config == [w \in Sources |-> 0]
        on == PerfOf(config) # "off"
    IN /\ disk = config
       /\ edits = 0 /\ hups = 0
       /\ prev = config /\ cur = [w \in Sources |-> Missing]
       /\ watcher = [w \in Sources |-> "start"]
       /\ reloading = FALSE
       /\ rl = [a \in Reloaders |-> NoReload]
       /\ stores = <<OpenStore(StorePath(config), <<>>)>>
       /\ servers = <<[cfg |-> config, store |-> 1, captures |-> NewCache(CaptureBuffer),
                       shut |-> FALSE]>>
       /\ active = [srv |-> 1, store |-> 1, path |-> StorePath(config)]
       /\ req = [r \in Requests |-> [step |-> "none"]]
       /\ perf = [conf |-> PerfOf(config), running |-> on, ctx |-> IF on THEN 1 ELSE Off, exists |-> on]
       /\ sampler = IF on THEN <<1>> ELSE <<>>
       /\ cancelled = {}
       /\ phase = "run"
       /\ term = [srv |-> 1, store |-> 1]
       /\ missed = {}
       /\ overlap = FALSE

-----------------------------------------------------------------------------
(* The sources change under the program: an edit, or the first half of a   *)
(* write by rename, which the edit completes.                              *)

Edit(w) ==
    /\ edits < MaxEdits
    /\ edits' = edits + 1
    /\ disk' = [disk EXCEPT ![w] = edits + 1]
    /\ UNCHANGED <<hups, watch, reloading, rl, objects, req, monitor, ending, missed, overlap>>

Vanish(w) ==
    /\ disk[w] # Missing /\ edits < MaxEdits
    /\ disk' = [disk EXCEPT ![w] = Missing]
    /\ UNCHANGED <<edits, hups, watch, reloading, rl, objects, req, monitor, ending, missed, overlap>>

(* Run: the baseline does not fire.                                        *)
Baseline(w) ==
    /\ Alive /\ watcher[w] = "start"
    /\ prev' = [prev EXCEPT ![w] = disk[w]]
    /\ watcher' = [watcher EXCEPT ![w] = "idle"]
    /\ missed' = IF disk[w] = 0 THEN missed ELSE missed \union {"baseline"}
    /\ UNCHANGED <<files, cur, reloading, rl, objects, req, monitor, ending, overlap>>

Changed(before, now) == now # Missing /\ now # before

Poll(w) ==
    /\ Alive /\ watcher[w] = "idle"
    /\ IF Changed(prev[w], disk[w])
         THEN /\ cur' = [cur EXCEPT ![w] = disk[w]]
              /\ watcher' = [watcher EXCEPT ![w] = "fires"]
              /\ rl' = [rl EXCEPT ![w] = [step |-> "enter"]]
              /\ UNCHANGED prev
         ELSE prev' = [prev EXCEPT ![w] = disk[w]] /\ UNCHANGED <<cur, watcher, rl>>
    /\ UNCHANGED <<files, reloading, objects, req, monitor, ending, missed, overlap>>

(* Seeded bug: the file is looked at again once the reload is over.        *)
PollReturnsLate(w) ==
    /\ Alive /\ watcher[w] = "fires" /\ Idle(w)
    /\ prev' = [prev EXCEPT ![w] = disk[w]]
    /\ watcher' = [watcher EXCEPT ![w] = "idle"]
    /\ UNCHANGED <<files, cur, reloading, rl, objects, req, monitor, ending, missed, overlap>>

(* OnChange has returned: the next poll compares with what this one saw.   *)
PollReturns(w) ==
    /\ Alive /\ watcher[w] = "fires" /\ Idle(w)
    /\ prev' = [prev EXCEPT ![w] = cur[w]]
    /\ cur' = [cur EXCEPT ![w] = Missing]
    /\ watcher' = [watcher EXCEPT ![w] = "idle"]
    /\ UNCHANGED <<files, reloading, rl, objects, req, monitor, ending, missed, overlap>>

WatcherEnds(w) ==
    /\ Alive /\ phase # "run" /\ watcher[w] = "idle"
    /\ watcher' = [watcher EXCEPT ![w] = "gone"]
    /\ UNCHANGED <<files, prev, cur, reloading, rl, objects, req, monitor, ending, missed, overlap>>

(* SIGHUP: go reload().  Signals after SIGTERM are no longer read.         *)
Hup ==
    /\ phase = "run" /\ hups < MaxHups /\ Idle("hup")
    /\ hups' = hups + 1
    /\ rl' = [rl EXCEPT !["hup"] = [step |-> "enter"]]
    /\ UNCHANGED <<disk, edits, watch, reloading, objects, req, monitor, ending, missed, overlap>>

-----------------------------------------------------------------------------
(* reload, by its caller a.                                                *)

Enter(a) ==
    /\ Alive /\ rl[a].step = "enter"
    /\ IF reloading
         THEN /\ rl' = [rl EXCEPT ![a] = NoReload]
              /\ missed' = missed \union {"dropped"}
              /\ UNCHANGED <<reloading, overlap>>
         ELSE /\ reloading' = TRUE
              /\ rl' = [rl EXCEPT ![a] = [step |-> "load"]]
              /\ overlap' = (overlap \/ phase # "run")
              /\ UNCHANGED missed
    /\ UNCHANGED <<files, watch, objects, req, monitor, ending>>

(* return: the deferred function clears the flag.                          *)
Return(a) ==
    /\ reloading' = FALSE
    /\ rl' = [rl EXCEPT ![a] = NoReload]

(* config.LoadConfigSources reads every source.                            *)
Load(a) ==
    /\ Alive /\ rl[a].step = "load" /\ AllThere(disk)
    /\ rl' = [rl EXCEPT ![a] = [step |-> "perf", cfg |-> disk]]
    /\ missed' = {}
    /\ UNCHANGED <<files, watch, reloading, objects, req, monitor, ending, overlap>>

(* A source is missing, or what they say together is not valid.            *)
LoadFails(a) ==
    /\ Alive /\ rl[a].step = "load"
    /\ Return(a)
    /\ missed' = {"failed"}
    /\ UNCHANGED <<files, watch, objects, req, monitor, ending, overlap>>

(* perfMon.UpdateConfig: Stop, then the new configuration and Start.       *)
UpdatePerf(a) ==
    /\ Alive /\ rl[a].step = "perf"
    /\ IF perf.exists /\ perf.conf # PerfOf(rl[a].cfg)
         THEN StopMonitor /\ rl' = [rl EXCEPT ![a].step = "start"]
         ELSE rl' = [rl EXCEPT ![a].step = "build"] /\ UNCHANGED <<perf, cancelled>>
    /\ UNCHANGED <<files, watch, reloading, objects, req, sampler, ending, missed, overlap>>

RestartPerf(a) ==
    /\ Alive /\ rl[a].step = "start"
    /\ Started(PerfOf(rl[a].cfg))
    /\ rl' = [rl EXCEPT ![a].step = "build"]
    /\ UNCHANGED <<files, watch, reloading, objects, req, cancelled, ending, missed, overlap>>

(* store.New or server.New fails: what was opened for it is closed again.  *)
BuildFails(a) ==
    /\ Alive /\ rl[a].step = "build"
    /\ missed' = missed \union {"failed"}
    /\ Return(a)
    /\ UNCHANGED <<files, watch, objects, req, monitor, ending, overlap>>

(* A new store when the path is another, a new server over the store, and  *)
(* the exchange of both under activeMu: nobody sees them before.           *)
Exchange(a) ==
    /\ Alive /\ rl[a].step = "build"
    /\ LET path == StorePath(rl[a].cfg)
           changes == path # active.path
           st == IF changes THEN Len(stores) + 1 ELSE active.store
       IN /\ stores' = IF changes THEN Append(stores, OpenStore(path, stores)) ELSE stores
          /\ servers' = Append(servers, NewServer(rl[a].cfg, st))
          /\ active' = [srv |-> Len(servers) + 1, store |-> st, path |-> path]
          /\ rl' = [rl EXCEPT ![a] = [step |-> "shutdown", changed |-> changes,
                                      srv |-> active.srv, store |-> active.store]]
    /\ UNCHANGED <<files, watch, reloading, req, monitor, ending, missed, overlap>>

(* Seeded bug: Shutdown takes a server whose streams were closed for one   *)
(* that is already shut.                                                   *)
ShutdownServerUnlessClosed(s) ==
    IF phase \in {"run", "closing"} THEN [servers EXCEPT ![s].shut = TRUE] ELSE servers

(* Server.Shutdown: both routers, once; the upstream processes stop.       *)
ShutdownServer(s) == [servers EXCEPT ![s].shut = TRUE]

ShutdownOld(a) ==
    /\ Alive /\ rl[a].step = "shutdown"
    /\ servers' = ShutdownServer(rl[a].srv)
    /\ rl' = [rl EXCEPT ![a].step = "close"]
    /\ UNCHANGED <<files, watch, reloading, stores, active, req, monitor, ending, missed, overlap>>

(* Seeded bug: the old store is closed though it is also the new one.      *)
CloseOldAlways(a) ==
    /\ Alive /\ rl[a].step = "close"
    /\ stores' = [stores EXCEPT ![rl[a].store].log = CloseStore(@)]
    /\ Return(a)
    /\ UNCHANGED <<files, watch, servers, active, req, monitor, ending, missed, overlap>>

CloseOld(a) ==
    /\ Alive /\ rl[a].step = "close"
    /\ stores' = IF rl[a].changed
                   THEN [stores EXCEPT ![rl[a].store].log = CloseStore(@)] ELSE stores
    /\ Return(a)
    /\ UNCHANGED <<files, watch, servers, active, req, monitor, ending, missed, overlap>>

-----------------------------------------------------------------------------
(* Requests.                                                               *)

(* The handler of httpServer reads activeSrv once.                         *)
Arrive(r) ==
    /\ phase \in {"run", "closing"} /\ req[r].step = "none"
    /\ req' = [req EXCEPT ![r] = [step |-> "serve", srv |-> active.srv, id |-> 0]]
    /\ UNCHANGED <<files, watch, reloading, rl, objects, monitor, ending, missed, overlap>>

Log(r) == stores[servers[req[r].srv].store].log

(* queueMetrics, in its two statements: a closed store records nothing.    *)
Insert(r) ==
    /\ Alive /\ req[r].step = "serve"
    /\ LET s == servers[req[r].srv].store
       IN IF Log(r).open
            THEN /\ stores' = [stores EXCEPT ![s].log = InsertActivity(@, [id |-> 0, req |-> r])]
                 /\ req' = [req EXCEPT ![r].step = IF Log(r).memory THEN "prune" ELSE "capture",
                                       ![r].id = Log(r).lastId + 1]
            ELSE req' = [req EXCEPT ![r] = [step |-> "done"]] /\ UNCHANGED stores
    /\ UNCHANGED <<files, watch, reloading, rl, servers, active, monitor, ending, missed, overlap>>

Prune(r) ==
    /\ Alive /\ req[r].step = "prune"
    /\ stores' = IF Log(r).open
                   THEN [stores EXCEPT ![servers[req[r].srv].store].log = PruneActivity(@, MaxRows)]
                   ELSE stores
    /\ req' = [req EXCEPT ![r].step = "capture"]
    /\ UNCHANGED <<files, watch, reloading, rl, servers, active, monitor, ending, missed, overlap>>

(* storeCapture, and the event that says whether there is one.             *)
Capture(r) ==
    /\ Alive /\ req[r].step = "capture"
    /\ servers' = [servers EXCEPT ![req[r].srv].captures = CacheAdd(@, req[r].id, CaptureSize[r])]
    /\ req' = [req EXCEPT ![r] = [step |-> "done"]]
    /\ UNCHANGED <<files, watch, reloading, rl, stores, active, monitor, ending, missed, overlap>>

-----------------------------------------------------------------------------
(* A sampler of the monitor: it waits for a tick or for the end of the     *)
(* context it read when its loop began.                                    *)

Tick(i) ==
    /\ Alive /\ sampler[i] # Off /\ sampler[i] # perf.ctx
    /\ sampler' = [sampler EXCEPT ![i] = perf.ctx]
    /\ UNCHANGED <<files, watch, reloading, rl, objects, req, perf, cancelled, ending, missed, overlap>>

SamplerEnds(i) ==
    /\ Alive /\ sampler[i] \in cancelled
    /\ sampler' = [sampler EXCEPT ![i] = Off]
    /\ UNCHANGED <<files, watch, reloading, rl, objects, req, perf, cancelled, ending, missed, overlap>>

-----------------------------------------------------------------------------
(* SIGTERM.                                                                *)

Term ==
    /\ phase = "run"
    /\ phase' = "closing"
    /\ term' = [srv |-> active.srv, store |-> active.store]
    /\ overlap' = reloading
    /\ UNCHANGED <<files, watch, reloading, rl, objects, req, monitor, missed>>

(* srv.CloseStreams, so that no event stream holds the drain up, then      *)
(* httpServer.Shutdown accepts no more.                                    *)
CloseStreams ==
    /\ phase = "closing"
    /\ phase' = "drain"
    /\ UNCHANGED <<files, watch, reloading, rl, objects, req, monitor, term, missed, overlap>>

(* The drain ends with the last request, or at the deadline; then          *)
(* srv.Shutdown with what is left of the time.                             *)
ShutdownActive ==
    /\ phase = "drain"
    /\ phase' = "stopped"
    /\ servers' = ShutdownServer(term.srv)
    /\ UNCHANGED <<files, watch, reloading, rl, stores, active, req, monitor, term, missed, overlap>>

(* perfMon.Stop, st.Close and the end of the process.                      *)
Exit ==
    /\ phase = "stopped"
    /\ phase' = "exited"
    /\ StopMonitor
    /\ stores' = [stores EXCEPT ![term.store].log = CloseStore(@)]
    /\ UNCHANGED <<files, watch, reloading, rl, servers, active, req, sampler, term, missed, overlap>>

-----------------------------------------------------------------------------
Reload(a) ==
    \/ Enter(a) \/ Load(a) \/ LoadFails(a) \/ UpdatePerf(a) \/ RestartPerf(a)
    \/ BuildFails(a) \/ Exchange(a) \/ ShutdownOld(a) \/ CloseOld(a)

Watch(w) == Baseline(w) \/ Poll(w) \/ PollReturns(w) \/ WatcherEnds(w)

Serve(r) == Arrive(r) \/ Insert(r) \/ Prune(r) \/ Capture(r)

Shutdown == Term \/ CloseStreams \/ ShutdownActive \/ Exit

Next ==
    \/ \E w \in Sources : Edit(w) \/ Vanish(w) \/ Watch(w)
    \/ Hup
    \/ \E a \in Reloaders : Reload(a)
    \/ \E r \in Requests : Serve(r)
    \/ \E i \in DOMAIN sampler : Tick(i) \/ SamplerEnds(i)
    \/ Shutdown

Spec == Init /\ [][Next]_vars

-----------------------------------------------------------------------------
(* Properties.                                                             *)

AtRest ==
    /\ \A w \in Sources : watcher[w] = "idle" /\ prev[w] = disk[w]
    /\ \A a \in Reloaders : Idle(a)

(* Once every watcher has seen what is on disk and no reload is under way, *)
(* the active server runs exactly that, unless the code is known to have   *)
(* let a change go: an edit before the first poll (watcher.go:41), a call  *)
(* of reload while another runs (llama-swap.go:176), a configuration that  *)
(* could not be read or built.                                             *)
WatcherSeesLast ==
    (Alive /\ AtRest /\ missed = {} /\ AllThere(disk)) => servers[active.srv].cfg = disk

(* The same without the exceptions: what "reload as soon as the file comes *)
(* back" (watcher.go:75) leads one to expect, and the code does not do.    *)
DiskIsActive ==
    (phase = "run" /\ AtRest /\ AllThere(disk)) => servers[active.srv].cfg = disk

(* Until the shutdown closes it the store of the active server is open, so *)
(* no request that reaches the active server goes unrecorded               *)
(* (llama-swap.go:229 closes the old store only if the new one is another).*)
ActiveStoreOpen ==
    Alive => /\ stores[active.store].log.open
             /\ servers[active.srv].store = active.store

(* A capture is found under the id of a row: it is the capture of the      *)
(* request that row describes, across reloads and changes of the store,    *)
(* whose ids may start again (metrics.go:98 overlays the two by id alone). *)
CaptureMatchesRow ==
    \A s \in DOMAIN servers : \A row \in stores[servers[s].store].log.rows :
        row.id \in DOMAIN servers[s].captures.items
            => servers[s].captures.items[row.id] = CaptureSize[row.req]

(* After an exit that no reload overlapped nothing is left behind: every   *)
(* server that was ever made is shut down and so are its upstream          *)
(* processes, and every store is closed (llama-swap.go:226-233, 331-372). *)
ExitCleansUp ==
    (phase = "exited" /\ ~overlap) =>
        /\ \A s \in DOMAIN servers : servers[s].shut
        /\ \A i \in DOMAIN stores : ~stores[i].log.open

(* The same for every exit: a reload that overlaps the signal exchanges    *)
(* the server the shutdown has read, and the new one is shut by nobody.    *)
EveryExitCleansUp == phase = "exited" => \A s \in DOMAIN servers : servers[s].shut

(* A row leaves the store in memory only for newer ones: what is kept are  *)
(* the newest rows, and at least MaxRows of them once there were as many   *)
(* (store.go: PruneActivity, called after each insert, metrics.go:77).     *)
NewestKept ==
    \A i \in DOMAIN stores :
        LET log == stores[i].log
        IN \A id \in 1 .. log.lastId :
               (\E row \in log.rows : row.id = id) \/ log.lastId - id >= MaxRows

(* No sampler outlives a monitor that is stopped: each waits on a context  *)
(* that is cancelled, also the one that read m.stopCtx anew between the    *)
(* Stop and the Start of an update (monitor.go:128).                       *)
NoSamplerLeft ==
    ~perf.running => \A i \in DOMAIN sampler : sampler[i] \in cancelled \union {Off}

(* One sampler at a time: not kept, a sampler may tick between Stop and    *)
(* Start and then wait on the new context.                                 *)
OneSampler ==
    Cardinality({i \in DOMAIN sampler : sampler[i] = perf.ctx /\ perf.running}) <= 1

=============================================================================
