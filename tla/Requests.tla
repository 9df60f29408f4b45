------------------------------ MODULE Requests ------------------------------
(***************************************************************************)
(* From the configuration to the router: what the middleware of the server *)
(* (internal/server: auth, profiles, selectors, filters, dispatch, and     *)
(* internal/shared/http.go) makes of a request, and the peer router        *)
(* (internal/router/peer.go).                                              *)
(*                                                                         *)
(* A request reads the active profile once, the running models once, and   *)
(* only the reservations of a spillover selector are shared and locked.    *)
(* A path is a sequence of segments, a body a function of its parameters.  *)
(***************************************************************************)
EXTENDS ConfigRules

CONSTANTS
    Requests,           \* The requests; each is made once.
    RawConfigs,         \* The configurations a server may be started with.
    Messages,           \* The messages clients send.
    SegmentsOf          \* The names that are asked for, as segments of a path.

ASSUME RequestsFinite == IsFiniteSet(Requests)

(* What is read of a configuration and of a message is there; models are   *)
(* finitely many, and none has the name that stands for no model; targets  *)
(* are a list of names.                                                    *)
ASSUME RawConfigsTyped ==
    \A raw \in RawConfigs :
        /\ {"models", "aliases", "peers", "selectors", "profiles"} \subseteq DOMAIN raw
        /\ IsFiniteSet(DOMAIN raw.models) /\ Absent \notin DOMAIN raw.models
        /\ \A id \in DOMAIN raw.models : "aliases" \in DOMAIN raw.models[id]
        /\ \A s \in DOMAIN raw.selectors : raw.selectors[s].targets \in Seq(STRING)

ASSUME MessagesTyped ==
    \A msg \in Messages :
        {"upstream", "path", "kind", "readable", "rewritable", "body"} \subseteq DOMAIN msg

VARIABLES
    config,             \* Server.cfg: what was loaded, Rejected for a refused one.
    active,             \* Server.activeProfile
    running,            \* The processes: model -> state.
    counts,             \* selectorSpilloverState.inflight: selector -> target -> number.
    rr,                 \* selectorSpilloverState.rr
    req                 \* Requests -> [pc, msg, selector, target, seen, dest, code]

reqVars == <<config, active, running, counts, rr, req>>

(* A process; "shutdown" is the last state of one whose server takes no     *)
(* more requests, and is as good as "stopped".                             *)
States == {"stopped", "starting", "ready", "stopping"}

-----------------------------------------------------------------------------
(* Reading and rewriting a message (shared/http.go).                       *)

(* ExtractAPIKey: the Authorization header before x-api-key.               *)
ExtractAPIKey(msg) ==
    IF msg.scheme \in {"basic", "bearer"} /\ msg.key # "" THEN msg.key ELSE msg.xkey

Authorized(c, msg) == c.apiKeys = {} \/ ExtractAPIKey(msg) \in c.apiKeys

(* ExtractModel: no name for a form that cannot be parsed.                 *)
ExtractModel(msg) ==
    IF msg.readable /\ "model" \in DOMAIN msg.body THEN msg.body["model"] ELSE ""

(* FindModelInPath: the longest run of segments that names a model.        *)
NamesInPath(c, path) ==
    {name \in DOMAIN SegmentsOf : /\ IsPrefix(SegmentsOf[name], path)
                                  /\ ResolveBaseModel(c, name) # Absent}

FindModelInPath(c, path) ==
    LET names == NamesInPath(c, path)
        longest == CHOOSE n \in names : \A m \in names : Len(SegmentsOf[m]) <= Len(SegmentsOf[n])
    IN IF names = {} THEN <<>>
       ELSE <<[name |-> longest, modelID |-> ResolveBaseModel(c, longest),
               remaining |-> SubSeq(path, Len(SegmentsOf[longest]) + 1, Len(path))]>>

(* ReplaceRequestModel: in the path, or in the body when that names it;    *)
(* <<>> when the form cannot be built again.                               *)
ReplaceRequestModel(msg, model, replacement) ==
    IF msg.upstream
      THEN IF ~IsPrefix(SegmentsOf[model], msg.path) THEN <<msg>>
           ELSE <<[msg EXCEPT !.path =
                     IF replacement = "" THEN <<>>
                     ELSE SegmentsOf[replacement] \o SubSeq(@, Len(SegmentsOf[model]) + 1, Len(@))]>>
      ELSE IF ExtractModel(msg) # model THEN <<msg>>
      ELSE IF ~msg.rewritable THEN <<>>
      ELSE <<[msg EXCEPT !.body = [@ EXCEPT !["model"] = replacement]]>>

(* FetchContext for a message with a model in it.                          *)
FetchContext(c, model) ==
    [model |-> model,
     modelID |-> IF RealModelName(c, model) = Absent THEN model ELSE RealModelName(c, model)]

-----------------------------------------------------------------------------
(* Profiles (server/profiles.go).                                          *)

Pins(c, profile) == IF profile \in DOMAIN c.profiles THEN c.profiles[profile] ELSE <<>>

(* upstreamProfilePin: the longest pin the path starts with.               *)
PinOf(c, profile, msg) ==
    LET pins == Pins(c, profile)
        inPath == {pin \in DOMAIN pins : IsPrefix(SegmentsOf[pin], msg.path)}
        longest == CHOOSE p \in inPath : \A o \in inPath : Len(SegmentsOf[o]) <= Len(SegmentsOf[p])
        model == ExtractModel(msg)
    IN IF msg.upstream THEN IF inPath = {} THEN "" ELSE longest
       ELSE IF model \in DOMAIN pins THEN model ELSE ""

(* CreateProfileMiddleware                                                 *)
WithProfile(c, profile, msg) ==
    LET pin == PinOf(c, profile, msg)
    IN IF pin = "" THEN <<msg>>
       ELSE ReplaceRequestModel(msg, pin, Pins(c, profile)[pin])

-----------------------------------------------------------------------------
(* Selectors (server/selector.go).                                         *)

(* RunningModels leaves out what is stopped.                               *)
RunningModels == [m \in {n \in DOMAIN running : running[n] # "stopped"} |-> running[m]]

StrategyWarm(c, selector, snapshot) ==
    LET targets == c.selectors[selector].targets
        In(state) == SelectSeq(targets, LAMBDA t : /\ RealModelName(c, t) \in DOMAIN snapshot
                                                   /\ snapshot[RealModelName(c, t)] = state)
    IN Head(In("ready") \o In("starting") \o targets)

Local(c, target) == RealModelName(c, target) # Absent

(* Seeded bug: a local target is in use only when it was seen to run.      *)
ActiveIfRunning(c, target, snapshot, inflight) ==
    LET model == SpilloverName(c, target)
    IN IF Local(c, target) THEN model \in DOMAIN snapshot /\ snapshot[model] \in {"ready", "starting"}
       ELSE inflight[model] > 0

(* The targets in use, those to be started, and (neither) those that stop. *)
ActiveTarget(c, target, snapshot, inflight) ==
    LET model == SpilloverName(c, target)
        seen == Local(c, target) /\ model \in DOMAIN snapshot
    IN /\ ~(seen /\ snapshot[model] = "stopping")
       /\ (seen /\ snapshot[model] \in {"ready", "starting"}) \/ inflight[model] > 0

ColdTarget(c, target, snapshot, inflight) ==
    LET model == SpilloverName(c, target)
    IN ~(Local(c, target) /\ model \in DOMAIN snapshot) /\ inflight[model] = 0

(* The place in S that n of its places are before.                         *)
Nth(S, n) == CHOOSE i \in S : Cardinality({j \in S : j < i}) = n

(* strategySpillover under the lock: the target and whether the turn of    *)
(* the equals goes on; <<>> when every target stops.                       *)
StrategySpillover(c, selector, snapshot, inflight, turn) ==
    LET targets == c.selectors[selector].targets
        inUse == {i \in DOMAIN targets : ActiveTarget(c, targets[i], snapshot, inflight)}
        cold == {i \in DOMAIN targets : ColdTarget(c, targets[i], snapshot, inflight)}
        Sent(i) == inflight[SpilloverName(c, targets[i])]
        tied == {i \in inUse : \A j \in inUse : Sent(i) <= Sent(j)}
        full == \A i \in inUse : Sent(i) >= c.selectors[selector].spillover
        leastBusy == Nth(tied, turn % Cardinality(tied))
    IN IF cold # {} /\ full THEN <<[target |-> targets[Nth(cold, 0)], turn |-> turn]>>
       ELSE IF inUse = {} THEN <<>>
       ELSE <<[target |-> targets[leastBusy], turn |-> turn + 1]>>

-----------------------------------------------------------------------------
(* Filters (server/filters.go, config/filters.go).                         *)

Protected == {"model"}

(* Seeded bug: a parameter that is set may be the model.                   *)
OverriddenUnprotected(body, params) == Over(params, body)

Overridden(body, params) ==
    Over([p \in DOMAIN params \ Protected |-> params[p]], body)

(* applyFilters: the name, what is removed, what is set, what is set for   *)
(* the name that was asked for.                                            *)
ApplyFilters(body, requested, useModelName, f) ==
    LET named == IF useModelName = "" THEN body ELSE Over([model |-> useModelName], body)
        kept == [p \in DOMAIN named \ (f.strip \ Protected) |-> named[p]]
        byID == IF requested \in DOMAIN f.byID THEN f.byID[requested] ELSE <<>>
    IN Overridden(Overridden(kept, f.set), byID)

(* resolveFilters and both filter middlewares.                             *)
Filtered(c, ctx, msg) ==
    LET real == RealModelName(c, ctx.model)
        peer == ResolvePeerModel(c, ctx.model)
        useModelName == IF real # Absent THEN c.models[real].useModelName ELSE ""
    IN CASE msg.kind = "json" /\ real # Absent ->
               <<[msg EXCEPT !.body = ApplyFilters(@, ctx.model, useModelName, c.models[real])]>>
         [] msg.kind = "json" /\ real = Absent /\ peer # <<>> ->
               <<[msg EXCEPT !.body = ApplyFilters(@, ctx.model, "", c.peers[peer[1]])]>>
         [] msg.kind = "multipart" /\ useModelName # "" ->
               ReplaceRequestModel(msg, ctx.model, useModelName)
         [] OTHER -> <<msg>>

-----------------------------------------------------------------------------
(* Dispatch (server/server.go, router/peer.go).                            *)

(* baseRouter.Handles: a process for every member of a group, or for every *)
(* model of the matrix.                                                    *)
LocalHandles(c, modelID) ==
    modelID \in IF c.router = "group" THEN UNION {ToSet(c.groups[g].members) : g \in DOMAIN c.groups}
                ELSE DOMAIN c.models

Answer(code) == [dest |-> <<>>, body |-> <<>>, code |-> code]

(* localPeerHandler, and Peer.ServeHTTP with the peer's own model name.    *)
Dispatch(c, ctx, msg) ==
    LET route == ResolvePeerModel(c, ctx.modelID)
        named == IF ctx.model = route[2] THEN <<msg>> ELSE ReplaceRequestModel(msg, ctx.model, route[2])
    IN IF LocalHandles(c, ctx.modelID)
         THEN [dest |-> <<"local", ctx.modelID>>, body |-> msg.body, code |-> 0]
       ELSE IF route = <<>> THEN Answer(404)
       ELSE IF named = <<>> THEN Answer(400)
       ELSE [dest |-> <<"peer", route[1], route[2]>>, body |-> named[1].body, code |-> 0]

(* The chain after the selector; the context holds the model as it was     *)
(* asked for, whatever the filters write.                                  *)
Forwarded(c, msg) ==
    LET ctx == FetchContext(c, ExtractModel(msg))
        filtered == Filtered(c, ctx, msg)
    IN IF ctx.model = "" THEN Answer(404)
       ELSE IF filtered = <<>> THEN Answer(400)
       ELSE Dispatch(c, ctx, filtered[1])

(* handleUpstream, with the models that run when it asks.                  *)
Upstream(c, msg, snapshot) ==
    LET found == FindModelInPath(c, msg.path)
        modelID == found[1].modelID
        here == [msg EXCEPT !.upstream = FALSE, !.path = found[1].remaining]
        Ready == modelID \in DOMAIN snapshot /\ snapshot[modelID] = "ready"
    IN IF found = <<>> THEN Answer(404)
       ELSE IF found[1].remaining = <<>> /\ ~msg.slash THEN Answer(308)
       ELSE IF /\ ToSet(found[1].remaining) \intersect c.ignorePaths # {}
               /\ LocalHandles(c, modelID) /\ ~Ready
         THEN Answer(409)
       ELSE Dispatch(c, [model |-> found[1].name, modelID |-> modelID], here)

-----------------------------------------------------------------------------
(* The listing of models (handleListModels).                               *)

(* Pins that are listed are those that shadow nothing and lead somewhere.  *)
ListedModels(c, profile) ==
    LET shown == {m \in DOMAIN c.models : ~c.models[m].unlisted}
        aliases == IF c.includeAliases THEN UNION {c.models[m].aliases : m \in shown} ELSE {}
        qualified == {PeerModelFQN(t[1], t[2]) : t \in PeerTargets(c)}
        bare == {t[2] : t \in {u \in PeerTargets(c) : ResolvePeerModel(c, u[2]) = u}}
        known == DOMAIN c.models \union UNION {c.models[m].aliases : m \in DOMAIN c.models}
                 \union qualified \union bare \union DOMAIN c.selectors
        pins == Pins(c, profile)
    IN shown \union aliases \union qualified
       \union {s \in DOMAIN c.selectors : ~c.selectors[s].unlisted}
       \union {pin \in DOMAIN pins \ known : pins[pin] # ""}

-----------------------------------------------------------------------------
(* The steps of a request.                                                 *)

Idle == [pc |-> "idle", msg |-> <<>>, selector |-> "", target |-> "", seen |-> <<>>,
         dest |-> <<>>, body |-> <<>>, code |-> 0]

Spillovers(c) == {s \in DOMAIN c.selectors : c.selectors[s].strategy = "spillover"}

NoReservations(c) ==
    [s \in Spillovers(c) |->
        [t \in {SpilloverName(c, u) : u \in ToSet(c.selectors[s].targets)} |-> 0]]

Serve(raw) ==
    /\ config = Load(raw)
    /\ active = ""
    /\ running = IF config.ok THEN [m \in DOMAIN config.models |-> "stopped"] ELSE <<>>
    /\ counts = IF config.ok THEN NoReservations(config) ELSE <<>>
    /\ rr = IF config.ok THEN [s \in Spillovers(config) |-> 0] ELSE <<>>
    /\ req = [q \in Requests |-> Idle]

(* A request that a handler answers or a router gets.                      *)
Outcome(q, msg, result) ==
    req' = [req EXCEPT ![q] =
              [@ EXCEPT !.msg = msg, !.dest = result.dest, !.body = result.body, !.code = result.code,
                        !.pc = IF result.dest = <<>> THEN "answered" ELSE "serving"]]

(* CreateAuthMiddleware, CreateProfileMiddleware.                          *)
Arrive(q, msg) ==
    LET pinned == WithProfile(config, active, msg)
    IN /\ req[q].pc = "idle"
       /\ IF ~Authorized(config, msg) THEN Outcome(q, msg, Answer(401))
          ELSE IF pinned = <<>> THEN Outcome(q, msg, Answer(400))
          ELSE req' = [req EXCEPT ![q] = [@ EXCEPT !.msg = pinned[1], !.pc = "pinned"]]
       /\ UNCHANGED <<config, active, running, counts, rr>>

(* A path under /upstream/, which selectors do not see.                    *)
ServeUpstream(q) ==
    /\ req[q].pc = "pinned" /\ req[q].msg.upstream
    /\ Outcome(q, req[q].msg, Upstream(config, req[q].msg, RunningModels))
    /\ UNCHANGED <<config, active, running, counts, rr>>

(* CreateSelectorMiddleware for every model but those of a spillover       *)
(* selector: one that is not a selector's goes on as it is.                *)
SelectNow(q) ==
    LET msg == req[q].msg
        model == ExtractModel(msg)
        s == config.selectors[model]
        target == IF s.strategy = "pin" THEN Head(s.targets)
                  ELSE StrategyWarm(config, model, RunningModels)
        updated == IF model \in DOMAIN config.selectors THEN ReplaceRequestModel(msg, model, target)
                   ELSE <<msg>>
    IN /\ req[q].pc = "pinned" /\ ~msg.upstream /\ model \notin Spillovers(config)
       /\ IF updated = <<>> THEN Outcome(q, msg, Answer(400))
          ELSE Outcome(q, updated[1], Forwarded(config, updated[1]))
       /\ UNCHANGED <<config, active, running, counts, rr>>

(* A spillover selector: the running models are read before the lock.      *)
Look(q) ==
    LET model == ExtractModel(req[q].msg)
    IN /\ req[q].pc = "pinned" /\ ~req[q].msg.upstream /\ model \in Spillovers(config)
       /\ req' = [req EXCEPT ![q] = [@ EXCEPT !.pc = "looked", !.selector = model, !.seen = RunningModels]]
       /\ UNCHANGED <<config, active, running, counts, rr>>

(* One request more for a target, and one less, never below none.          *)
OneMore(row, name) == [row EXCEPT ![name] = @ + 1]
OneLess(row, name) == [row EXCEPT ![name] = AtLeast(@ - 1, 0)]

Reserve(q) ==
    LET s == req[q].selector
    IN /\ req[q].pc = "looked"
       /\ \E choice \in {StrategySpillover(config, s, req[q].seen, counts[s], rr[s])} :
            IF choice = <<>>
            THEN /\ Outcome(q, req[q].msg, Answer(503))
                 /\ UNCHANGED <<counts, rr>>
            ELSE LET target == choice[1].target
                 IN /\ req' = [req EXCEPT ![q] = [@ EXCEPT !.pc = "reserved", !.target = target]]
                    /\ counts' = [counts EXCEPT ![s] = OneMore(@, SpilloverName(config, target))]
                    /\ rr' = [rr EXCEPT ![s] = choice[1].turn]
       /\ UNCHANGED <<config, active, running>>

(* selectorSpilloverTracker.release, for a selector that has a tracker.    *)
GiveBack(selector, target) ==
    counts' = IF selector \notin DOMAIN counts THEN counts
              ELSE [counts EXCEPT ![selector] = OneLess(@, SpilloverName(config, target))]

(* Seeded bug: a rewrite that fails keeps its reservation.                 *)
ReleaseServed(q) ==
    IF req[q].pc # "serving" THEN UNCHANGED counts ELSE GiveBack(req[q].selector, req[q].target)

(* Deferred, and after a rewrite that failed, for what was reserved.       *)
Release(q) == GiveBack(req[q].selector, req[q].target)

Forward(q) ==
    LET msg == req[q].msg
        updated == ReplaceRequestModel(msg, ExtractModel(msg), req[q].target)
        result == IF updated = <<>> THEN Answer(400) ELSE Forwarded(config, updated[1])
    IN /\ req[q].pc = "reserved"
       /\ Outcome(q, IF updated = <<>> THEN msg ELSE updated[1], result)
       /\ IF result.dest = <<>> THEN Release(q) ELSE UNCHANGED counts
       /\ UNCHANGED <<config, active, running, rr>>

(* The response ends: the deferred release runs.                           *)
Finish(q) ==
    /\ req[q].pc = "serving"
    /\ req' = [req EXCEPT ![q] = [@ EXCEPT !.pc = "answered", !.code = 200]]
    /\ Release(q)
    /\ UNCHANGED <<config, active, running, rr>>

(* PUT /api/profiles/active with a name that exists, or with none.         *)
SetActiveProfile(name) ==
    /\ name \in DOMAIN config.profiles \union {""}
    /\ name # active
    /\ active' = name
    /\ UNCHANGED <<config, running, counts, rr, req>>

(* A process changes its state whenever it likes.                          *)
ProcessMoves(m, state) ==
    /\ state # running[m]
    /\ running' = [running EXCEPT ![m] = state]
    /\ UNCHANGED <<config, active, counts, rr, req>>

RequestNext ==
    /\ config.ok
    /\ \/ \E q \in Requests :
            \/ \E msg \in Messages : Arrive(q, msg)
            \/ ServeUpstream(q) \/ SelectNow(q) \/ Look(q) \/ Reserve(q) \/ Forward(q) \/ Finish(q)
       \/ \E name \in DOMAIN config.profiles \union {""} : SetActiveProfile(name)
       \/ \E m \in DOMAIN running, state \in States : ProcessMoves(m, state)

RequestInit == \E raw \in RawConfigs : Serve(raw)

RequestSpec == RequestInit /\ [][RequestNext]_reqVars

-----------------------------------------------------------------------------
(* Properties.                                                             *)

(* The reservations of a spillover selector are those of the requests it   *)
(* sent that have not ended, whatever became of them                       *)
(* (selectorSpilloverTracker.release).                                     *)
SpilloverExact ==
    \A s \in DOMAIN counts : \A t \in DOMAIN counts[s] :
        counts[s][t] =
            Cardinality({q \in Requests :
                /\ req[q].pc \in {"reserved", "serving"} /\ req[q].selector = s
                /\ SpilloverName(config, req[q].target) = t})

(* Two requests of one selector never start two targets when one would     *)
(* do: a target nobody uses gets a request only when every target in use   *)
(* has its fill, however late the running models were read                 *)
(* (strategySpillover counts what it has sent itself).                     *)
SpilloverFills ==
    [][\A q \in Requests : req[q].pc = "looked" /\ req'[q].pc = "reserved" =>
         LET s == req[q].selector
             picked == SpilloverName(config, req'[q].target)
             Seen(t) == IF t \in DOMAIN req[q].seen THEN req[q].seen[t] ELSE "stopped"
         IN counts[s][picked] = 0 /\ Seen(picked) = "stopped" =>
              \A t \in DOMAIN counts[s] :
                 counts[s][t] > 0 /\ Seen(t) # "stopping" =>
                     counts[s][t] >= config.selectors[s].spillover]_reqVars

(* Every name that is listed can be asked for: whatever the active profile *)
(* and whichever target a selector picks, a router takes the request,      *)
(* unless the profile disables the name (validateSelectors,                *)
(* validateProfiles, and handleListModels).  No request has a part in it,  *)
(* so it is asked before the first one.                                    *)
ListedIsRouted ==
    config.ok /\ (\A q \in Requests : req[q].pc = "idle") =>
        \A name \in ListedModels(config, active) :
            LET pinned == IF name \in DOMAIN Pins(config, active) THEN Pins(config, active)[name] ELSE name
                targets == IF pinned \in DOMAIN config.selectors
                             THEN ToSet(config.selectors[pinned].targets) ELSE {pinned}
            IN pinned # "" => \A t \in targets :
                 Dispatch(config, FetchContext(config, t),
                          [upstream |-> FALSE, readable |-> TRUE, rewritable |-> TRUE,
                           body |-> [model |-> t]]).dest # <<>>

(* What is sent upstream names the model as the one that gets it knows it: *)
(* the name of useModelName, or the peer's own name for it, whatever the   *)
(* pin, the selector, the alias and the filters made of it                 *)
(* (applyFilters, Peer.ServeHTTP).                                         *)
UpstreamNamed ==
    \A q \in Requests :
        LET dest == req[q].dest
        IN dest # <<>> /\ req[q].msg.kind = "json" /\ ~req[q].msg.upstream =>
             IF dest[1] = "peer" THEN req[q].body["model"] = dest[3]
             ELSE config.models[dest[2]].useModelName # "" =>
                    req[q].body["model"] = config.models[dest[2]].useModelName

=============================================================================
