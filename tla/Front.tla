-------------------------------- MODULE Front --------------------------------
(***************************************************************************)
(* What the program computes around the routers, one task at a time: the   *)
(* sources of a configuration are merged, its macros are expanded, the     *)
(* matrix chooses what to evict, the log is written and read, and a server *)
(* with a loaded configuration takes requests (module Requests).           *)
(***************************************************************************)
EXTENDS Requests, SetLanguage, ConfigText, ActivityLog

CONSTANTS
    SourceLists,        \* What -config and -config-dir name: records of two sequences of files.
    Env,                \* The environment variables that are set, with their values.
    MacroConfigs,       \* Configurations with macros, and the order of their models.
    Matrices,           \* Compiled matrices, with their models and costs.
    Responses,          \* What a model answers, with the route it came by.
    MaxRecords          \* Bound: how many responses are recorded.

VARIABLES task, data

vars == <<task, data, reqVars>>

NoServer ==
    /\ config = Rejected /\ active = "" /\ running = <<>> /\ counts = <<>> /\ rr = <<>>
    /\ req = [q \in Requests |-> Idle]

-----------------------------------------------------------------------------
(* The matrix swapper: what runs, and the last decision.                   *)

SwapTo(target) ==
    LET decided == CachedSolve(data.cache, data.in.program, data.in.costs, target, data.running)
    IN /\ target \notin data.running
       /\ data' = [data EXCEPT !.cache = decided,
                               !.running = (@ \ decided.result.evict) \union {target}]

ModelExits(m) == data' = [data EXCEPT !.running = @ \ {m}]

-----------------------------------------------------------------------------
(* The log: a response becomes a row.                                      *)

RowOf(resp) ==
    LET recorded == RecordOf(resp, resp.route)
    IN [id |-> 0, model |-> resp.model, error |-> recorded.error, speed |-> resp.speed,
        input |-> recorded.tokens.input, output |-> recorded.tokens.output,
        cached |-> recorded.tokens.cached]

Record(resp) ==
    /\ data.store.lastId < MaxRecords
    /\ data' = [data EXCEPT !.store = InsertActivity(@, RowOf(resp))]

Prune(maxRows) ==
    /\ data.store.lastId = MaxRecords
    /\ data' = [data EXCEPT !.store = PruneActivity(@, maxRows)]

-----------------------------------------------------------------------------
Init ==
    \/ /\ task = "serve" /\ data = <<>>
       /\ RequestInit
    \/ /\ task = "merge" /\ NoServer
       /\ \E sources \in SourceLists : data = [in |-> sources, out |-> Null]
    \/ /\ task = "macros" /\ NoServer
       /\ \E m \in MacroConfigs : data = [in |-> m, out |-> [ok |-> FALSE]]
    \/ /\ task = "sets" /\ NoServer
       /\ \E m \in Matrices : data = [in |-> m, running |-> {}, cache |-> NoDecision]
    \/ /\ task = "log" /\ NoServer
       /\ data = [store |-> NewStore(TRUE)]

Merge ==
    /\ task = "merge" /\ data.out = Null
    /\ data' = [data EXCEPT !.out = LoadConfigSources(data.in.named, data.in.dir, Env)]

Expand ==
    /\ task = "macros" /\ ~data.out.ok
    /\ data' = [data EXCEPT !.out = ResolveConfigMacros(data.in.raw, data.in.order)]

Swap ==
    /\ task = "sets"
    /\ \E m \in data.in.models : SwapTo(m) \/ ModelExits(m)

Log ==
    /\ task = "log"
    /\ (\E resp \in Responses : Record(resp)) \/ (\E n \in 1 .. MaxRecords : Prune(n))

Next ==
    /\ UNCHANGED task
    /\ \/ task = "serve" /\ RequestNext /\ UNCHANGED data
       \/ (Merge \/ Expand \/ Swap \/ Log) /\ UNCHANGED reqVars

Spec == Init /\ [][Next]_vars

-----------------------------------------------------------------------------
(* Merging.                                                                *)

RECURSIVE PathsOf(_, _)
PathsOf(v, path) ==
    IF v.kind = "map" THEN UNION {PathsOf(v.entries[k], Append(path, k)) : k \in DOMAIN v.entries}
    ELSE {path}

(* The value at a path, Null when there is none.                           *)
RECURSIVE At(_, _)
At(v, path) ==
    IF path = <<>> THEN v
    ELSE IF v.kind # "map" THEN Null
    ELSE IF Head(path) \notin DOMAIN v.entries THEN Null
    ELSE At(v.entries[Head(path)], Tail(path))

(* A merge that succeeds keeps what every source says: a setting that      *)
(* several give is the same in all of them, lists are put one after the    *)
(* other, and nothing comes from nowhere; and whether it succeeds does not *)
(* depend on the order of the sources (mergeNodes).                        *)
MergeKeepsAll ==
    task = "merge" /\ data.out # Null =>
        LET files == data.in.named \o data.in.dir
            parsed == [i \in DOMAIN files |-> ParseSource(files[i].doc, Env)]
            sources == SelectSeq(parsed, LAMBDA s : s # Null)
            paths == UNION {PathsOf(s, <<>>) : s \in ToSet(sources) \union {data.out}}
            Given(path) == SelectSeq([i \in DOMAIN sources |-> At(sources[i], path)],
                                     LAMBDA v : v # Null)
        IN /\ (data.out = Conflict) =
                  \/ MergeSources(Reverse(parsed)) = Conflict
                  \/ ~IsInjective([i \in DOMAIN files |-> files[i].path]) \/ files = <<>>
           /\ data.out # Conflict => \A path \in paths :
                LET given == Given(path)
                IN \/ given = <<>> /\ At(data.out, path) = Null
                   \/ /\ given # <<>>
                      /\ \/ \A i \in DOMAIN given : At(data.out, path) = given[i]
                         \/ At(data.out, path).kind = "map"
                         \/ /\ \A i \in DOMAIN given : given[i].kind = "seq"
                            /\ At(data.out, path) =
                                 Items(FlattenSeq([i \in DOMAIN given |-> given[i].items]))

-----------------------------------------------------------------------------
(* Macros.                                                                 *)

(* A text with its macros written out, each with those before it.          *)
RECURSIVE Written(_, _, _)
Written(parts, macros, n) ==
    FlattenSeq([i \in DOMAIN parts |->
        LET defined == {j \in 1 .. n : parts[i] = Use(macros[j].name)}
        IN IF defined = {} THEN <<parts[i]>>
           ELSE LET j == CHOOSE k \in defined : TRUE
                IN Written(Shown(macros[j].value), macros, j - 1)])

(* A configuration that loads has every macro written out with the ones    *)
(* declared before it, the model's own in the place of the global ones,    *)
(* and a port of its own for each model that asks for one                  *)
(* (substituteMacroList, resolveConfigMacros).                             *)
MacrosExpand ==
    task = "macros" /\ data.out.ok =>
        LET models == data.out.models
            raw == data.in.raw
            Macros(id) == MergeModelMacros(id, raw.macros, raw.models[id].macros)
            Port(id) == <<[name |-> "PORT", value |-> Number(models[id].port)]>>
            Cmd(id) == StripComments(raw.models[id].fields["cmd"]).parts
            Asks(id) == models[id].port # 0
        IN /\ \A id \in DOMAIN models :
                /\ Shown(models[id].fields.entries["cmd"]) =
                     Written(Written(Cmd(id), Macros(id), Len(Macros(id))), Port(id), 1)
                /\ Unresolved(models[id].fields.entries["cmd"]) = {}
           /\ \A id, other \in DOMAIN models :
                Asks(id) /\ Asks(other) /\ id # other => models[id].port # models[other].port

-----------------------------------------------------------------------------
(* The matrix.                                                             *)

(* Every set of models an expression allows, written out in full.          *)
RECURSIVE Expansion(_, _)
Expansion(program, node) ==
    CASE node.kind = "leaf" -> {{node.name}}
      [] node.kind = "ref" -> Expansion(program, program.roots[node.name])
      [] node.kind = "or" -> UNION {Expansion(program, node.children[i]) : i \in DOMAIN node.children}
      [] node.kind = "and" ->
             FoldLeft(LAMBDA all, child :
                        {s \union t : s \in all, t \in Expansion(program, child)},
                      {{}}, node.children)

(* The decision of a swap is one that the full expansion of the sets       *)
(* allows, and none that it allows costs less; what runs is evicted        *)
(* altogether only when no set has the target (Program.Solve, which never  *)
(* expands them, against doc.go).                                          *)
SolveCheapest ==
    task = "sets" /\ data.cache.valid =>
        LET program == data.in.program
            all == UNION {Expansion(program, program.roots[s]) : s \in DOMAIN program.roots}
            having == {s \in all : data.cache.target \in s}
            result == data.cache.result
            Cost(s) == EvictionCost(data.in.costs, data.cache.running \ s)
        IN IF having = {} THEN result.evict = data.cache.running
           ELSE /\ result.targetSet \in having
                /\ result.evict = data.cache.running \ result.targetSet
                /\ \A s \in having : Cost(result.targetSet) <= Cost(s)

-----------------------------------------------------------------------------
(* The log.                                                                *)

Queries == [model : {"", "m1"}, sort : {"id", "output"}, order : {"asc", "desc"}, limit : 0 .. 2]

Pages(query) ==
    LET count == ListActivity(data.store, query @@ [page |-> 1]).totalPages
    IN FlattenSeq([p \in 1 .. count |-> ListActivity(data.store, query @@ [page |-> p]).data])

(* However the log is sorted, the pages of a query show each of its rows   *)
(* once and in order; and the statistics of a model count what its rows    *)
(* hold, each reported speed in one bin between the extremes               *)
(* (ListActivity, calculateHistogramData).                                 *)
LogReadsBack ==
    task = "log" =>
        /\ \A query \in Queries :
             LET shown == Pages(query)
             IN /\ IsInjective(shown)
                /\ ToSet(shown) = {r \in data.store.rows : query.model \in {"", r.model}}
                /\ \A i \in 1 .. Len(shown) - 1 :
                     IF query.order = "asc" THEN shown[i][query.sort] <= shown[i + 1][query.sort]
                     ELSE shown[i][query.sort] >= shown[i + 1][query.sort]
        /\ LET stats == ActivityStats(data.store, "")
           IN \A h \in ToSet(stats.speeds) :
                /\ FoldLeft(LAMBDA sum, n : sum + n, 0, h.bins)
                     = Cardinality({r \in data.store.rows : r.speed > 0})
                /\ 100 * h.min <= h.p50 /\ h.p50 <= h.p95 /\ h.p95 <= h.p99 /\ h.p99 <= 100 * h.max

=============================================================================
