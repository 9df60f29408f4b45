------------------------------- MODULE MCFront -------------------------------
(* Small configurations, documents, matrices and responses for Front.      *)
EXTENDS Front

-----------------------------------------------------------------------------
(* Two models that may be reached by an alias, a peer that has one, a      *)
(* spillover selector over three targets, a warm one and a pinned one.     *)

Model == [aliases |-> {}, byID |-> <<>>, strip |-> {}, set |-> <<>>, provider |-> "",
          providerModel |-> "", pool |-> "", residency |-> "", priority |-> 0, cmd |-> TRUE,
          ttl |-> -1, unloadTimeout |-> 0, capabilities |-> TRUE, useModelName |-> "",
          unlisted |-> FALSE]

Managed == [Model EXCEPT !.provider = "lem", !.providerModel = "B", !.pool = "pool", !.cmd = FALSE,
                         !.residency = "preferred"]

Peer == [models |-> <<"x", "y">>, strip |-> {"model", "temp"}, set |-> "model" :> "z", byID |-> <<>>]

Selector(strategy, targets) ==
    [strategy |-> strategy, targets |-> targets, spillover |-> 2, unlisted |-> FALSE]

Base ==
    [healthCheckTimeout |-> 0, every |-> 5, startPort |-> 5800, globalTTL |-> 0, unloadTimeout |-> 0,
     logToStdout |-> "proxy", apiKeys |-> {"k"}, ignorePaths |-> {}, aliases |-> <<>>,
     includeAliases |-> TRUE,
     providers |-> "lem" :> [type |-> "lemonade", url |-> TRUE, timeouts |-> TRUE, keys |-> TRUE],
     pools |-> "pool" :> [provider |-> "lem", capacity |-> 1, residentFirst |-> FALSE,
                          maxWait |-> 0, maxBurst |-> 0],
     models |-> ("a" :> [Model EXCEPT !.aliases = {"al"}, !.set = "model" :> "z",
                                      !.byID = "fast" :> ("temp" :> "low"),
                                      !.useModelName = "A"])
                @@ ("b" :> Managed),
     matrix |-> <<>>, groups |-> <<>>, use |-> "", newMatrix |-> <<>>,
     newGroups |-> "g" :> [swap |-> FALSE, exclusive |-> FALSE, persistent |-> FALSE,
                           members |-> <<"a", "b">>],
     peers |-> ("p" :> Peer) @@ ("r" :> [Peer EXCEPT !.models = <<"y">>]),
     selectors |-> ("sp" :> Selector("spillover", <<"fast", "b", "p/x">>))
                   @@ ("w" :> Selector("warm", <<"b", "al">>))
                   @@ ("s1" :> Selector("pin", <<"p/y">>)),
     profiles |-> "day" :> (("pin" :> "w") @@ ("al" :> "") @@ ("b" :> "x")),
     priorities |-> {"a"}, preload |-> <<"al">>]

(* The same by a matrix, without the groups.                               *)
ByMatrix ==
    [Base EXCEPT !.newGroups = <<>>, !.use = "matrix",
                 !.selectors["sp"].targets = <<"fast", "b">>,
                 !.newMatrix = <<[vars |-> <<>>, costs |-> <<>>,
                                  sets |-> <<[name |-> <<"s">>, dsl |-> <<"a", "&", "b">>]>>]>>]

(* Refused: a target that names nothing, one that cannot coexist with      *)
(* another, and a name two models claim.                                   *)
MCRawConfigs ==
    {Base, ByMatrix,
     [Base EXCEPT !.selectors["s1"] = Selector("pin", <<"nowhere">>)],
     [Base EXCEPT !.newGroups["g"].swap = TRUE],
     [Base EXCEPT !.models["b"].aliases = {"al"}]}

(* A group of the user that has the name of the default one.               *)
MCDefaultGroupConfigs ==
    {[Base EXCEPT !.selectors = <<>>, !.profiles = <<>>,
                  !.newGroups = DefaultGroup :> [swap |-> FALSE, exclusive |-> FALSE,
                                                 persistent |-> FALSE, members |-> <<"a", "b">>]]}

MCNameOrder == [a |-> 1, b |-> 2]
MCSpelled == [a |-> <<"a">>, b |-> <<"b">>]

MCProgramOf ==
    [x \in {<<raw.newMatrix[1], Idents(raw)>> : raw \in {r \in MCRawConfigs : r.newMatrix # <<>>}} |->
        LET program == ValidateMatrix(x[1], x[2])
        IN [ok |-> program.ok,
            together |-> IF ~program.ok THEN {}
                         ELSE {S \in SUBSET Range(x[2]) : CanContainAll(program, S)}]]

MCSegmentsOf ==
    [n \in {"a", "b", "al", "fast", "x", "y", "w", "s1", "sp", "pin"} |-> <<n>>]
    @@ ("p/x" :> <<"p", "x">>) @@ ("p/y" :> <<"p", "y">>) @@ ("r/y" :> <<"r", "y">>)

To(model) ==
    [upstream |-> FALSE, path |-> <<>>, slash |-> FALSE, kind |-> "json", scheme |-> "bearer",
     key |-> "k", xkey |-> "", readable |-> TRUE, rewritable |-> TRUE,
     body |-> [model |-> model, temp |-> "high"]]

(* A form whose model cannot be replaced.                                  *)
Form(model) == [To(model) EXCEPT !.kind = "multipart", !.rewritable = FALSE]

Under(path) == [To("") EXCEPT !.upstream = TRUE, !.path = path, !.body = <<>>]

MCMessages ==
    {Form("sp"), Form("pin"), Form("s1"), To("sp"), To("pin"), To("b"),
     Under(<<"p", "x", "v1">>), Under(<<"al">>), Under(<<"b", "static">>),
     [To("s1") EXCEPT !.scheme = "", !.xkey = "k"], [To("a") EXCEPT !.key = "no"]}

Symmetry == Permutations(Requests)

-----------------------------------------------------------------------------
Doc(entries) == Mapping(entries)
Docs ==
    {Null,
     Doc("level" :> Number(1)),
     Doc("level" :> Number(2)),
     Doc(("level" :> Null) @@ ("list" :> Items(<<Number(1)>>))),
     Doc(("list" :> Items(<<Number(2)>>)) @@ ("models" :> Mapping("m1" :> Number(1)))),
     Doc("models" :> Mapping(("m1" :> Number(1)) @@ ("m2" :> Number(2)))),
     Doc("models" :> Mapping("m3" :> Number(2))),
     Doc("hooks" :> Mapping(("on" :> Mapping("load" :> Items(<<Number(1)>>))) @@ ("n" :> Number(1)))),
     Doc("hooks" :> Mapping("on" :> Mapping("load" :> Items(<<Number(2)>>)))),
     Doc("hooks" :> Number(1)),
     Doc("level" :> Text(<<Use("env.A")>>)),
     Doc("list" :> Items(<<Text(<<Lit("x"), Use("env.B")>>)>>)),
     Doc("list" :> Items(<<Text(<<Use("env.C")>>)>>)),
     Items(<<Number(1)>>)}

Files(docs, from) == [i \in 1 .. Len(docs) |-> [path |-> from + i, doc |-> docs[i]]]
MCEnv == ("env.A" :> Number(1)) @@ ("env.B" :> Text(<<Lit("b")>>)) @@ ("env.C" :> Newline)

MCSourceLists ==
    {[named |-> named, dir |-> Files(docs, 1)] :
        named \in {<<>>} \union {Files(<<doc>>, 0) : doc \in Docs},
        docs \in UNION {[1 .. n -> Docs] : n \in 0 .. 2}}
    \union {[named |-> Files(<<doc>>, 0), dir |-> Files(<<doc>>, 0)] : doc \in Docs}

-----------------------------------------------------------------------------
Macro(name, value) == [name |-> name, value |-> value]
Values == {Number(7), Text(<<Lit("x")>>), Text(<<Use("m1"), Lit("x")>>), Text(<<Use("m2")>>),
           Text(<<Use("PORT")>>)}
Line(comment, parts) == [comment |-> comment, parts |-> parts]
Cmds == {<<Line(FALSE, <<Lit("run"), Use("m2")>>), Line(TRUE, <<Use("m9")>>)>>,
         <<Line(FALSE, <<Use("m1"), Use("PORT")>>)>>,
         <<Line(FALSE, <<Use("MODEL_ID")>>)>>}

MacroModel(cmd, macros) ==
    [macros |-> macros, byID |-> <<<<Use("MODEL_ID"), Lit("fast")>>>>, provider |-> FALSE,
     fields |-> ("cmd" :> cmd) @@ ("proxy" :> Text(<<Lit("here")>>))
                @@ ("cmdStop" :> <<Line(FALSE, <<Use("PID")>>), Line(TRUE, <<Use("m9")>>)>>)]

MCMacroConfigs ==
    {[order |-> <<"a", "b">>,
      raw |-> [macros |-> <<Macro("m1", v), Macro("m2", w)>>, startPort |-> start,
               top |-> Mapping("level" :> Text(<<Use("m1")>>)),
               models |-> ("a" :> MacroModel(c, own))
                          @@ ("b" :> MacroModel(<<Line(FALSE, <<Use("PORT")>>)>>, <<>>))]] :
        v \in Values, w \in Values, c \in Cmds, start \in {Null, Text(<<Use("m1")>>)},
        own \in {<<>>, <<Macro("m1", Text(<<Use("MODEL_ID")>>))>>}}

-----------------------------------------------------------------------------
Ids == [i \in {<<"a">>, <<"b">>, <<"c">>, <<"t">>} |-> i[1]]
Set(name, dsl) == [name |-> IF name = "s" THEN <<"s">> ELSE <<"b", "-">>, dsl |-> dsl]

Compiled(mtx) ==
    [program |-> ValidateMatrix(mtx, Ids), models |-> {"a", "b", "c", "t"},
     costs |-> ResolvedEvictCosts(mtx, Ids, "a" :> <<"a">>)]

MCMatrices ==
    {Compiled([vars |-> <<>>, costs |-> costs, sets |-> sets]) :
        costs \in {<<>>, <<"a">> :> 3},
        sets \in {<<Set("s", <<"a", "&", "(", "b", "|", "c", ")", "&", "t">>)>>,
                  <<Set("s", <<"+", "b", "-", "|", "c", "&", "t">>),
                    Set("b-", <<"a", "&", "b", "|", "t">>)>>,
                  <<Set("s", <<"(", "a", "|", "c", "|", "a", "&", "b", ")", "&", "(", "b", "|", "c",
                               "|", "t", ")">>)>>}}

-----------------------------------------------------------------------------
Usage(i, o, c) == [input |-> i, output |-> o, cached |-> c]
Response ==
    [model |-> "m1", route |-> "chat", status |-> 200, empty |-> FALSE, decodes |-> TRUE,
     kind |-> "json", usages |-> <<Usage(2, 3, 1)>>, timings |-> <<>>, speed |-> 4]

MCResponses ==
    {Response,
     [Response EXCEPT !.model = "m2", !.kind = "sse", !.speed = 9,
                      !.usages = <<Usage(5, 0, -1), Usage(0, 3, 2)>>],
     [Response EXCEPT !.status = 500, !.decodes = FALSE, !.speed = 0],
     [Response EXCEPT !.timings = <<Usage(7, 1, -1)>>, !.speed = 1]}

=============================================================================
