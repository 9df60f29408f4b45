----------------------------- MODULE SetLanguage -----------------------------
(***************************************************************************)
(* The language of the matrix router (internal/matrix): its expressions    *)
(* are parsed, linked and put in order once (dsl.go, Compile), and solved  *)
(* for a target and the models that run (program.go).                      *)
(*                                                                         *)
(* A text is a sequence of characters; a mask over the models of a query   *)
(* is the set of its members; a reference is followed by its name.         *)
(***************************************************************************)
EXTENDS Integers, Sequences, FiniteSets, SequencesExt

-----------------------------------------------------------------------------
(* Tokens.                                                                 *)

Marks == {"&", "|", "(", ")"}
IdentChars == {"a", "b", "c", "s", "t", "-", "."}

IdentLength(text) ==
    CHOOSE n \in 0 .. Len(text) :
        /\ \A i \in 1 .. n : text[i] \in IdentChars
        /\ n < Len(text) => text[n + 1] \notin IdentChars

BadToken == [typ |-> "bad", val |-> <<>>]

RECURSIVE Tokenize(_)
Tokenize(text) ==
    IF text = <<>> THEN <<>>
    ELSE LET ch == Head(text)
             n == IdentLength(text)
             m == IdentLength(Tail(text))
         IN CASE ch = " " -> Tokenize(Tail(text))
              [] ch \in Marks -> <<[typ |-> ch, val |-> <<ch>>]>> \o Tokenize(Tail(text))
              [] ch = "+" /\ m > 0 ->
                     <<[typ |-> "ref", val |-> SubSeq(text, 2, m + 1)]>>
                        \o Tokenize(SubSeq(text, m + 2, Len(text)))
              [] n > 0 ->
                     <<[typ |-> "ident", val |-> SubSeq(text, 1, n)]>>
                        \o Tokenize(SubSeq(text, n + 1, Len(text)))
              [] OTHER -> <<BadToken>>

-----------------------------------------------------------------------------
(* The parser: each operator returns the node and what is left.            *)

Leaf(name) == [kind |-> "leaf", name |-> name, children |-> <<>>]
Ref(name) == [kind |-> "ref", name |-> name, children |-> <<>>]
Branch(kind, children) == [kind |-> kind, name |-> <<>>, children |-> children]

Failed == [ok |-> FALSE]
Parsed(node, rest) == [ok |-> TRUE, node |-> node, rest |-> rest]
StartsWith(tokens, typ) == tokens # <<>> /\ Head(tokens).typ = typ

(* One child stands for itself, several make one node.                     *)
Join(kind, children) == IF Len(children) = 1 THEN Head(children) ELSE Branch(kind, children)

RECURSIVE ParseOr(_, _), ParseAnd(_, _), ParseAtom(_)
ParseOr(tokens, before) ==
    LET p == ParseAnd(tokens, <<>>)
        children == Append(before, p.node)
    IN IF ~p.ok THEN Failed
       ELSE IF StartsWith(p.rest, "|") THEN ParseOr(Tail(p.rest), children)
       ELSE Parsed(Join("or", children), p.rest)

ParseAnd(tokens, before) ==
    LET p == ParseAtom(tokens)
        children == Append(before, p.node)
    IN IF ~p.ok THEN Failed
       ELSE IF StartsWith(p.rest, "&") THEN ParseAnd(Tail(p.rest), children)
       ELSE Parsed(Join("and", children), p.rest)

ParseAtom(tokens) ==
    CASE StartsWith(tokens, "ident") -> Parsed(Leaf(Head(tokens).val), Tail(tokens))
      [] StartsWith(tokens, "ref") -> Parsed(Ref(Head(tokens).val), Tail(tokens))
      [] StartsWith(tokens, "(") ->
             LET p == ParseOr(Tail(tokens), <<>>)
             IN IF p.ok /\ StartsWith(p.rest, ")") THEN Parsed(p.node, Tail(p.rest)) ELSE Failed
      [] OTHER -> Failed

(* parseDSL                                                                *)
ParseDSL(text) ==
    LET tokens == Tokenize(text)
        p == ParseOr(tokens, <<>>)
    IN IF BadToken \notin ToSet(tokens) /\ p.ok /\ p.rest = <<>> THEN p ELSE Failed

-----------------------------------------------------------------------------
(* Compile.  "resolve" is a function from the identifiers that are known.  *)

RECURSIVE Nodes(_)
Nodes(node) == {node} \union UNION {Nodes(child) : child \in ToSet(node.children)}

RECURSIVE Resolved(_, _)
Resolved(node, resolve) ==
    [node EXCEPT !.name = IF node.kind = "leaf" THEN resolve[@] ELSE @,
                 !.children = [i \in DOMAIN @ |-> Resolved(@[i], resolve)]]

(* The references of an expression in the order of the walk.               *)
RECURSIVE Refs(_)
Refs(node) ==
    IF node.kind = "ref" THEN <<node.name>>
    ELSE FlattenSeq([i \in DOMAIN node.children |-> Refs(node.children[i])])

(* topologicalOrder: depth first in the order of definition; a set that is *)
(* met again while it is open closes a circle.                             *)
RECURSIVE Visit(_, _, _)
Visit(acc, name, deps) ==
    IF ~acc.ok \/ name \in ToSet(acc.order) THEN acc
    ELSE IF name \in acc.open THEN [acc EXCEPT !.ok = FALSE]
    ELSE LET inside == FoldLeft(LAMBDA a, d : Visit(a, d, deps),
                                [acc EXCEPT !.open = @ \union {name}], deps[name])
         IN IF inside.ok
              THEN [inside EXCEPT !.order = Append(@, name), !.open = @ \ {name}]
              ELSE inside

TopologicalOrder(names, deps) ==
    FoldLeft(LAMBDA a, name : Visit(a, name, deps),
             [ok |-> TRUE, order |-> <<>>, open |-> {}], names)

(* Definitions are a sequence of [name, dsl].                              *)
Compile(definitions, resolve) ==
    LET parsed == [i \in DOMAIN definitions |-> ParseDSL(definitions[i].dsl)]
        names == [i \in DOMAIN definitions |-> definitions[i].name]
        Known(node) == \A n \in Nodes(node) :
                           /\ n.kind = "leaf" => n.name \in DOMAIN resolve
                           /\ n.kind = "ref" => n.name \in ToSet(names)
        IndexOf(name) == CHOOSE i \in DOMAIN names : names[i] = name
        deps == [name \in ToSet(names) |-> Refs(parsed[IndexOf(name)].node)]
        sorted == TopologicalOrder(names, deps)
    IN IF \/ definitions = <<>>
          \/ \E i \in DOMAIN parsed : ~parsed[i].ok \/ ~Known(parsed[i].node)
          \/ ~sorted.ok
         THEN Failed
         ELSE [ok |-> TRUE, order |-> sorted.order,
               roots |-> [name \in ToSet(names) |->
                            Resolved(parsed[IndexOf(name)].node, resolve)]]

-----------------------------------------------------------------------------
(* Evaluation: the states of an expression are the masks its choices leave *)
(* on the models of the query, each with a choice that makes it.           *)

(* computeSupport                                                          *)
RECURSIVE Support(_, _)
Support(program, node) ==
    CASE node.kind = "leaf" -> {node.name}
      [] node.kind = "ref" -> Support(program, program.roots[node.name])
      [] OTHER -> UNION {Support(program, node.children[i]) : i \in DOMAIN node.children}

(* newEvaluator: a bit for each model the query is about; other models     *)
(* leave no trace in a mask.                                               *)
MaskOf(model, relevant) == {model} \intersect relevant

(* subsetOf                                                                *)
Covers(mask, other) == other \subseteq mask

(* Seeded bug: a larger mask replaces a smaller one, subset or not.        *)
AddLargerToFrontier(states, candidate) ==
    IF \E s \in ToSet(states) : Cardinality(candidate.mask) <= Cardinality(s.mask) THEN states
    ELSE Append(SelectSeq(states, LAMBDA s : Cardinality(s.mask) > Cardinality(candidate.mask)),
                candidate)

AddToFrontier(states, candidate) ==
    IF \E s \in ToSet(states) : Covers(s.mask, candidate.mask) THEN states
    ELSE Append(SelectSeq(states, LAMBDA s : ~Covers(candidate.mask, s.mask)), candidate)

(* Every pair of a left and a right choice, as one (the witness a tree,    *)
(* here the set flattenWitness makes of it).                               *)
Pairings(left, right) ==
    FlattenSeq([i \in DOMAIN left |->
        [j \in DOMAIN right |-> [mask |-> left[i].mask \union right[j].mask,
                                 witness |-> left[i].witness \union right[j].witness]]])

RECURSIVE Evaluate(_, _, _)
Evaluate(program, node, relevant) ==
    CASE node.kind = "leaf" ->
             <<[mask |-> MaskOf(node.name, relevant), witness |-> {node.name}]>>
      [] node.kind = "ref" -> Evaluate(program, program.roots[node.name], relevant)
      [] node.kind = "or" ->
             FoldLeft(AddToFrontier, <<>>,
                      FlattenSeq([i \in DOMAIN node.children |->
                                    Evaluate(program, node.children[i], relevant)]))
      [] node.kind = "and" ->
             FoldLeft(LAMBDA states, child :
                        FoldLeft(AddToFrontier, <<>>, Pairings(states, Evaluate(program, child, relevant))),
                      <<[mask |-> {}, witness |-> {}]>>, node.children)

EvictionCost(costs, models) ==
    FoldLeft(LAMBDA sum, m : sum + (IF m \in DOMAIN costs THEN costs[m] ELSE 1),
             0, SetToSeq(models))

(* CanContainAll, and findContaining: the first set one of whose choices   *)
(* has all the models, <<>> for none.                                      *)
FindContaining(program, models) ==
    LET Has(name) ==
            /\ models \subseteq Support(program, program.roots[name])
            /\ \E s \in ToSet(Evaluate(program, program.roots[name], models)) : models \subseteq s.mask
        found == SelectSeq(program.order, Has)
    IN IF models = {} \/ found = <<>> THEN <<>> ELSE Head(found)

CanContainAll(program, models) == models = {} \/ FindContaining(program, models) # <<>>

(* What one set offers for the target: each choice with its cost.          *)
Offers(program, name, target, running, costs) ==
    IF target \notin Support(program, program.roots[name]) THEN <<>>
    ELSE LET states == SelectSeq(Evaluate(program, program.roots[name], running \union {target}),
                                 LAMBDA s : target \in s.mask)
         IN [i \in DOMAIN states |->
                [set |-> name, evict |-> running \ states[i].mask,
                 cost |-> EvictionCost(costs, running \ states[i].mask),
                 targetSet |-> states[i].witness]]

(* Solve: the first of the cheapest choices over the sets in order;        *)
(* without one everything that runs is evicted.                            *)
Solve(program, target, running, costs) ==
    LET offers == FlattenSeq([i \in DOMAIN program.order |->
                                Offers(program, program.order[i], target, running, costs)])
        Best(i) == \A j \in DOMAIN offers :
                       \/ offers[i].cost < offers[j].cost
                       \/ offers[i].cost = offers[j].cost /\ i <= j
    IN IF target \in running
         THEN [set |-> FindContaining(program, running), evict |-> {}, cost |-> 0, targetSet |-> running]
       ELSE IF offers = <<>>
         THEN [set |-> <<>>, evict |-> running, cost |-> 0, targetSet |-> {target}]
       ELSE offers[CHOOSE i \in DOMAIN offers : Best(i)]

-----------------------------------------------------------------------------
(* ValidateMatrix and the matrix swapper (config/matrix.go,                *)
(* router/matrix.go): aliases, costs, and the decision that is kept.       *)

(* resolveMatrixModel, as a function: an alias hides a model of its name.  *)
(* "ids" maps the identifier that spells a model to the model.             *)
ResolverOf(vars, ids) ==
    [ident \in DOMAIN vars \union DOMAIN ids |->
        IF ident \in DOMAIN vars THEN vars[ident] ELSE ids[ident]]

ValidateMatrix(mtx, ids) ==
    LET resolve == ResolverOf(mtx.vars, ids)
        models == {ids[ident] : ident \in DOMAIN ids}
    IN IF \/ \E id \in DOMAIN mtx.vars : mtx.vars[id] \notin models
          \/ \E key \in DOMAIN mtx.costs : mtx.costs[key] <= 0 \/ key \notin DOMAIN resolve
         THEN Failed
         ELSE Compile(mtx.sets, resolve)

(* ResolvedEvictCosts; of two keys of one model the code lets the one that *)
(* comes last in a Go map win, which is any: the caller picks.             *)
ResolvedEvictCosts(mtx, ids, pick) ==
    LET resolve == ResolverOf(mtx.vars, ids)
    IN [m \in {resolve[key] : key \in DOMAIN mtx.costs} |->
            mtx.costs[pick[m]]]

NoDecision == [valid |-> FALSE]

(* matrixSwapper.solve: the last decision stands for the same question.    *)
CachedSolve(cache, program, costs, target, running) ==
    IF cache.valid /\ cache.target = target /\ cache.running = running
      THEN cache
      ELSE [valid |-> TRUE, target |-> target, running |-> running,
            result |-> Solve(program, target, running, costs)]

=============================================================================
