----------------------------- MODULE ConfigText ------------------------------
(***************************************************************************)
(* The configuration before it is typed: documents are merged              *)
(* (internal/config/merge.go) and macros are expanded                      *)
(* (internal/config/macros.go).                                            *)
(*                                                                         *)
(* A YAML value is a mapping, a sequence, a text or a number, or null.  A  *)
(* text is a sequence of parts, each literal or the use of a macro: two    *)
(* parts put side by side never make a new use.                            *)
(***************************************************************************)
EXTENDS Integers, Sequences, FiniteSets, SequencesExt, TLC

Null == [kind |-> "null"]
Number(n) == [kind |-> "number", n |-> n]
Text(parts) == [kind |-> "text", parts |-> parts]
Items(items) == [kind |-> "seq", items |-> items]
Mapping(entries) == [kind |-> "map", entries |-> entries]

Lit(s) == [macro |-> FALSE, name |-> s]
Use(name) == [macro |-> TRUE, name |-> name]

-----------------------------------------------------------------------------
(* Merging of two documents.                                               *)

Conflict == [kind |-> "conflict"]
Scalar(v) == v.kind \in {"text", "number", "null"}

(* identityMapPaths: the children of these name one entity each.           *)
IdentityMapPaths ==
    {<<"models">>, <<"groups">>, <<"profiles">>, <<"selectors">>, <<"peers">>, <<"matrix">>,
     <<"routing", "router", "settings", "groups">>, <<"routing", "router", "settings", "matrix">>}

MergeIdentityMap(dst, src) ==
    IF dst.kind # "map" \/ src.kind # "map" THEN Conflict
    ELSE IF DOMAIN dst.entries \intersect DOMAIN src.entries # {} THEN Conflict
    ELSE Mapping(dst.entries @@ src.entries)

(* Seeded bug: the later of two scalars wins.                              *)
MergeScalarsLater(dst, src) ==
    IF src = Null THEN dst ELSE src

MergeScalars(dst, src) ==
    CASE dst = Null -> src
      [] src = Null -> dst
      [] dst = src -> dst
      [] OTHER -> Conflict

RECURSIVE MergeNodes(_, _, _), MergeValue(_, _, _)
MergeNodes(dst, src, path) ==
    LET Both(key) ==
            IF Append(path, key) \in IdentityMapPaths
              THEN MergeIdentityMap(dst.entries[key], src.entries[key])
              ELSE MergeValue(dst.entries[key], src.entries[key], Append(path, key))
        Merged(key) ==
            CASE key \notin DOMAIN src.entries -> dst.entries[key]
              [] key \notin DOMAIN dst.entries -> src.entries[key]
              [] OTHER -> Both(key)
        entries == [key \in DOMAIN dst.entries \union DOMAIN src.entries |-> Merged(key)]
    IN IF \E key \in DOMAIN entries : entries[key] = Conflict THEN Conflict ELSE Mapping(entries)

MergeValue(dst, src, path) ==
    CASE dst.kind = "map" /\ src.kind = "map" -> MergeNodes(dst, src, path)
      [] dst.kind = "seq" /\ src.kind = "seq" -> Items(dst.items \o src.items)
      [] Scalar(dst) /\ Scalar(src) -> MergeScalars(dst, src)
      [] dst = Null -> src
      [] src = Null -> dst
      [] OTHER -> Conflict

-----------------------------------------------------------------------------
(* Macros: a list of [name, value], in the order of declaration.           *)

Reserved == {"PID", "PORT", "MODEL_ID"}

UsesIn(value) == IF value.kind = "text" THEN {p.name : p \in {q \in ToSet(value.parts) : q.macro}} ELSE {}

ValidMacro(macro) ==
    /\ macro.value.kind \in {"text", "number"}
    /\ macro.name \notin UsesIn(macro.value)
    /\ macro.name \notin Reserved

(* fmt.Sprintf("%v", macroValue)                                           *)
Shown(value) == IF value.kind = "text" THEN value.parts ELSE <<Lit(ToString(value.n))>>

(* substituteMacroInValue: a text that is nothing but the macro becomes    *)
(* its value, type and all; keys of mappings are left alone.               *)
RECURSIVE Substitute(_, _)
Substitute(value, macro) ==
    CASE value.kind = "text" ->
             IF value.parts = <<Use(macro.name)>> THEN macro.value
             ELSE Text(FlattenSeq([i \in DOMAIN value.parts |->
                          IF value.parts[i] = Use(macro.name) THEN Shown(macro.value)
                          ELSE <<value.parts[i]>>]))
      [] value.kind = "map" ->
             Mapping([key \in DOMAIN value.entries |-> Substitute(value.entries[key], macro)])
      [] value.kind = "seq" ->
             Items([i \in DOMAIN value.items |-> Substitute(value.items[i], macro)])
      [] OTHER -> value

(* Seeded bug: the macros are put in from the first to the last.           *)
SubstituteForward(value, macros) == FoldLeft(Substitute, value, macros)

(* substituteMacroList: from the last to the first, so that the value of a *)
(* macro may use those declared before it.                                 *)
SubstituteList(value, macros) == FoldLeft(Substitute, value, Reverse(macros))

(* mergeModelMacros: a macro of the model takes the place of a global one. *)
MergeModelMacros(modelID, global, model) ==
    LET Add(merged, entry) ==
            LET same == {i \in DOMAIN merged : merged[i].name = entry.name}
            IN IF same = {} THEN Append(merged, entry)
               ELSE [merged EXCEPT ![CHOOSE i \in same : \A j \in same : i <= j] = entry]
    IN FoldLeft(Add, <<[name |-> "MODEL_ID", value |-> Text(<<Lit(modelID)>>)]>> \o global, model)

(* substituteSetParamsByIDKeys: a key is a text whatever is put into it.    *)
SubstituteKey(parts, macros) ==
    LET Put(key, macro) == FlattenSeq([i \in DOMAIN key |->
                               IF key[i] = Use(macro.name) THEN Shown(macro.value) ELSE <<key[i]>>])
    IN FoldLeft(Put, parts, Reverse(macros))

(* stripRawCommandComments, on a command as a sequence of lines.           *)
StripComments(lines) ==
    LET kept == SelectSeq(lines, LAMBDA line : ~line.comment)
    IN Text(FlattenSeq([i \in DOMAIN kept |-> kept[i].parts]))

Unresolved(value) ==
    LET RECURSIVE Names(_)
        Names(v) == CASE v.kind = "map" -> UNION {Names(v.entries[k]) : k \in DOMAIN v.entries}
                      [] v.kind = "seq" -> UNION {Names(item) : item \in ToSet(v.items)}
                      [] OTHER -> UsesIn(v)
    IN Names(value)

(* One model: its macros, then the port its command asks for.  "acc" has   *)
(* the next port; the keys of setParamsByID are texts of their own, and    *)
(* two of them may become the same.                                        *)
DefaultProxy == Text(<<Lit("http://localhost:"), Use("PORT")>>)

ResolveModel(acc, id, model, global) ==
    LET macros == MergeModelMacros(id, global, model.macros)
        port == <<[name |-> "PORT", value |-> Number(acc.next)]>>
        stripped == [key \in DOMAIN model.fields |->
                        IF key \in {"cmd", "cmdStop"} THEN StripComments(model.fields[key])
                        ELSE model.fields[key]]
        proxied == IF model.provider \/ "proxy" \in DOMAIN stripped THEN stripped
                   ELSE "proxy" :> DefaultProxy @@ stripped
        fields == SubstituteList(Mapping(proxied), macros)
        keys == [i \in DOMAIN model.byID |-> SubstituteKey(model.byID[i], macros)]
        InCmd == "PORT" \in UsesIn(fields.entries["cmd"])
        InProxy == "proxy" \in DOMAIN fields.entries /\ "PORT" \in UsesIn(fields.entries["proxy"])
        ported == IF InCmd THEN SubstituteList(fields, port) ELSE fields
        portedKeys == IF InCmd THEN [i \in DOMAIN keys |-> SubstituteKey(keys[i], port)] ELSE keys
        allowed == [key \in DOMAIN ported.entries |-> IF key = "cmdStop" THEN {"PID"} ELSE {}]
        ok == /\ InProxy => InCmd
              /\ IsInjective(portedKeys)
              /\ \A i \in DOMAIN portedKeys : UsesIn(Text(portedKeys[i])) = {}
              /\ \A key \in DOMAIN ported.entries : Unresolved(ported.entries[key]) \subseteq allowed[key]
    IN IF ~acc.ok \/ ~ok THEN [acc EXCEPT !.ok = FALSE]
       ELSE [ok |-> TRUE, next |-> IF InCmd THEN acc.next + 1 ELSE acc.next,
             models |-> id :> [fields |-> ported, byID |-> portedKeys,
                               port |-> IF InCmd THEN acc.next ELSE 0] @@ acc.models]

(* rawStartPort, once the global macros are in.                            *)
StartPort(raw) == IF raw.startPort = Null THEN Number(5800) ELSE SubstituteList(raw.startPort, raw.macros)

(* resolveConfigMacros: global values, the first port, then the models in  *)
(* the order of their names.                                               *)
ResolveConfigMacros(raw, modelOrder) ==
    LET declared == raw.macros \o FlattenSeq([i \in DOMAIN modelOrder |-> raw.models[modelOrder[i]].macros])
        top == SubstituteList(raw.top, raw.macros)
        start == StartPort(raw)
        Add(acc, id) == ResolveModel(acc, id, raw.models[id], raw.macros)
        done == FoldLeft(Add, [ok |-> TRUE, next |-> start.n, models |-> <<>>], modelOrder)
    IN IF \/ \E m \in ToSet(declared) : ~ValidMacro(m)
          \/ start.kind # "number"
         THEN [ok |-> FALSE]
       ELSE IF start.n < 1 \/ Unresolved(top) # {} \/ ~done.ok
         THEN [ok |-> FALSE]
       ELSE [ok |-> TRUE, top |-> top, models |-> done.models]

-----------------------------------------------------------------------------
(* Sources.                                                                *)

EnvNames == {"env.A", "env.B", "env.C"}
Newline == [kind |-> "newline"]  \* what an environment variable may not hold

(* substituteEnvMacros: in the text of a document, before it is parsed, so *)
(* that the value of a variable is read as YAML.  A variable that is not   *)
(* set, or that would break the document, is an error.                     *)
SubstituteEnv(doc, env) ==
    LET uses == Unresolved(doc) \intersect EnvNames
        Put(value, name) == Substitute(value, [name |-> name, value |-> env[name]])
    IN IF \E name \in uses : name \notin DOMAIN env \/ env[name] = Newline THEN Conflict
       ELSE FoldLeft(Put, doc, SetToSeq(uses))

(* parseSource: Null for a document without content, and a scalar has none.*)
ParseSource(doc, env) ==
    LET parsed == SubstituteEnv(doc, env)
    IN CASE parsed.kind \in {"conflict", "map"} -> parsed
         [] parsed.kind = "seq" /\ parsed.items # <<>> -> Conflict
         [] OTHER -> Null

MergeSources(parsed) ==
    LET found == SelectSeq(parsed, LAMBDA doc : doc # Null)
        Add(merged, doc) == IF merged = Conflict THEN Conflict ELSE MergeNodes(merged, doc, <<>>)
    IN IF Conflict \in ToSet(parsed) THEN Conflict
       ELSE IF found = <<>> THEN Mapping(<<>>)
       ELSE FoldLeft(Add, Head(found), Tail(found))

(* LoadConfigSources: the file of -config, if any, then those of           *)
(* -config-dir in the order of their names; no file may be both.           *)
LoadConfigSources(named, dirFiles, env) ==
    LET files == named \o dirFiles
    IN IF files = <<>> \/ {f.path : f \in ToSet(named)} \intersect {f.path : f \in ToSet(dirFiles)} # {}
         THEN Conflict
         ELSE MergeSources([i \in DOMAIN files |-> ParseSource(files[i].doc, env)])

=============================================================================
