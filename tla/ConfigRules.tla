----------------------------- MODULE ConfigRules -----------------------------
(***************************************************************************)
(* The typed configuration (internal/config): defaults, what is checked of *)
(* it and in which order (load.go), the names it gives to models           *)
(* (config.go, peer.go), groups, selectors, profiles and pools.            *)
(*                                                                         *)
(* A configuration is a record of functions over names.  Names are         *)
(* strings; the qualified name of a peer's model is a pair.                *)
(***************************************************************************)
EXTENDS Integers, Sequences, FiniteSets, SequencesExt

CONSTANTS
    NameOrder,      \* Name -> its alphabetical place.
    Spelled,        \* Name -> its characters.
    ProgramOf       \* <<matrix, the models by their spelling>> -> what module SetLanguage makes
                    \* of them: whether they compile, and which models its sets allow together.

Rejected == [ok |-> FALSE]
NoProgram == [ok |-> FALSE, together |-> {}]

(* What f says, and g where f says nothing.                                *)
Over(f, g) == [x \in DOMAIN f \union DOMAIN g |-> IF x \in DOMAIN f THEN f[x] ELSE g[x]]

DefaultGroup == "(default)"

-----------------------------------------------------------------------------
(* Names.                                                                  *)

Absent == "?"

(* RealModelName: a model before an alias.                                 *)
RealModelName(c, name) ==
    IF name \in DOMAIN c.models THEN name
    ELSE IF name \in DOMAIN c.aliases THEN c.aliases[name]
    ELSE Absent

PeerModelFQN(peer, model) == peer \o "/" \o model

PeerModels(c) == {<<p, m>> : p \in DOMAIN c.peers, m \in UNION {ToSet(c.peers[q].models) : q \in DOMAIN c.peers}}
PeerTargets(c) == {t \in PeerModels(c) : t[2] \in ToSet(c.peers[t[1]].models)}

(* ResolvePeerModel: a qualified name, else a name one peer alone has; <<>> *)
(* for none, or for several.                                               *)
ResolvePeerModel(c, name) ==
    LET qualified == {t \in PeerTargets(c) : PeerModelFQN(t[1], t[2]) = name}
        plain == {t \in PeerTargets(c) : t[2] = name}
        found == IF qualified # {} THEN qualified ELSE plain
    IN IF Cardinality(found) = 1 THEN CHOOSE t \in found : TRUE ELSE <<>>

ResolveBaseModel(c, name) ==
    IF RealModelName(c, name) # Absent THEN RealModelName(c, name)
    ELSE IF ResolvePeerModel(c, name) # <<>> THEN name
    ELSE Absent

-----------------------------------------------------------------------------
(* Defaults and limits of single settings.                                 *)

AtLeast(n, least) == IF n < least THEN least ELSE n

GlobalsOK(raw) ==
    /\ raw.every >= 5
    /\ raw.startPort >= 1
    /\ raw.globalTTL >= 0
    /\ raw.unloadTimeout >= 0
    /\ raw.logToStdout \in {"proxy", "upstream", "both", "none"}
    /\ \A key \in raw.apiKeys : key # ""

Globals(raw) ==
    [raw EXCEPT !.healthCheckTimeout = AtLeast(@, 15),
                !.every = IF @ = 0 THEN 5 ELSE @,
                !.unloadTimeout = IF @ = 0 THEN 10 ELSE @,
                !.ignorePaths = IF @ = {} THEN {"static"} ELSE @]

(* validateProviders                                                       *)
ProvidersOK(c) ==
    /\ \A id \in DOMAIN c.providers :
           /\ c.providers[id].type = "lemonade"
           /\ c.providers[id].url /\ c.providers[id].timeouts /\ c.providers[id].keys
    /\ \A id \in DOMAIN c.pools :
           LET pool == c.pools[id]
           IN /\ pool.provider \in DOMAIN c.providers
              /\ \A other \in DOMAIN c.pools \ {id} : c.pools[other].provider # pool.provider
              /\ pool.capacity >= 1
              /\ pool.residentFirst => pool.maxWait > 0 \/ pool.maxBurst > 0

Classes == {"hard-pinned", "preferred", "transient", "external"}

(* normalizeProviderModel, as a condition and as what it sets.             *)
ProviderModelOK(c, id) ==
    LET m == c.models[id]
    IN IF m.provider = "" THEN m.providerModel = "" /\ m.pool = "" /\ m.residency = ""
       ELSE /\ m.provider \in DOMAIN c.providers
            /\ m.providerModel # ""
            /\ m.pool \in DOMAIN c.pools
            /\ c.pools[m.pool].provider = m.provider
            /\ m.residency \in Classes \union {""}
            /\ ~m.cmd
            /\ \A other \in DOMAIN c.models \ {id} :
                   ~(/\ c.models[other].provider = m.provider
                     /\ c.models[other].providerModel = m.providerModel)

ModelOK(c, id) ==
    LET m == c.models[id]
    IN ProviderModelOK(c, id) /\ m.ttl >= -1 /\ m.unloadTimeout >= 0 /\ m.capabilities

NormalModel(c, id) ==
    LET m == c.models[id]
    IN [m EXCEPT !.residency = IF m.provider # "" /\ @ = "" THEN "transient" ELSE @,
                 !.ttl = IF @ = -1 THEN c.globalTTL ELSE @,
                 !.unloadTimeout = IF @ = 0 THEN c.unloadTimeout ELSE @,
                 !.useModelName = IF m.provider # "" THEN m.providerModel ELSE @]

Desired(c, pool) ==
    {id \in DOMAIN c.models : /\ c.models[id].provider # ""
                              /\ c.models[id].residency \in {"hard-pinned", "preferred"}
                              /\ c.models[id].pool = pool}

(* validateLifecycleResidency                                              *)
ResidencyOK(c) == \A pool \in DOMAIN c.pools : Cardinality(Desired(c, pool)) <= c.pools[pool].capacity

-----------------------------------------------------------------------------
(* Aliases: those that are listed, then the keys of setParamsByID.         *)

ListedAliases(c) ==
    [a \in UNION {c.models[id].aliases : id \in DOMAIN c.models} |->
        CHOOSE id \in DOMAIN c.models : a \in c.models[id].aliases]

AliasesOK(c) ==
    \A id, other \in DOMAIN c.models :
        id # other => c.models[id].aliases \intersect c.models[other].aliases = {}

KeysOf(c, id) == {key \in DOMAIN c.models[id].byID : key # id}

(* A key must not name a model, nor be an alias of another model.          *)
ByIDOK(c) ==
    \A id \in DOMAIN c.models : \A key \in KeysOf(c, id) :
        /\ key \notin DOMAIN c.models
        /\ \A other \in DOMAIN c.models \ {id} :
               key \notin c.models[other].aliases \union KeysOf(c, other)

WithKeys(c, id) == [c.models[id] EXCEPT !.aliases = @ \union KeysOf(c, id)]

WithAliases(c) ==
    LET keys == UNION {KeysOf(c, id) : id \in DOMAIN c.models}
        owner == [key \in keys |-> CHOOSE id \in DOMAIN c.models : key \in KeysOf(c, id)]
    IN [c EXCEPT !.aliases = Over(ListedAliases(c), owner),
                 !.models = [id \in DOMAIN @ |-> WithKeys(c, id)]]

-----------------------------------------------------------------------------
(* Routing.                                                                *)

(* The settings of the old place or of the new one, never both.            *)
RoutingOK(raw) ==
    LET old == raw.matrix # <<>> \/ raw.groups # <<>>
        new == raw.use # "" \/ raw.newMatrix # <<>> \/ raw.newGroups # <<>>
    IN /\ ~(old /\ new)
       /\ raw.use \in {"", "group", "matrix"}
       /\ raw.use = "matrix" => raw.newMatrix # <<>>
       /\ ~(raw.matrix # <<>> /\ raw.groups # <<>>)

EffectiveMatrix(raw) == IF raw.use = "matrix" THEN raw.newMatrix ELSE raw.matrix
EffectiveGroups(raw) ==
    IF raw.matrix # <<>> \/ raw.groups # <<>> THEN raw.groups
    ELSE IF raw.use = "matrix" THEN <<>> ELSE raw.newGroups

(* AddDefaultGroupToConfig: the models that no group has.                  *)
WithDefaultGroup(groups, models) ==
    LET grouped == UNION {ToSet(groups[g].members) : g \in DOMAIN groups}
        rest == SetToSeq(models \ grouped)
        default == [swap |-> TRUE, exclusive |-> TRUE, persistent |-> FALSE, members |-> rest]
    IN [g \in DOMAIN groups \union {DefaultGroup} |-> IF g = DefaultGroup THEN default ELSE groups[g]]

GroupsOK(groups) ==
    /\ \A g \in DOMAIN groups : IsInjective(groups[g].members)
    /\ \A g, h \in DOMAIN groups :
           g # h => ToSet(groups[g].members) \intersect ToSet(groups[h].members) = {}

(* NewGroup: the router has a process for every member, and needs a model  *)
(* for each (router/group.go).                                             *)
MembersKnown(c) ==
    \A g \in DOMAIN c.groups : \A m \in ToSet(c.groups[g].members) : RealModelName(c, m) # Absent

GroupNameOf(c, model) ==
    LET having == {g \in DOMAIN c.groups : model \in ToSet(c.groups[g].members)}
    IN IF having = {} THEN "" ELSE CHOOSE g \in having : TRUE

-----------------------------------------------------------------------------
(* Peers, selectors, profiles and the models to preload.                   *)

(* ValidatePeerNamespace                                                   *)
PeerNamespaceOK(c) ==
    LET reserved == {PeerModelFQN(t[1], t[2]) : t \in PeerTargets(c)}
    IN /\ \A t, u \in PeerTargets(c) : PeerModelFQN(t[1], t[2]) = PeerModelFQN(u[1], u[2]) => t = u
       /\ reserved \intersect (DOMAIN c.models \union DOMAIN c.aliases \union DOMAIN c.selectors
                               \union UNION {DOMAIN c.profiles[p] : p \in DOMAIN c.profiles}) = {}

SpilloverName(c, target) ==
    IF RealModelName(c, target) # Absent THEN RealModelName(c, target)
    ELSE LET t == ResolvePeerModel(c, target) IN PeerModelFQN(t[1], t[2])

(* validateSpilloverCoexistence                                            *)
SpilloverCoexists(c, targets) ==
    LET locals == {RealModelName(c, t) : t \in {u \in ToSet(targets) : RealModelName(c, u) # Absent}}
        groups == {GroupNameOf(c, m) : m \in locals}
    IN \/ Cardinality(locals) <= 1
       \/ c.router = "matrix" /\ locals \in c.program.together
       \/ /\ c.router = "group"
          /\ Cardinality(groups) = 1 /\ "" \notin groups
          /\ \A g \in groups : ~c.groups[g].swap

(* Seeded bug: a warm selector may name a model of a peer.                 *)
SelectorOKAnywhere(c, id) ==
    LET s == c.selectors[id]
    IN /\ id # ""
       /\ id \notin DOMAIN c.models \union DOMAIN c.aliases
       /\ s.strategy \in {"warm", "pin", "spillover"}
       /\ s.targets # <<>>
       /\ \A t \in ToSet(s.targets) : t \notin DOMAIN c.selectors
       /\ s.strategy = "spillover" =>
              /\ s.spillover >= 1
              /\ \A t \in ToSet(s.targets) : ResolveBaseModel(c, t) # Absent
              /\ IsInjective([i \in DOMAIN s.targets |-> SpilloverName(c, s.targets[i])])
              /\ SpilloverCoexists(c, s.targets)

(* validateSelectors                                                       *)
SelectorOK(c, id) ==
    LET s == c.selectors[id]
    IN /\ id # ""
       /\ id \notin DOMAIN c.models \union DOMAIN c.aliases
       /\ s.strategy \in {"warm", "pin", "spillover"}
       /\ s.targets # <<>>
       /\ \A t \in ToSet(s.targets) :
              /\ t \notin DOMAIN c.selectors
              /\ ResolveBaseModel(c, t) # Absent
              /\ s.strategy = "warm" => RealModelName(c, t) # Absent
       /\ s.strategy = "spillover" =>
              /\ s.spillover >= 1
              /\ IsInjective([i \in DOMAIN s.targets |-> SpilloverName(c, s.targets[i])])
              /\ SpilloverCoexists(c, s.targets)

(* validateProfiles: a pin leads to a model or a selector, or disables.    *)
ProfileOK(c, pins) ==
    /\ DOMAIN pins # {} /\ "" \notin DOMAIN pins
    /\ \A pin \in DOMAIN pins :
           \/ pins[pin] = ""
           \/ ResolveBaseModel(c, pins[pin]) # Absent
           \/ pins[pin] \in DOMAIN c.selectors

(* The preload list, resolved, and appendPreferredPreloads: the pinned and *)
(* preferred models by priority, then by name.                             *)
Preloads(c, wanted) ==
    LET known == SelectSeq(wanted, LAMBDA m : RealModelName(c, m) # Absent)
        listed == [i \in DOMAIN known |-> RealModelName(c, known[i])]
        preferred == UNION {Desired(c, pool) : pool \in DOMAIN c.pools}
        Before(m, n) ==
            \/ c.models[m].priority < c.models[n].priority
            \/ c.models[m].priority = c.models[n].priority /\ NameOrder[m] < NameOrder[n]
    IN listed \o SetToSortSeq(preferred \ ToSet(listed), Before)

-----------------------------------------------------------------------------
(* LoadConfigFromReader after the macros, and the router that New builds:  *)
(* a configuration that cannot be built is rejected with the others.       *)

Named(globals) == WithAliases([globals EXCEPT !.aliases = <<>>])

Normal(named) == [named EXCEPT !.models = [id \in DOMAIN @ |-> NormalModel(named, id)]]

(* The router is the matrix's when there is one, else the groups'.         *)
Routed(raw, normal, mtx, ids) ==
    IF mtx = <<>>
      THEN Over([router |-> "group", program |-> NoProgram, ok |-> TRUE, preload |-> <<>>,
                 groups |-> WithDefaultGroup(EffectiveGroups(raw), DOMAIN raw.models)], normal)
      ELSE Over([router |-> "matrix", program |-> ProgramOf[<<mtx[1], ids>>], ok |-> TRUE,
                 preload |-> <<>>, groups |-> <<>>], normal)

GlobalPartOK(globals) == GlobalsOK(globals) /\ ProvidersOK(globals) /\ AliasesOK(globals) /\ ByIDOK(globals)

ModelsOK(raw, named) == \A id \in DOMAIN raw.models : ModelOK(named, id)

RoutedOK(raw, c) ==
    /\ ResidencyOK(c) /\ RoutingOK(raw)
    /\ c.router = "matrix" => c.program.ok
    /\ GroupsOK(c.groups)
    /\ \A m \in raw.priorities : RealModelName(c, m) # Absent
    /\ PeerNamespaceOK(c)
    /\ \A s \in DOMAIN raw.selectors : SelectorOK(c, s)
    /\ \A p \in DOMAIN raw.profiles : p # "" /\ ProfileOK(c, raw.profiles[p])
    /\ MembersKnown(c)

Decide(raw, routed) ==
    IF RoutedOK(raw, routed)
      THEN [routed EXCEPT !.preload = Preloads(routed, raw.preload)]
      ELSE Rejected

FromNamed(raw, named, ids) ==
    IF ModelsOK(raw, named)
      THEN Decide(raw, Routed(raw, Normal(named), EffectiveMatrix(raw), ids))
      ELSE Rejected

FromGlobals(raw, globals, ids) ==
    IF GlobalPartOK(globals) THEN FromNamed(raw, Named(globals), ids) ELSE Rejected

(* The models by their spelling.                                           *)
Idents(raw) ==
    [ident \in {Spelled[m] : m \in DOMAIN raw.models} |->
        CHOOSE m \in DOMAIN raw.models : Spelled[m] = ident]

Load(raw) == FromGlobals(raw, Globals(raw), Idents(raw))

=============================================================================
