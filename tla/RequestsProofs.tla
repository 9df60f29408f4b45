--------------------------- MODULE RequestsProofs ---------------------------
(***************************************************************************)
(* Theorems about the requests of a server (module Requests), for every    *)
(* configuration it may be started with.                                   *)
(***************************************************************************)
EXTENDS Requests, FiniteSetTheorems, WellFoundedInduction, TLAPS

-----------------------------------------------------------------------------
(* Places and sequences.                                                   *)

\* Every non-empty set of natural numbers has a least element.
LEMMA LeastElement ==
    ASSUME NEW T \in SUBSET Nat, T # {}
    PROVE  \E x \in T : \A y \in T : x <= y
<1> DEFINE Less == {p \in Nat \X Nat : p[1] < p[2]}
<1>1. IsWellFoundedOn(Less, Nat)
  <2>1. OpToRel(<, Nat) = Less
    BY DEF OpToRel
  <2> QED BY <2>1, NatLessThanWellFounded
<1>2. \E x \in T : \A y \in T : ~ (<<y, x>> \in Less)
    BY <1>1, WFMin
<1>3. ASSUME NEW x \in Nat, NEW y \in Nat, y < x
      PROVE  <<y, x>> \in Less
    BY <1>3
<1> HIDE DEF Less
<1>4. PICK x \in T : \A y \in T : ~ (<<y, x>> \in Less)
    BY <1>2
<1>5. \A y \in T : ~ (y < x)
    BY <1>3, <1>4
<1>6. \A y \in T : x <= y
    BY <1>5
<1> QED BY <1>6

\* Nth finds a place whenever there are more than n (strategySpillover's
\* cold[0] and tied[rr % len(tied)]).
LEMMA NthPlace ==
    ASSUME NEW L \in Nat, NEW S, NEW n \in Nat,
           \A j \in S : j \in Nat /\ j >= 1 /\ j <= L,
           n < Cardinality(S)
    PROVE  Nth(S, n) \in S
<1> DEFINE Upto(i) == {j \in S : j <= i}
           T == {i \in Nat : i <= L /\ Cardinality(Upto(i)) > n}
<1>1. \A i \in Nat : IsFiniteSet(Upto(i)) /\ Cardinality(Upto(i)) \in Nat
  <2>1. IsFiniteSet(1..L)
    BY FS_Interval
  <2>2. \A i \in Nat : Upto(i) \subseteq 1..L
    OBVIOUS
  <2> QED BY <2>1, <2>2, FS_Subset, FS_CardinalityType
<1>2. T # {}
  <2>1. Upto(L) = S
    OBVIOUS
  <2> HIDE DEF Upto
  <2>2. L \in T
    BY <2>1
  <2> QED BY <2>2
<1>3. PICK i \in T : \A k \in T : i <= k
  <2> HIDE DEF T
  <2>1. T \in SUBSET Nat
    BY DEF T
  <2> QED BY <2>1, <1>2, LeastElement
<1>4. i \in Nat /\ i <= L /\ Cardinality(Upto(i)) > n
  <2> HIDE DEF Upto
  <2> QED BY <1>3
<1>5. i # 0
  <2>1. SUFFICES ASSUME i = 0 PROVE FALSE
    OBVIOUS
  <2>2. Upto(0) = {}
    OBVIOUS
  <2> HIDE DEF Upto
  <2> QED BY <1>4, <2>1, <2>2, FS_EmptySet
<1>6. /\ IsFiniteSet(Upto(i - 1)) /\ Cardinality(Upto(i - 1)) \in Nat
      /\ Cardinality(Upto(i)) \in Nat
  <2> HIDE DEF Upto
  <2>1. i - 1 \in Nat
    BY <1>4, <1>5
  <2> QED BY <1>1, <1>4, <2>1
<1>7. Cardinality(Upto(i - 1)) <= n
  <2> HIDE DEF Upto
  <2>1. i - 1 \in Nat /\ ~ (i <= i - 1) /\ i - 1 <= L
    BY <1>4, <1>5
  <2>2. ~ (Cardinality(Upto(i - 1)) > n)
    BY <2>1, <1>3
  <2> QED BY <2>2, <1>6
<1>8. i \in S
  <2>1. SUFFICES ASSUME i \notin S PROVE FALSE
    OBVIOUS
  <2>2. Upto(i) = Upto(i - 1)
    BY <2>1, <1>4
  <2> HIDE DEF Upto
  <2> QED BY <2>2, <1>4, <1>6, <1>7
<1>9. Cardinality(Upto(i)) <= Cardinality(Upto(i - 1)) + 1
  <2>1. \A j \in S : j <= i <=> j <= i - 1 \/ j = i
    BY <1>4
  <2>2. Upto(i) = Upto(i - 1) \union {i}
    BY <2>1, <1>8
  <2>3. Cardinality(Upto(i - 1) \union {i}) =
          IF i \in Upto(i - 1) THEN Cardinality(Upto(i - 1)) ELSE Cardinality(Upto(i - 1)) + 1
    BY <1>6, FS_AddElement
  <2> HIDE DEF Upto
  <2> QED BY <2>2, <2>3, <1>6
<1>10. Cardinality({j \in S : j < i}) = n
  <2>1. {j \in S : j < i} = Upto(i - 1)
    BY <1>4
  <2> HIDE DEF Upto
  <2>2. Cardinality(Upto(i - 1)) = n
    BY <1>4, <1>6, <1>7, <1>9
  <2> QED BY <2>1, <2>2
<1> QED BY <1>8, <1>10 DEF Nth

\* Nothing is pinned where there is no profile.
LEMMA EmptyDomain == DOMAIN <<>> = {}
  OBVIOUS

\* SetToSeq lists every element of a finite set.
LEMMA SetToSeqItems ==
    ASSUME NEW S, IsFiniteSet(S)
    PROVE  ToSet(SetToSeq(S)) = S
<1> DEFINE D == 1..Cardinality(S)
<1>1. Cardinality(S) \in Nat /\ ExistsBijection(D, S)
    BY FS_CardinalityType
<1>2. PICK g \in Bijection(D, S) : TRUE
    BY <1>1 DEF ExistsBijection
<1>3. g \in [D -> S] /\ IsInjective(g)
    BY <1>2 DEF Bijection, Injection
<1>4. SetToSeq(S) \in [D -> S] /\ IsInjective(SetToSeq(S))
    BY <1>3 DEF SetToSeq
<1>5. SetToSeq(S) \in Injection(D, S)
    BY <1>4 DEF Injection
<1>6. Cardinality(D) = Cardinality(S)
    BY <1>1, FS_Interval
<1>7. SetToSeq(S) \in Surjection(D, S)
    BY <1>5, <1>6, FS_Injection
<1> HIDE DEF D
<1> QED BY <1>4, <1>7 DEF Surjection, ToSet

-----------------------------------------------------------------------------
(* What a configuration that loads is like.                                *)

\* Names lead somewhere: an alias to a model, a member of a group to a process,
\* a target of a selector and a pin of a profile to what they name.
Loaded(c) ==
    /\ Absent \notin DOMAIN c.models
    /\ \A a \in DOMAIN c.aliases : c.aliases[a] \in DOMAIN c.models
    /\ \A id \in DOMAIN c.models : c.models[id].aliases \subseteq DOMAIN c.aliases
    /\ c.router = "group" => MembersKnown(c)
    /\ \A t, u \in PeerTargets(c) : PeerModelFQN(t[1], t[2]) = PeerModelFQN(u[1], u[2]) => t = u
    /\ \A s \in DOMAIN c.selectors :
           /\ s # "" /\ c.selectors[s].targets \in Seq(STRING)
           /\ \A t \in ToSet(c.selectors[s].targets) : ResolveBaseModel(c, t) # Absent
    /\ \A p \in DOMAIN c.profiles : ProfileOK(c, c.profiles[p])

\* The router has a process for every model.
Complete(c) == \A m \in DOMAIN c.models : LocalHandles(c, m)

\* What Over has of its first function, and of its second.
LEMMA OverValues ==
    ASSUME NEW f, NEW g
    PROVE  /\ DOMAIN Over(f, g) = DOMAIN f \union DOMAIN g
           /\ \A x \in DOMAIN f : Over(f, g)[x] = f[x]
           /\ \A x \in DOMAIN g \ DOMAIN f : Over(f, g)[x] = g[x]
BY DEF Over

\* WithAliases keeps the models, and has an owner for each of their aliases
\* and of their keys.
LEMMA AliasesLead ==
    ASSUME NEW c, {"models", "aliases"} \subseteq DOMAIN c,
           \A id \in DOMAIN c.models : "aliases" \in DOMAIN c.models[id]
    PROVE  LET n == WithAliases(c)
           IN /\ DOMAIN n = DOMAIN c
              /\ \A f \in DOMAIN c \ {"models", "aliases"} : n[f] = c[f]
              /\ DOMAIN n.models = DOMAIN c.models
              /\ \A id \in DOMAIN n.models :
                   /\ "aliases" \in DOMAIN n.models[id]
                   /\ n.models[id].aliases \subseteq DOMAIN n.aliases
              /\ \A a \in DOMAIN n.aliases : n.aliases[a] \in DOMAIN n.models
<1> DEFINE n == WithAliases(c)
           Listed == UNION {c.models[id].aliases : id \in DOMAIN c.models}
           keys == UNION {KeysOf(c, id) : id \in DOMAIN c.models}
           owner == [key \in keys |-> CHOOSE id \in DOMAIN c.models : key \in KeysOf(c, id)]
           models == [id \in DOMAIN c.models |-> WithKeys(c, id)]
<1>1. n = [c EXCEPT !.aliases = Over(ListedAliases(c), owner), !.models = models]
  BY DEF WithAliases
<1>2. /\ DOMAIN n = DOMAIN c
      /\ \A f \in DOMAIN c \ {"models", "aliases"} : n[f] = c[f]
      /\ n.models = models /\ n.aliases = Over(ListedAliases(c), owner)
  <2> HIDE DEF n, models, owner
  <2> QED BY <1>1
<1>3. /\ DOMAIN ListedAliases(c) = Listed
      /\ \A a \in Listed : ListedAliases(c)[a] \in DOMAIN c.models
  BY DEF ListedAliases
<1>4. DOMAIN owner = keys /\ \A a \in keys : owner[a] \in DOMAIN c.models
  OBVIOUS
<1>5. /\ DOMAIN n.aliases = Listed \union keys
      /\ \A a \in DOMAIN n.aliases : n.aliases[a] \in DOMAIN c.models
  <2> DEFINE la == ListedAliases(c)
  <2>1. n.aliases = Over(la, owner)
    BY <1>2
  <2>2. DOMAIN la = Listed /\ \A a \in Listed : la[a] \in DOMAIN c.models
    BY <1>3
  <2> HIDE DEF n, la, owner, Listed, keys
  <2>3. /\ DOMAIN Over(la, owner) = Listed \union keys
        /\ \A a \in Listed : Over(la, owner)[a] = la[a]
        /\ \A a \in keys \ Listed : Over(la, owner)[a] = owner[a]
    <3>1. /\ DOMAIN Over(la, owner) = DOMAIN la \union DOMAIN owner
          /\ \A a \in DOMAIN la : Over(la, owner)[a] = la[a]
          /\ \A a \in DOMAIN owner \ DOMAIN la : Over(la, owner)[a] = owner[a]
      BY ONLY OverValues
    <3> QED BY ONLY <3>1, <2>2, <1>4
  <2> QED BY <2>1, <2>2, <2>3, <1>4
<1>6. DOMAIN models = DOMAIN c.models
  OBVIOUS
<1>7. ASSUME NEW id \in DOMAIN c.models
      PROVE  /\ "aliases" \in DOMAIN models[id]
             /\ models[id].aliases = c.models[id].aliases \union KeysOf(c, id)
  BY DEF WithKeys
<1>8. ASSUME NEW id \in DOMAIN c.models
      PROVE  models[id].aliases \subseteq Listed \union keys
  <2>1. c.models[id].aliases \subseteq Listed /\ KeysOf(c, id) \subseteq keys
    OBVIOUS
  <2> HIDE DEF Listed, keys, models
  <2> QED BY <2>1, <1>7
<1> HIDE DEF n, models, Listed, keys, owner
<1>9. /\ DOMAIN n.models = DOMAIN c.models
      /\ \A id \in DOMAIN n.models :
           /\ "aliases" \in DOMAIN n.models[id]
           /\ n.models[id].aliases \subseteq DOMAIN n.aliases
  BY <1>2, <1>5, <1>6, <1>7, <1>8
<1>10. \A a \in DOMAIN n.aliases : n.aliases[a] \in DOMAIN n.models
  BY <1>5, <1>9
<1> QED BY <1>2, <1>9, <1>10 DEF n

\* What the defaults of a model leave alone.
LEMMA NormalKeeps ==
    ASSUME NEW n, {"models", "aliases"} \subseteq DOMAIN n,
           \A id \in DOMAIN n.models : "aliases" \in DOMAIN n.models[id]
    PROVE  /\ DOMAIN Normal(n) = DOMAIN n
           /\ \A f \in DOMAIN n \ {"models"} : Normal(n)[f] = n[f]
           /\ DOMAIN Normal(n).models = DOMAIN n.models
           /\ \A id \in DOMAIN n.models : Normal(n).models[id].aliases = n.models[id].aliases
<1> DEFINE models == [id \in DOMAIN n.models |-> NormalModel(n, id)]
<1>1. Normal(n) = [n EXCEPT !.models = models]
  BY DEF Normal
<1>2. \A id \in DOMAIN n.models : NormalModel(n, id).aliases = n.models[id].aliases
  BY DEF NormalModel
<1>3. DOMAIN models = DOMAIN n.models /\ \A id \in DOMAIN n.models : models[id] = NormalModel(n, id)
  OBVIOUS
<1> HIDE DEF models
<1> QED BY <1>1, <1>2, <1>3

\* A configuration that loads has passed its checks, and adds to what was
\* written only what follows from it.
LEMMA LoadDecides ==
    ASSUME NEW raw \in RawConfigs, Load(raw).ok
    PROVE  \E m, r :
             /\ {"models", "aliases", "peers", "selectors", "profiles"} \subseteq DOMAIN m
             /\ m.peers = raw.peers /\ m.selectors = raw.selectors /\ m.profiles = raw.profiles
             /\ DOMAIN m.models = DOMAIN raw.models
             /\ \A id \in DOMAIN m.models : m.models[id].aliases \subseteq DOMAIN m.aliases
             /\ \A a \in DOMAIN m.aliases : m.aliases[a] \in DOMAIN m.models
             /\ r = Routed(raw, m, EffectiveMatrix(raw), Idents(raw))
             /\ RoutedOK(raw, r)
             /\ Load(raw) = [r EXCEPT !.preload = Preloads(r, raw.preload)]
<1> DEFINE g == Globals(raw)
           b == [g EXCEPT !.aliases = <<>>]
           n == WithAliases(b)
           m == Normal(n)
           r == Routed(raw, m, EffectiveMatrix(raw), Idents(raw))
           Fields == {"models", "aliases", "peers", "selectors", "profiles"}
<1>1. /\ RoutedOK(raw, r) /\ Load(raw) = [r EXCEPT !.preload = Preloads(r, raw.preload)]
  <2>1. Load(raw) # Rejected
    BY DEF Rejected
  <2>2. GlobalPartOK(g) /\ Load(raw) = FromNamed(raw, n, Idents(raw))
    BY <2>1 DEF Load, FromGlobals, Named
  <2> HIDE DEF n
  <2>3. Load(raw) = Decide(raw, r)
    BY <2>1, <2>2 DEF FromNamed
  <2> HIDE DEF r
  <2> QED BY <2>1, <2>3 DEF Decide
<1>2. /\ Fields \subseteq DOMAIN g
      /\ g.models = raw.models /\ g.peers = raw.peers
      /\ g.selectors = raw.selectors /\ g.profiles = raw.profiles
  BY RawConfigsTyped DEF Globals
<1>3. /\ Fields \subseteq DOMAIN b
      /\ b.models = raw.models /\ b.peers = raw.peers
      /\ b.selectors = raw.selectors /\ b.profiles = raw.profiles
  <2> HIDE DEF g
  <2> QED BY <1>2
<1>4. /\ Fields \subseteq DOMAIN n
      /\ n.peers = raw.peers /\ n.selectors = raw.selectors /\ n.profiles = raw.profiles
      /\ DOMAIN n.models = DOMAIN raw.models
      /\ \A id \in DOMAIN n.models : /\ "aliases" \in DOMAIN n.models[id]
                                     /\ n.models[id].aliases \subseteq DOMAIN n.aliases
      /\ \A a \in DOMAIN n.aliases : n.aliases[a] \in DOMAIN n.models
  <2>1. \A id \in DOMAIN b.models : "aliases" \in DOMAIN b.models[id]
    <3> HIDE DEF b
    <3> QED BY <1>3, RawConfigsTyped
  <2> HIDE DEF b
  <2>2. {"models", "aliases"} \subseteq DOMAIN b
    BY <1>3
  <2>3. /\ DOMAIN n = DOMAIN b
        /\ \A f \in DOMAIN b \ {"models", "aliases"} : n[f] = b[f]
        /\ DOMAIN n.models = DOMAIN b.models
        /\ \A id \in DOMAIN n.models :
             /\ "aliases" \in DOMAIN n.models[id]
             /\ n.models[id].aliases \subseteq DOMAIN n.aliases
        /\ \A a \in DOMAIN n.aliases : n.aliases[a] \in DOMAIN n.models
    BY <2>1, <2>2, AliasesLead
  <2> HIDE DEF n
  <2>4. {"peers", "selectors", "profiles"} \subseteq DOMAIN b \ {"models", "aliases"}
    BY <1>3
  <2>5. n.peers = b.peers /\ n.selectors = b.selectors /\ n.profiles = b.profiles
    BY <2>3, <2>4
  <2> QED BY <1>3, <2>3, <2>5
<1>5. /\ Fields \subseteq DOMAIN m
      /\ m.peers = raw.peers /\ m.selectors = raw.selectors /\ m.profiles = raw.profiles
      /\ DOMAIN m.models = DOMAIN raw.models
      /\ \A id \in DOMAIN m.models : m.models[id].aliases \subseteq DOMAIN m.aliases
      /\ \A a \in DOMAIN m.aliases : m.aliases[a] \in DOMAIN m.models
  <2> HIDE DEF n
  <2>1. {"models", "aliases"} \subseteq DOMAIN n
    BY <1>4
  <2>2. /\ DOMAIN m = DOMAIN n
        /\ \A f \in DOMAIN n \ {"models"} : m[f] = n[f]
        /\ DOMAIN m.models = DOMAIN n.models
        /\ \A id \in DOMAIN n.models : m.models[id].aliases = n.models[id].aliases
    BY <1>4, <2>1, NormalKeeps
  <2>3. {"peers", "selectors", "profiles", "aliases"} \subseteq DOMAIN n \ {"models"}
    BY <1>4
  <2> HIDE DEF m
  <2>4. m.peers = n.peers /\ m.selectors = n.selectors /\ m.profiles = n.profiles
        /\ m.aliases = n.aliases
    BY <2>2, <2>3
  <2> QED BY <1>4, <2>2, <2>4
<1> HIDE DEF m
<1> QED BY <1>1, <1>5

\* What Routed adds to a configuration: the names are those of before.
LEMMA RoutedKeeps ==
    ASSUME NEW raw, NEW m, NEW mtx, NEW ids, NEW r,
           {"models", "aliases", "peers", "selectors", "profiles"} \subseteq DOMAIN m,
           r = Routed(raw, m, mtx, ids)
    PROVE  /\ r.models = m.models /\ r.aliases = m.aliases /\ r.peers = m.peers
           /\ r.selectors = m.selectors /\ r.profiles = m.profiles
           /\ {"models", "aliases", "peers", "selectors", "profiles", "groups", "router"} \subseteq DOMAIN r
           /\ \/ /\ r.router = "group"
                 /\ r.groups = WithDefaultGroup(EffectiveGroups(raw), DOMAIN raw.models)
              \/ r.router = "matrix"
<1> DEFINE byGroup == [router |-> "group", program |-> NoProgram, ok |-> TRUE, preload |-> <<>>,
                       groups |-> WithDefaultGroup(EffectiveGroups(raw), DOMAIN raw.models)]
           byMatrix == [router |-> "matrix", program |-> ProgramOf[<<mtx[1], ids>>], ok |-> TRUE,
                        preload |-> <<>>, groups |-> <<>>]
<1>1. r = Over(byGroup, m) \/ r = Over(byMatrix, m)
  BY DEF Routed
<1>2. ASSUME NEW f, r = Over(f, m),
             DOMAIN f = {"router", "program", "ok", "preload", "groups"}
      PROVE  /\ r.models = m.models /\ r.aliases = m.aliases /\ r.peers = m.peers
             /\ r.selectors = m.selectors /\ r.profiles = m.profiles
             /\ r.groups = f.groups /\ r.router = f.router
             /\ {"models", "aliases", "peers", "selectors", "profiles", "groups", "router"}
                  \subseteq DOMAIN r
  <2>1. /\ DOMAIN Over(f, m) = DOMAIN f \union DOMAIN m
        /\ \A x \in DOMAIN f : Over(f, m)[x] = f[x]
        /\ \A x \in DOMAIN m \ DOMAIN f : Over(f, m)[x] = m[x]
    BY OverValues
  <2>2. {"models", "aliases", "peers", "selectors", "profiles"} \subseteq DOMAIN m \ DOMAIN f
    BY <1>2
  <2>3. /\ r.models = m.models /\ r.aliases = m.aliases /\ r.peers = m.peers
        /\ r.selectors = m.selectors /\ r.profiles = m.profiles
    BY <1>2, <2>1, <2>2
  <2> QED BY <1>2, <2>1, <2>3
<1>3. /\ DOMAIN byGroup = {"router", "program", "ok", "preload", "groups"}
      /\ DOMAIN byMatrix = {"router", "program", "ok", "preload", "groups"}
      /\ byGroup.router = "group" /\ byMatrix.router = "matrix"
      /\ byGroup.groups = WithDefaultGroup(EffectiveGroups(raw), DOMAIN raw.models)
  OBVIOUS
<1>4. /\ r.models = m.models /\ r.aliases = m.aliases /\ r.peers = m.peers
      /\ r.selectors = m.selectors /\ r.profiles = m.profiles
      /\ {"models", "aliases", "peers", "selectors", "profiles", "groups", "router"} \subseteq DOMAIN r
      /\ \/ /\ r.router = "group"
            /\ r.groups = WithDefaultGroup(EffectiveGroups(raw), DOMAIN raw.models)
         \/ r.router = "matrix"
  <2> HIDE DEF byGroup, byMatrix
  <2>1. CASE r = Over(byGroup, m)
    BY <2>1, <1>2, <1>3
  <2>2. CASE r = Over(byMatrix, m)
    BY <2>2, <1>2, <1>3
  <2> QED BY <1>1, <2>1, <2>2
<1> QED BY <1>4

\* The names of a configuration depend on its models, aliases and peers.
LEMMA SameNames ==
    ASSUME NEW c, NEW r, c.models = r.models, c.aliases = r.aliases, c.peers = r.peers
    PROVE  /\ \A name : RealModelName(c, name) = RealModelName(r, name)
           /\ PeerTargets(c) = PeerTargets(r)
           /\ \A name : ResolvePeerModel(c, name) = ResolvePeerModel(r, name)
           /\ \A name : ResolveBaseModel(c, name) = ResolveBaseModel(r, name)
<1>1. \A name : RealModelName(c, name) = RealModelName(r, name)
  BY DEF RealModelName
<1>2. PeerTargets(c) = PeerTargets(r)
  BY DEF PeerTargets, PeerModels
<1>3. \A name : ResolvePeerModel(c, name) = ResolvePeerModel(r, name)
  BY <1>2 DEF ResolvePeerModel
<1> QED BY <1>1, <1>2, <1>3 DEF ResolveBaseModel

\* With the default group, every model is in a group, unless a group of that
\* name was written: it is replaced, and what it had is in none.
LEMMA EveryModelGrouped ==
    ASSUME NEW groups, NEW models, IsFiniteSet(models), DefaultGroup \notin DOMAIN groups,
           NEW m \in models
    PROVE  LET all == WithDefaultGroup(groups, models)
           IN \E g \in DOMAIN all : m \in ToSet(all[g].members)
<1> DEFINE grouped == UNION {ToSet(groups[g].members) : g \in DOMAIN groups}
           free == models \ grouped
           rest == SetToSeq(free)
           default == [swap |-> TRUE, exclusive |-> TRUE, persistent |-> FALSE, members |-> rest]
           all == WithDefaultGroup(groups, models)
<1>1. all = [g \in DOMAIN groups \union {DefaultGroup} |->
               IF g = DefaultGroup THEN default ELSE groups[g]]
  BY DEF WithDefaultGroup
<1>2. /\ DOMAIN all = DOMAIN groups \union {DefaultGroup}
      /\ all[DefaultGroup].members = rest
      /\ \A g \in DOMAIN groups : all[g] = groups[g]
  <2>1. default.members = rest
    OBVIOUS
  <2> HIDE DEF all, default, rest
  <2> QED BY <1>1, <2>1
<1>3. CASE m \in grouped
  <2>1. PICK g \in DOMAIN groups : m \in ToSet(groups[g].members)
    BY <1>3
  <2> HIDE DEF all
  <2> QED BY <1>2, <2>1 DEF all
<1>4. CASE m \notin grouped
  <2>1. IsFiniteSet(free)
    BY FS_Subset
  <2>2. ToSet(rest) = free
    BY <2>1, SetToSeqItems
  <2>3. m \in free
    BY <1>4
  <2> HIDE DEF all, rest, free
  <2>4. DefaultGroup \in DOMAIN all /\ m \in ToSet(all[DefaultGroup].members)
    BY <1>2, <2>2, <2>3
  <2> QED BY <2>4 DEF all
<1> QED BY <1>3, <1>4

\* What validateSelectors, validateProfiles, ValidatePeerNamespace, NewGroup
\* and AddDefaultGroupToConfig make of every configuration that loads.
LEMMA LoadedSound ==
    ASSUME NEW raw \in RawConfigs, Load(raw).ok
    PROVE  /\ Loaded(Load(raw))
           /\ DefaultGroup \notin DOMAIN EffectiveGroups(raw) => Complete(Load(raw))
<1> DEFINE c == Load(raw)
<1>1. PICK m, r :
             /\ {"models", "aliases", "peers", "selectors", "profiles"} \subseteq DOMAIN m
             /\ m.peers = raw.peers /\ m.selectors = raw.selectors /\ m.profiles = raw.profiles
             /\ DOMAIN m.models = DOMAIN raw.models
             /\ \A id \in DOMAIN m.models : m.models[id].aliases \subseteq DOMAIN m.aliases
             /\ \A a \in DOMAIN m.aliases : m.aliases[a] \in DOMAIN m.models
             /\ r = Routed(raw, m, EffectiveMatrix(raw), Idents(raw))
             /\ RoutedOK(raw, r)
             /\ c = [r EXCEPT !.preload = Preloads(r, raw.preload)]
  BY LoadDecides
<1> HIDE DEF c
<1>2. /\ r.models = m.models /\ r.aliases = m.aliases /\ r.peers = m.peers
      /\ r.selectors = m.selectors /\ r.profiles = m.profiles
      /\ c.models = r.models /\ c.aliases = r.aliases /\ c.peers = r.peers
      /\ c.selectors = r.selectors /\ c.profiles = r.profiles
      /\ c.groups = r.groups /\ c.router = r.router
      /\ \/ /\ r.router = "group"
            /\ r.groups = WithDefaultGroup(EffectiveGroups(raw), DOMAIN raw.models)
         \/ r.router = "matrix"
  <2>1. /\ r.models = m.models /\ r.aliases = m.aliases /\ r.peers = m.peers
        /\ r.selectors = m.selectors /\ r.profiles = m.profiles
        /\ {"models", "aliases", "peers", "selectors", "profiles", "groups", "router"} \subseteq DOMAIN r
        /\ \/ /\ r.router = "group"
              /\ r.groups = WithDefaultGroup(EffectiveGroups(raw), DOMAIN raw.models)
           \/ r.router = "matrix"
    <3>1. /\ {"models", "aliases", "peers", "selectors", "profiles"} \subseteq DOMAIN m
          /\ r = Routed(raw, m, EffectiveMatrix(raw), Idents(raw))
      BY <1>1
    <3> QED BY <3>1, RoutedKeeps
  <2> DEFINE p == Preloads(r, raw.preload)
  <2>2. c = [r EXCEPT !.preload = p]
    BY <1>1
  <2> HIDE DEF p
  <2>3. /\ c.models = r.models /\ c.aliases = r.aliases /\ c.peers = r.peers
        /\ c.selectors = r.selectors /\ c.profiles = r.profiles
        /\ c.groups = r.groups /\ c.router = r.router
    BY <2>1, <2>2
  <2> QED BY <2>1, <2>3
<1>3. /\ \A name : RealModelName(c, name) = RealModelName(r, name)
      /\ PeerTargets(c) = PeerTargets(r)
      /\ \A name : ResolveBaseModel(c, name) = ResolveBaseModel(r, name)
  BY <1>2, SameNames
<1>4. /\ PeerNamespaceOK(r) /\ MembersKnown(r)
      /\ \A s \in DOMAIN raw.selectors : SelectorOK(r, s)
      /\ \A p \in DOMAIN raw.profiles : ProfileOK(r, raw.profiles[p])
  BY <1>1 DEF RoutedOK
<1>5. /\ DOMAIN c.models = DOMAIN raw.models
      /\ c.selectors = raw.selectors /\ c.profiles = raw.profiles
      /\ \A id \in DOMAIN c.models : c.models[id].aliases \subseteq DOMAIN c.aliases
      /\ \A a \in DOMAIN c.aliases : c.aliases[a] \in DOMAIN c.models
  BY <1>1, <1>2
<1>6. Absent \notin DOMAIN c.models /\ IsFiniteSet(DOMAIN c.models)
  BY <1>5, RawConfigsTyped
<1>7. MembersKnown(c)
  BY <1>2, <1>3, <1>4 DEF MembersKnown
<1>8. \A t, u \in PeerTargets(c) : PeerModelFQN(t[1], t[2]) = PeerModelFQN(u[1], u[2]) => t = u
  BY <1>3, <1>4 DEF PeerNamespaceOK
<1>9. \A s \in DOMAIN c.selectors :
        /\ s # "" /\ c.selectors[s].targets \in Seq(STRING)
        /\ \A t \in ToSet(c.selectors[s].targets) : ResolveBaseModel(c, t) # Absent
  <2>1. \A s \in DOMAIN c.selectors : c.selectors[s].targets \in Seq(STRING)
    BY <1>5, RawConfigsTyped
  <2>2. \A s \in DOMAIN c.selectors :
          /\ s # ""
          /\ \A t \in ToSet(c.selectors[s].targets) : ResolveBaseModel(c, t) # Absent
    BY <1>2, <1>3, <1>4, <1>5 DEF SelectorOK
  <2> QED BY <2>1, <2>2
<1>10. \A p \in DOMAIN c.profiles : ProfileOK(c, c.profiles[p])
  BY <1>2, <1>3, <1>4, <1>5 DEF ProfileOK
<1>11. Loaded(c)
  BY <1>5, <1>6, <1>7, <1>8, <1>9, <1>10 DEF Loaded
<1>12. ASSUME DefaultGroup \notin DOMAIN EffectiveGroups(raw)
       PROVE  Complete(c)
  <2>1. CASE c.router = "group"
    <3>1. c.groups = WithDefaultGroup(EffectiveGroups(raw), DOMAIN c.models)
      BY <2>1, <1>2, <1>5
    <3>2. \A id \in DOMAIN c.models : \E g \in DOMAIN c.groups : id \in ToSet(c.groups[g].members)
      BY <3>1, <1>6, <1>12, EveryModelGrouped
    <3> QED BY <3>2, <2>1 DEF Complete, LocalHandles
  <2>2. CASE c.router # "group"
    BY <2>2 DEF Complete, LocalHandles
  <2> QED BY <2>1, <2>2
<1> QED BY <1>11, <1>12 DEF c

-----------------------------------------------------------------------------
(* Where requests go.                                                      *)

\* A name leads to a local model, or to one peer's.
Leads(c, name) == RealModelName(c, name) # Absent \/ ResolvePeerModel(c, name) # <<>>

LEMMA BaseLeads ==
    ASSUME NEW c, NEW name, ResolveBaseModel(c, name) # Absent
    PROVE  Leads(c, name)
BY DEF ResolveBaseModel, Leads

\* RealModelName: what it names is a model, and models and aliases have one.
LEMMA RealIsModel ==
    ASSUME NEW c, Loaded(c), NEW name
    PROVE  /\ RealModelName(c, name) # Absent => RealModelName(c, name) \in DOMAIN c.models
           /\ name \in DOMAIN c.models \union DOMAIN c.aliases => RealModelName(c, name) # Absent
BY DEF Loaded, RealModelName

\* The local router takes the models, and no other name.
LEMMA LocalTakes ==
    ASSUME NEW c, Loaded(c), Complete(c), NEW name
    PROVE  LocalHandles(c, FetchContext(c, name).modelID) <=> RealModelName(c, name) # Absent
<1>1. CASE RealModelName(c, name) # Absent
  <2>1. FetchContext(c, name).modelID = RealModelName(c, name)
    BY <1>1 DEF FetchContext
  <2>2. RealModelName(c, name) \in DOMAIN c.models
    BY <1>1, RealIsModel
  <2> QED BY <1>1, <2>1, <2>2 DEF Complete
<1>2. CASE RealModelName(c, name) = Absent
  <2>1. FetchContext(c, name).modelID = name
    BY <1>2 DEF FetchContext
  <2>2. name \notin DOMAIN c.models
    BY <1>2, RealIsModel
  <2>3. c.router = "group" => \A g \in DOMAIN c.groups : name \notin ToSet(c.groups[g].members)
    BY <1>2 DEF Loaded, MembersKnown
  <2> QED BY <1>2, <2>1, <2>2, <2>3 DEF LocalHandles
<1> QED BY <1>1, <1>2

\* A message in the body of which the model can be replaced.
LEMMA Replaced ==
    ASSUME NEW msg, NEW model, NEW other, ~ msg.upstream, ExtractModel(msg) = model
    PROVE  ReplaceRequestModel(msg, model, other) =
             IF msg.rewritable THEN <<[msg EXCEPT !.body = [@ EXCEPT !["model"] = other]]>> ELSE <<>>
BY DEF ReplaceRequestModel

\* Whatever leads somewhere gets there (localPeerHandler).
LEMMA LeadsSomewhere ==
    ASSUME NEW c, Loaded(c), Complete(c), NEW t, Leads(c, t),
           NEW msg, ~ msg.upstream, msg.rewritable, ExtractModel(msg) = t
    PROVE  Dispatch(c, FetchContext(c, t), msg).dest # <<>>
<1> DEFINE ctx == FetchContext(c, t)
           route == ResolvePeerModel(c, ctx.modelID)
           named == IF ctx.model = route[2] THEN <<msg>> ELSE ReplaceRequestModel(msg, ctx.model, route[2])
<1>1. ctx.model = t
  BY DEF FetchContext
<1>2. CASE LocalHandles(c, ctx.modelID)
  BY <1>2 DEF Dispatch
<1>3. CASE ~ LocalHandles(c, ctx.modelID)
  <2>1. RealModelName(c, t) = Absent
    BY <1>3, LocalTakes
  <2>2. ctx.modelID = t /\ route # <<>>
    BY <2>1 DEF FetchContext, Leads
  <2>3. named # <<>>
    <3>1. ReplaceRequestModel(msg, t, route[2]) # <<>>
      <4> HIDE DEF route
      <4>1. ReplaceRequestModel(msg, t, route[2]) =
              IF msg.rewritable THEN <<[msg EXCEPT !.body = [@ EXCEPT !["model"] = route[2]]]>> ELSE <<>>
        BY Replaced
      <4> QED BY <4>1
    <3> HIDE DEF ctx, route
    <3> QED BY <1>1, <3>1
  <2>4. Dispatch(c, ctx, msg) =
          [dest |-> <<"peer", route[1], route[2]>>, body |-> named[1].body, code |-> 0]
    <3> HIDE DEF ctx
    <3> QED BY <1>3, <2>2, <2>3 DEF Dispatch
  <2> HIDE DEF ctx, route, named
  <2>5. Dispatch(c, ctx, msg).dest = <<"peer", route[1], route[2]>>
    BY <2>4
  <2> QED BY <2>5 DEF ctx
<1> QED BY <1>2, <1>3

\* The qualified name of a peer's model is nobody else's.
LEMMA QualifiedLeads ==
    ASSUME NEW c, Loaded(c), NEW t \in PeerTargets(c)
    PROVE  ResolvePeerModel(c, PeerModelFQN(t[1], t[2])) # <<>>
<1> DEFINE name == PeerModelFQN(t[1], t[2])
           qualified == {u \in PeerTargets(c) : PeerModelFQN(u[1], u[2]) = name}
<1>1. qualified = {t}
  BY DEF Loaded
<1>2. Cardinality(qualified) = 1 /\ qualified # {}
  BY <1>1, FS_Singleton
<1>3. ResolvePeerModel(c, name) = CHOOSE u \in qualified : TRUE
  BY <1>2 DEF ResolvePeerModel
<1>4. ResolvePeerModel(c, name) = t
  <2> HIDE DEF name, qualified
  <2> QED BY <1>1, <1>3
<1>5. t # <<>>
  BY DEF PeerTargets, PeerModels
<1> QED BY <1>4, <1>5

\* What is listed, and is neither pinned nor a selector, leads somewhere.
LEMMA ListedLeads ==
    ASSUME NEW c, Loaded(c), NEW profile, NEW name \in ListedModels(c, profile),
           name \notin DOMAIN Pins(c, profile), name \notin DOMAIN c.selectors
    PROVE  Leads(c, name)
<1> DEFINE qualified == {PeerModelFQN(t[1], t[2]) : t \in PeerTargets(c)}
           aliases == UNION {c.models[m].aliases : m \in DOMAIN c.models}
<1>1. name \in DOMAIN c.models \/ name \in aliases \/ name \in qualified
  BY DEF ListedModels
<1>2. CASE name \in DOMAIN c.models
  BY <1>2, RealIsModel DEF Leads
<1>3. CASE name \in aliases
  <2>1. name \in DOMAIN c.aliases
    BY <1>3 DEF Loaded
  <2> QED BY <2>1, RealIsModel DEF Leads
<1>4. CASE name \in qualified
  BY <1>4, QualifiedLeads DEF Leads
<1> QED BY <1>1, <1>2, <1>3, <1>4

\* Every listed name, asked for under any profile, gets to a router.
LEMMA ListedGoes ==
    ASSUME NEW c, Loaded(c), Complete(c), NEW profile,
           NEW name \in ListedModels(c, profile)
    PROVE  LET pinned == IF name \in DOMAIN Pins(c, profile) THEN Pins(c, profile)[name] ELSE name
               targets == IF pinned \in DOMAIN c.selectors
                            THEN ToSet(c.selectors[pinned].targets) ELSE {pinned}
           IN pinned # "" => \A t \in targets : Leads(c, t)
<1> DEFINE pinned == IF name \in DOMAIN Pins(c, profile) THEN Pins(c, profile)[name] ELSE name
           targets == IF pinned \in DOMAIN c.selectors
                        THEN ToSet(c.selectors[pinned].targets) ELSE {pinned}
<1> SUFFICES ASSUME pinned # "", NEW t \in targets
             PROVE  Leads(c, t)
  OBVIOUS
<1>1. CASE pinned \in DOMAIN c.selectors
  <2> HIDE DEF pinned
  <2>1. ResolveBaseModel(c, t) # Absent
    BY <1>1 DEF Loaded
  <2> QED BY <2>1, BaseLeads
<1>2. CASE pinned \notin DOMAIN c.selectors
  <2>1. t = pinned
    BY <1>2
  <2>2. CASE name \in DOMAIN Pins(c, profile)
    <3>1. profile \in DOMAIN c.profiles /\ Pins(c, profile) = c.profiles[profile]
      <4>2. Pins(c, profile) = IF profile \in DOMAIN c.profiles THEN c.profiles[profile] ELSE <<>>
        BY DEF Pins
      <4>3. Pins(c, profile) # <<>>
        BY <2>2, EmptyDomain
      <4> QED BY <4>2, <4>3
    <3>2. ProfileOK(c, c.profiles[profile])
      BY <3>1 DEF Loaded
    <3>3. ResolveBaseModel(c, pinned) # Absent
      BY <3>1, <3>2, <2>2, <1>2 DEF ProfileOK
    <3> QED BY <3>3, <2>1, BaseLeads
  <2>3. CASE name \notin DOMAIN Pins(c, profile)
    BY <2>1, <2>3, <1>2, ListedLeads
  <2> QED BY <2>2, <2>3
<1> QED BY <1>1, <1>2

-----------------------------------------------------------------------------
(* What is sent upstream.                                                  *)

IsMessage(msg) ==
    {"upstream", "path", "kind", "readable", "rewritable", "body"} \subseteq DOMAIN msg

\* The model in a body is the one that the destination knows.
KnownThere(c, dest, body) ==
    IF dest[1] = "peer" THEN body["model"] = dest[3]
    ELSE c.models[dest[2]].useModelName # "" => body["model"] = c.models[dest[2]].useModelName

\* ReplaceRequestModel gives one message of the same kind, or none.
LEMMA ReplacedIsMessage ==
    ASSUME NEW msg, IsMessage(msg), NEW model, NEW other, ReplaceRequestModel(msg, model, other) # <<>>
    PROVE  LET new == ReplaceRequestModel(msg, model, other)[1]
           IN IsMessage(new) /\ new.kind = msg.kind /\ new.upstream = msg.upstream
<1> DEFINE Path == IF other = "" THEN <<>>
                   ELSE SegmentsOf[other] \o SubSeq(msg.path, Len(SegmentsOf[model]) + 1, Len(msg.path))
           Body == [msg.body EXCEPT !["model"] = other]
           r == ReplaceRequestModel(msg, model, other)
<1>1. r = <<msg>> \/ r = <<[msg EXCEPT !.path = Path]>> \/ r = <<[msg EXCEPT !.body = Body]>>
  BY DEF ReplaceRequestModel
<1> HIDE DEF Path, Body, r
<1>2. r[1] = msg \/ r[1] = [msg EXCEPT !.path = Path] \/ r[1] = [msg EXCEPT !.body = Body]
  BY <1>1
<1>3. IsMessage(r[1]) /\ r[1].kind = msg.kind /\ r[1].upstream = msg.upstream
  BY <1>2 DEF IsMessage
<1> QED BY <1>3 DEF r

\* A body that names a model.
Names(body, model) == "model" \in DOMAIN body /\ body["model"] = model

\* What is put over a body may name the model, or leave it.
LEMMA OverNames ==
    ASSUME NEW f, NEW g, NEW model,
           Names(f, model) \/ ("model" \notin DOMAIN f /\ Names(g, model))
    PROVE  Names(Over(f, g), model)
<1> DEFINE o == Over(f, g)
<1>1. /\ DOMAIN o = DOMAIN f \union DOMAIN g
      /\ \A x \in DOMAIN f : o[x] = f[x]
      /\ \A x \in DOMAIN g \ DOMAIN f : o[x] = g[x]
  BY OverValues
<1> HIDE DEF o
<1>2. Names(o, model)
  BY <1>1 DEF Names
<1> QED BY <1>2 DEF o

\* Filters never touch the model but for the name of useModelName.
LEMMA FiltersKeepModel ==
    ASSUME NEW body, NEW model, Names(body, model), NEW requested, NEW useModelName, NEW f
    PROVE  Names(ApplyFilters(body, requested, useModelName, f),
                 IF useModelName = "" THEN model ELSE useModelName)
<1> DEFINE named == IF useModelName = "" THEN body ELSE Over([model |-> useModelName], body)
           kept == [p \in DOMAIN named \ (f.strip \ Protected) |-> named[p]]
           byID == IF requested \in DOMAIN f.byID THEN f.byID[requested] ELSE <<>>
           final == IF useModelName = "" THEN model ELSE useModelName
<1>1. Names(named, final)
  <2>1. CASE useModelName = ""
    BY <2>1
  <2>2. CASE useModelName # ""
    <3> DEFINE one == [model |-> useModelName]
    <3>1. Names(one, useModelName)
      BY DEF Names
    <3> HIDE DEF one
    <3>2. Names(Over(one, body), useModelName)
      BY <3>1, OverNames
    <3> QED BY <2>2, <3>2 DEF one
  <2> QED BY <2>1, <2>2
<1>2. Names(kept, final)
  <2> HIDE DEF named, final
  <2> QED BY <1>1 DEF Protected, Names
<1>3. ASSUME NEW b, Names(b, final), NEW params
      PROVE  Names(Overridden(b, params), final)
  <2> DEFINE own == [p \in DOMAIN params \ Protected |-> params[p]]
  <2>1. "model" \notin DOMAIN own
    BY DEF Protected
  <2>2. Overridden(b, params) = Over(own, b)
    BY DEF Overridden
  <2> HIDE DEF own, final
  <2> QED BY <1>3, <2>1, <2>2, OverNames
<1>4. ApplyFilters(body, requested, useModelName, f) = Overridden(Overridden(kept, f.set), byID)
  BY DEF ApplyFilters
<1> HIDE DEF kept, byID, named
<1>5. Names(Overridden(kept, f.set), final)
  BY <1>2, <1>3
<1>6. Names(Overridden(Overridden(kept, f.set), byID), final)
  BY <1>3, <1>5
<1> QED BY <1>4, <1>6

\* localPeerHandler: to the local router, ...
LEMMA DispatchLocal ==
    ASSUME NEW c, NEW ctx, NEW msg, LocalHandles(c, ctx.modelID)
    PROVE  /\ Dispatch(c, ctx, msg).dest = <<"local", ctx.modelID>>
           /\ Dispatch(c, ctx, msg).body = msg.body
<1> DEFINE id == ctx.modelID
           body == msg.body
           local == [dest |-> <<"local", id>>, body |-> body, code |-> 0]
<1>1. Dispatch(c, ctx, msg) = local
  BY DEF Dispatch
<1>2. local.dest = <<"local", id>> /\ local.body = body
  <2> HIDE DEF id, body
  <2> QED OBVIOUS
<1> HIDE DEF local
<1> QED BY <1>1, <1>2

\* ... or to a peer, with the peer's own name for the model.
LEMMA DispatchPeer ==
    ASSUME NEW c, NEW ctx, NEW msg, ~ LocalHandles(c, ctx.modelID),
           NEW route, route = ResolvePeerModel(c, ctx.modelID),
           NEW named,
           named = IF ctx.model = route[2] THEN <<msg>> ELSE ReplaceRequestModel(msg, ctx.model, route[2]),
           Dispatch(c, ctx, msg).dest # <<>>
    PROVE  /\ route # <<>> /\ named # <<>>
           /\ Dispatch(c, ctx, msg).dest = <<"peer", route[1], route[2]>>
           /\ Dispatch(c, ctx, msg).body = named[1].body
<1> DEFINE peer == [dest |-> <<"peer", route[1], route[2]>>, body |-> named[1].body, code |-> 0]
<1>1. Dispatch(c, ctx, msg) =
        IF route = <<>> THEN Answer(404) ELSE IF named = <<>> THEN Answer(400) ELSE peer
  BY DEF Dispatch
<1>2. peer.dest = <<"peer", route[1], route[2]>> /\ peer.body = named[1].body
  OBVIOUS
<1>3. \A code : Answer(code).dest = <<>>
  BY DEF Answer
<1> HIDE DEF peer
<1> QED BY <1>1, <1>2, <1>3

\* A request with a body, forwarded to a router, names the model for it.
LEMMA ForwardedNamed ==
    ASSUME NEW c, Loaded(c), Complete(c),
           NEW msg, IsMessage(msg), ~ msg.upstream, msg.kind = "json",
           Forwarded(c, msg).dest # <<>>
    PROVE  KnownThere(c, Forwarded(c, msg).dest, Forwarded(c, msg).body)
<1> DEFINE model == ExtractModel(msg)
           ctx == FetchContext(c, model)
           real == RealModelName(c, model)
           peer == ResolvePeerModel(c, model)
           filtered == Filtered(c, ctx, msg)
<1>1. /\ model # "" /\ filtered # <<>>
      /\ Forwarded(c, msg) = Dispatch(c, ctx, filtered[1])
  BY DEF Forwarded, Answer, FetchContext
<1>2. msg.readable /\ "model" \in DOMAIN msg.body /\ msg.body["model"] = model
  BY <1>1 DEF ExtractModel
<1>3. ctx.model = model /\ ctx.modelID = IF real = Absent THEN model ELSE real
  BY DEF FetchContext
<1> HIDE DEF model
<1>4. CASE real # Absent
  <2> DEFINE use == c.models[real].useModelName
             body == ApplyFilters(msg.body, model, use, c.models[real])
  <2>1. filtered = <<[msg EXCEPT !.body = body]>>
    BY <1>3, <1>4 DEF Filtered
  <2>2. use # "" => body["model"] = use
    <3>1. Names(msg.body, model)
      BY <1>2 DEF Names
    <3>2. Names(body, IF use = "" THEN model ELSE use)
      BY <3>1, FiltersKeepModel
    <3> HIDE DEF body, use
    <3> QED BY <3>2 DEF Names
  <2>3. filtered[1].body = body
    <3> HIDE DEF body, filtered
    <3> QED BY <2>1 DEF IsMessage
  <2>4. LocalHandles(c, ctx.modelID) /\ ctx.modelID = real
    BY <1>3, <1>4, LocalTakes
  <2> HIDE DEF ctx, filtered
  <2>5. /\ Forwarded(c, msg).dest = <<"local", ctx.modelID>>
        /\ Forwarded(c, msg).body = filtered[1].body
    <3> DEFINE out1 == filtered[1]
    <3>1. Forwarded(c, msg) = Dispatch(c, ctx, out1) /\ LocalHandles(c, ctx.modelID)
      BY <1>1, <2>4
    <3> HIDE DEF out1
    <3>2. /\ Dispatch(c, ctx, out1).dest = <<"local", ctx.modelID>>
          /\ Dispatch(c, ctx, out1).body = out1.body
      BY <3>1, DispatchLocal
    <3>3. /\ Forwarded(c, msg).dest = <<"local", ctx.modelID>>
          /\ Forwarded(c, msg).body = out1.body
      BY <3>1, <3>2
    <3> QED BY <3>3 DEF out1
  <2>6. Forwarded(c, msg).dest = <<"local", real>> /\ Forwarded(c, msg).body = body
    BY <2>3, <2>4, <2>5
  <2>7. c.models[real].useModelName = use
    OBVIOUS
  <2> DEFINE dest == Forwarded(c, msg).dest
             sent == Forwarded(c, msg).body
  <2>8. dest = <<"local", real>> /\ sent = body
    BY <2>6
  <2> HIDE DEF body, real, use, dest, sent
  <2>9. dest[1] # "peer" /\ dest[2] = real
    BY <2>8
  <2>10. KnownThere(c, dest, sent)
    BY <2>2, <2>7, <2>8, <2>9 DEF KnownThere
  <2> QED BY <2>10 DEF dest, sent
<1>5. CASE real = Absent
  <2>1. ctx.modelID = model /\ ~ LocalHandles(c, ctx.modelID)
    BY <1>3, <1>5, LocalTakes
  <2>2. peer # <<>>
    <3> DEFINE out1 == filtered[1]
               named1 == IF ctx.model = peer[2] THEN <<out1>> ELSE ReplaceRequestModel(out1, ctx.model, peer[2])
    <3>1. Dispatch(c, ctx, out1).dest # <<>>
      BY <1>1
    <3>2. peer = ResolvePeerModel(c, ctx.modelID)
      BY <2>1
    <3> HIDE DEF ctx, out1, peer
    <3> QED BY <2>1, <3>1, <3>2, DispatchPeer
  <2> DEFINE body == ApplyFilters(msg.body, model, "", c.peers[peer[1]])
             out == [msg EXCEPT !.body = body]
  <2>3. filtered = <<out>>
    BY <1>3, <1>5, <2>2 DEF Filtered
  <2>4. "model" \in DOMAIN body /\ body["model"] = model
    <3>1. Names(msg.body, model)
      BY <1>2 DEF Names
    <3>2. Names(body, IF "" = "" THEN model ELSE "")
      BY <3>1, FiltersKeepModel
    <3> HIDE DEF body
    <3> QED BY <3>2 DEF Names
  <2>5. out.body = body /\ out.upstream = msg.upstream /\ out.readable = msg.readable
    <3> HIDE DEF body
    <3> QED BY DEF IsMessage
  <2>6. IsMessage(out)
    <3> HIDE DEF body
    <3> QED BY DEF IsMessage
  <2> HIDE DEF body, out, peer, real
  <2>7. ExtractModel(out) = model
    BY <1>2, <2>4, <2>5 DEF ExtractModel
  <2> DEFINE named == IF model = peer[2] THEN <<out>> ELSE ReplaceRequestModel(out, model, peer[2])
  <2>8. /\ Forwarded(c, msg).dest = <<"peer", peer[1], peer[2]>>
        /\ Forwarded(c, msg).body = named[1].body
        /\ named # <<>>
    <3>1. Forwarded(c, msg) = Dispatch(c, ctx, out)
      <4> HIDE DEF ctx, filtered
      <4> QED BY <1>1, <2>3
    <3>2. /\ peer = ResolvePeerModel(c, ctx.modelID)
          /\ named = IF ctx.model = peer[2] THEN <<out>> ELSE ReplaceRequestModel(out, ctx.model, peer[2])
      BY <1>3, <2>1 DEF peer
    <3> HIDE DEF ctx, named
    <3> QED BY <2>1, <3>1, <3>2, DispatchPeer
  <2>9. named[1].body["model"] = peer[2]
    <3>1. CASE model = peer[2]
      BY <3>1, <2>4, <2>5
    <3>2. CASE model # peer[2]
      <4>1. ReplaceRequestModel(out, model, peer[2]) =
              IF out.rewritable THEN <<[out EXCEPT !.body = [@ EXCEPT !["model"] = peer[2]]]>> ELSE <<>>
        BY <2>5, <2>7, Replaced
      <4>2. named[1] = [out EXCEPT !.body = [out.body EXCEPT !["model"] = peer[2]]]
        BY <3>2, <4>1, <2>8
      <4> HIDE DEF named
      <4>3. named[1].body = [out.body EXCEPT !["model"] = peer[2]]
        BY <4>2, <2>6 DEF IsMessage
      <4> QED BY <4>3, <2>4, <2>5
    <3> QED BY <3>1, <3>2
  <2> HIDE DEF named
  <2> QED BY <2>8, <2>9 DEF KnownThere
<1> QED BY <1>4, <1>5


-----------------------------------------------------------------------------
(* Invariants.                                                             *)

\* The server has one configuration, as it was loaded.
ConfigKept == \E raw \in RawConfigs : config = Load(raw)

ReqShape == DOMAIN req = Requests /\ \A q \in Requests : DOMAIN req[q] = DOMAIN Idle

\* What a request holds of a message, and what it was sent to.
NamedInv ==
    /\ ConfigKept /\ ReqShape
    /\ \A q \in Requests :
           /\ req[q].pc # "idle" => IsMessage(req[q].msg)
           /\ req[q].pc = "idle" => req[q].dest = <<>>
           /\ req[q].dest # <<>> /\ req[q].msg.kind = "json" /\ ~ req[q].msg.upstream =>
                  KnownThere(config, req[q].dest, req[q].body)

\* The models a selector may send to, by their names.
TargetNames(c, s) == {SpilloverName(c, u) : u \in ToSet(c.selectors[s].targets)}

\* A request that has a reservation, and those that have one of a target.
Holds(item, c, s, t) ==
    /\ item.pc \in {"reserved", "serving"} /\ item.selector = s
    /\ SpilloverName(c, item.target) = t

Holders(items, c, s, t) == {q \in Requests : Holds(items[q], c, s, t)}

\* Where a request is with its selector: it has none before it looks, one with a
\* tracker while it reserves, and once it has reserved a target of that selector.
Placed(item, c) ==
    /\ item.pc \in {"idle", "pinned"} => item.selector = ""
    /\ item.pc \in {"looked", "reserved"} => item.selector \in Spillovers(c)
    /\ item.pc \in {"reserved", "serving"} /\ item.selector \in Spillovers(c) =>
           SpilloverName(c, item.target) \in TargetNames(c, item.selector)
    /\ item.pc = "looked" => \A m \in DOMAIN item.seen : item.seen[m] # "stopped"

Reservations ==
    /\ DOMAIN counts = Spillovers(config) /\ DOMAIN rr = Spillovers(config)
    /\ \A s \in Spillovers(config) :
           /\ rr[s] \in Nat
           /\ DOMAIN counts[s] = TargetNames(config, s)
           /\ \A t \in TargetNames(config, s) :
                  counts[s][t] = Cardinality(Holders(req, config, s, t))

CountInv ==
    /\ ConfigKept /\ ReqShape
    /\ config.ok => Reservations /\ \A q \in Requests : Placed(req[q], config)
    /\ ~ config.ok => counts = <<>>

-----------------------------------------------------------------------------
(* Every listed name is routed.                                            *)

\* No step changes the configuration.
LEMMA StepKeepsConfig ==
    ASSUME RequestNext
    PROVE  UNCHANGED config
BY DEF RequestNext, Arrive, ServeUpstream, SelectNow, Look, Reserve, Forward, Finish,
       SetActiveProfile, ProcessMoves

LEMMA StepKeepsRaw ==
    ASSUME ConfigKept, [RequestNext]_reqVars
    PROVE  ConfigKept'
<1>1. config' = config
  BY StepKeepsConfig DEF reqVars
<1> QED BY <1>1 DEF ConfigKept

LEMMA InitKeepsRaw ==
    ASSUME RequestInit
    PROVE  ConfigKept
BY DEF RequestInit, Serve, ConfigKept

\* What is read of a configuration that serves leads somewhere.
LEMMA ConfigSound ==
    ASSUME ConfigKept, config.ok
    PROVE  /\ Loaded(config)
           /\ (\A raw \in RawConfigs : DefaultGroup \notin DOMAIN EffectiveGroups(raw)) =>
                  Complete(config)
<1>1. PICK raw \in RawConfigs : config = Load(raw)
  BY DEF ConfigKept
<1> QED BY <1>1, LoadedSound

\* A configuration in which no group is named as the default one.
LEMMA ListedRouted ==
    ASSUME ConfigKept,
           \A raw \in RawConfigs : DefaultGroup \notin DOMAIN EffectiveGroups(raw)
    PROVE  ListedIsRouted
<1> SUFFICES ASSUME config.ok, NEW name \in ListedModels(config, active),
                    NEW pinned,
                    pinned = IF name \in DOMAIN Pins(config, active)
                               THEN Pins(config, active)[name] ELSE name,
                    NEW targets,
                    targets = IF pinned \in DOMAIN config.selectors
                                THEN ToSet(config.selectors[pinned].targets) ELSE {pinned},
                    pinned # "", NEW t \in targets
             PROVE  Dispatch(config, FetchContext(config, t),
                             [upstream |-> FALSE, readable |-> TRUE, rewritable |-> TRUE,
                              body |-> [model |-> t]]).dest # <<>>
  BY DEF ListedIsRouted
<1>1. Loaded(config) /\ Complete(config)
  BY ConfigSound
<1>2. Leads(config, t)
  BY <1>1, ListedGoes
<1> DEFINE msg == [upstream |-> FALSE, readable |-> TRUE, rewritable |-> TRUE, body |-> [model |-> t]]
<1>3. ~ msg.upstream /\ msg.rewritable /\ ExtractModel(msg) = t
  BY DEF ExtractModel
<1> HIDE DEF msg
<1>4. Dispatch(config, FetchContext(config, t), msg).dest # <<>>
  BY <1>1, <1>2, <1>3, LeadsSomewhere
<1> QED BY <1>4 DEF msg

\* handleListModels shows only what can be asked for: every name it lists, under
\* any profile and with any target its selector picks, reaches a router.  It
\* needs that no group is called "(default)", as AddDefaultGroupToConfig
\* replaces a group of that name and its members with it.
THEOREM ListedIsRoutedTheorem ==
    ASSUME \A raw \in RawConfigs : DefaultGroup \notin DOMAIN EffectiveGroups(raw)
    PROVE  RequestSpec => []ListedIsRouted
<1>1. RequestInit => ConfigKept
  BY InitKeepsRaw
<1>2. ConfigKept /\ [RequestNext]_reqVars => ConfigKept'
  BY StepKeepsRaw
<1>3. ConfigKept => ListedIsRouted
  BY ListedRouted
<1> QED BY <1>1, <1>2, <1>3, PTL DEF RequestSpec

-----------------------------------------------------------------------------
(* What a request is sent as.                                              *)

\* A handler answers a request, or a router gets it: nobody else's changes.
LEMMA OutcomeFields ==
    ASSUME ReqShape, NEW q \in Requests, NEW msg, NEW result, Outcome(q, msg, result)
    PROVE  /\ ReqShape'
           /\ \A p \in Requests : p # q => req'[p] = req[p]
           /\ req'[q].msg = msg /\ req'[q].dest = result.dest /\ req'[q].body = result.body
           /\ req'[q].pc = IF result.dest = <<>> THEN "answered" ELSE "serving"
           /\ req'[q].selector = req[q].selector /\ req'[q].target = req[q].target
<1> DEFINE pc == IF result.dest = <<>> THEN "answered" ELSE "serving"
           dest == result.dest
           body == result.body
           code == result.code
           old == req[q]
           new == [old EXCEPT !.msg = msg, !.dest = dest, !.body = body, !.code = code, !.pc = pc]
<1>1. req' = [req EXCEPT ![q] = new]
  BY DEF Outcome
<1>2. DOMAIN req = Requests /\ DOMAIN old = DOMAIN Idle
  BY DEF ReqShape
<1> HIDE DEF pc, dest, body, code
<1>3. /\ new.msg = msg /\ new.dest = dest /\ new.body = body /\ new.pc = pc
      /\ new.selector = old.selector /\ new.target = old.target /\ DOMAIN new = DOMAIN Idle
  BY <1>2 DEF Idle
<1> HIDE DEF new
<1>4. /\ req'[q] = new /\ DOMAIN req' = Requests
      /\ \A p \in Requests : p # q => req'[p] = req[p]
  BY <1>1, <1>2
<1>5. ReqShape'
  BY <1>2, <1>3, <1>4 DEF ReqShape
<1> QED BY <1>3, <1>4, <1>5 DEF pc, dest, body

\* What holds of one request, for a step that gives it an outcome.
Sound(item, c) ==
    /\ item.pc # "idle" => IsMessage(item.msg)
    /\ item.pc = "idle" => item.dest = <<>>
    /\ item.dest # <<>> /\ item.msg.kind = "json" /\ ~ item.msg.upstream =>
           KnownThere(c, item.dest, item.body)

LEMMA NamedByItem ==
    NamedInv <=> ConfigKept /\ ReqShape /\ \A q \in Requests : Sound(req[q], config)
BY DEF NamedInv, Sound

\* A step that changes one request keeps what holds of each.
LEMMA NamedStep ==
    ASSUME NamedInv, ConfigKept', ReqShape', config' = config, NEW q \in Requests,
           \A p \in Requests : p # q => req'[p] = req[p],
           Sound(req'[q], config)
    PROVE  NamedInv'
<1>1. \A p \in Requests : Sound(req[p], config)
  BY NamedByItem
<1>2. \A p \in Requests : Sound(req'[p], config')
  BY <1>1
<1> QED BY <1>2 DEF NamedInv, Sound

\* An outcome is sound if it names the model for where it goes.
LEMMA OutcomeSound ==
    ASSUME NamedInv, ConfigKept', config' = config, NEW q \in Requests,
           NEW msg, IsMessage(msg), NEW result, Outcome(q, msg, result),
           result.dest # <<>> /\ msg.kind = "json" /\ ~ msg.upstream =>
               KnownThere(config, result.dest, result.body)
    PROVE  NamedInv'
<1>1. ReqShape
  BY DEF NamedInv
<1>2. /\ ReqShape' /\ \A p \in Requests : p # q => req'[p] = req[p]
      /\ req'[q].msg = msg /\ req'[q].dest = result.dest /\ req'[q].body = result.body
      /\ req'[q].pc = IF result.dest = <<>> THEN "answered" ELSE "serving"
  BY <1>1, OutcomeFields
<1>3. req'[q].pc # "idle"
  BY <1>2
<1>4. Sound(req'[q], config)
  BY <1>2, <1>3 DEF Sound
<1> QED BY <1>2, <1>4, NamedStep

\* The message a selector or a pin is put into, forwarded.
LEMMA ReplacedForwarded ==
    ASSUME NEW c, Loaded(c), Complete(c), NEW msg, IsMessage(msg), NEW model, NEW other,
           NEW updated, updated = ReplaceRequestModel(msg, model, other), updated # <<>>
    PROVE  /\ IsMessage(updated[1]) /\ updated[1].upstream = msg.upstream
           /\ Forwarded(c, updated[1]).dest # <<>> /\ updated[1].kind = "json" /\ ~ updated[1].upstream =>
                  KnownThere(c, Forwarded(c, updated[1]).dest, Forwarded(c, updated[1]).body)
<1> DEFINE new == updated[1]
<1>1. IsMessage(new) /\ new.upstream = msg.upstream
  BY ReplacedIsMessage
<1> HIDE DEF new
<1>2. Forwarded(c, new).dest # <<>> /\ new.kind = "json" /\ ~ new.upstream =>
          KnownThere(c, Forwarded(c, new).dest, Forwarded(c, new).body)
  BY <1>1, ForwardedNamed
<1> QED BY <1>1, <1>2 DEF new

LEMMA AnswerDest == \A code : Answer(code).dest = <<>>
  BY DEF Answer

\* CreateAuthMiddleware and CreateProfileMiddleware: a message, and no destination.
LEMMA ArriveNamed ==
    ASSUME NamedInv, ConfigKept', NEW q \in Requests, NEW msg \in Messages, Arrive(q, msg)
    PROVE  NamedInv'
<1> DEFINE pinned == WithProfile(config, active, msg)
<1>1. config' = config /\ req[q].pc = "idle"
  BY DEF Arrive
<1>2. IsMessage(msg)
  BY MessagesTyped DEF IsMessage
<1>3. ASSUME NEW code, Outcome(q, msg, Answer(code))
      PROVE  NamedInv'
  <2> DEFINE result == Answer(code)
  <2>1. result.dest = <<>> /\ Outcome(q, msg, result)
    BY <1>3, AnswerDest
  <2> HIDE DEF result
  <2> QED BY <1>1, <1>2, <2>1, OutcomeSound
<1>4. CASE Outcome(q, msg, Answer(401)) \/ Outcome(q, msg, Answer(400))
  BY <1>3, <1>4
<1>5. ASSUME pinned # <<>>, req' = [req EXCEPT ![q] = [@ EXCEPT !.msg = pinned[1], !.pc = "pinned"]]
      PROVE  NamedInv'
  <2>1. IsMessage(pinned[1])
    <3> DEFINE pin == PinOf(config, active, msg)
               other == Pins(config, active)[pin]
    <3>1. pinned = IF pin = "" THEN <<msg>> ELSE ReplaceRequestModel(msg, pin, other)
      BY DEF WithProfile
    <3> HIDE DEF pin, other, pinned
    <3>2. CASE pin = ""
      BY <3>1, <3>2, <1>2
    <3>3. CASE pin # ""
      BY <3>1, <3>3, <1>2, <1>5, ReplacedIsMessage
    <3> QED BY <3>2, <3>3
  <2> DEFINE first == pinned[1]
             old == req[q]
             new == [old EXCEPT !.msg = first, !.pc = "pinned"]
  <2>2. req' = [req EXCEPT ![q] = new]
    BY <1>5
  <2>3. DOMAIN req = Requests /\ DOMAIN old = DOMAIN Idle /\ \A p \in Requests : DOMAIN req[p] = DOMAIN Idle
    BY DEF NamedInv, ReqShape
  <2>4. old.dest = <<>>
    BY <1>1 DEF NamedInv
  <2> HIDE DEF first, old, pinned
  <2>5. new.msg = first /\ new.pc = "pinned" /\ new.dest = <<>> /\ DOMAIN new = DOMAIN Idle
    BY <2>3, <2>4 DEF Idle
  <2> HIDE DEF new
  <2>6. req'[q] = new /\ DOMAIN req' = Requests /\ \A p \in Requests : p # q => req'[p] = req[p]
    BY <2>2, <2>3
  <2>7. ReqShape'
    BY <2>3, <2>5, <2>6 DEF ReqShape
  <2>8. Sound(req'[q], config)
    BY <2>1, <2>5, <2>6 DEF Sound, first
  <2> QED BY <1>1, <2>6, <2>7, <2>8, NamedStep
<1> HIDE DEF pinned
<1>6. \/ Outcome(q, msg, Answer(401)) \/ Outcome(q, msg, Answer(400))
      \/ pinned # <<>> /\ req' = [req EXCEPT ![q] = [@ EXCEPT !.msg = pinned[1], !.pc = "pinned"]]
  BY DEF Arrive, pinned
<1> QED BY <1>4, <1>5, <1>6

\* A path under /upstream/ is passed on as it is.
LEMMA UpstreamKept ==
    ASSUME NamedInv, ConfigKept', NEW q \in Requests, ServeUpstream(q)
    PROVE  NamedInv'
<1> DEFINE msg == req[q].msg
           result == Upstream(config, msg, RunningModels)
<1>1. config' = config /\ req[q].pc = "pinned" /\ msg.upstream /\ Outcome(q, msg, result)
  BY DEF ServeUpstream
<1>2. IsMessage(msg)
  BY <1>1 DEF NamedInv
<1> HIDE DEF msg, result
<1> QED BY <1>1, <1>2, OutcomeSound

\* Forwarded at once, as a model or in place of a warm or a pinned selector.
LEMMA SelectNowNamed ==
    ASSUME NamedInv, ConfigKept', Loaded(config), Complete(config), NEW q \in Requests, SelectNow(q)
    PROVE  NamedInv'
<1> DEFINE msg == req[q].msg
           model == ExtractModel(msg)
           s == config.selectors[model]
           target == IF s.strategy = "pin" THEN Head(s.targets)
                     ELSE StrategyWarm(config, model, RunningModels)
           updated == IF model \in DOMAIN config.selectors THEN ReplaceRequestModel(msg, model, target)
                      ELSE <<msg>>
           result == Forwarded(config, updated[1])
<1>1. /\ config' = config /\ req[q].pc = "pinned"
      /\ IF updated = <<>> THEN Outcome(q, msg, Answer(400)) ELSE Outcome(q, updated[1], result)
  BY DEF SelectNow
<1>2. IsMessage(msg)
  BY <1>1 DEF NamedInv
<1> HIDE DEF msg, model, s, target
<1>3. CASE updated = <<>>
  <2> DEFINE answer == Answer(400)
  <2>1. answer.dest = <<>> /\ Outcome(q, msg, answer)
    BY <1>1, <1>3, AnswerDest
  <2> HIDE DEF answer, updated
  <2> QED BY <1>1, <1>2, <2>1, OutcomeSound
<1>4. CASE updated # <<>>
  <2> DEFINE new == updated[1]
  <2>1. /\ IsMessage(new)
        /\ result.dest # <<>> /\ new.kind = "json" /\ ~ new.upstream =>
               KnownThere(config, result.dest, result.body)
    <3>1. CASE model \in DOMAIN config.selectors
      <4>1. updated = ReplaceRequestModel(msg, model, target)
        BY <3>1
      <4> HIDE DEF updated
      <4> QED BY <4>1, <1>2, <1>4, ReplacedForwarded
    <3>2. CASE model \notin DOMAIN config.selectors
      <4>1. new = msg
        BY <3>2
      <4> HIDE DEF new, updated
      <4>2. result = Forwarded(config, msg)
        BY <4>1 DEF new
      <4> QED BY <4>1, <4>2, <1>2, ForwardedNamed
    <3> QED BY <3>1, <3>2
  <2>2. Outcome(q, new, result)
    BY <1>1, <1>4
  <2> HIDE DEF new, updated, result
  <2> QED BY <1>1, <2>1, <2>2, OutcomeSound
<1> QED BY <1>3, <1>4

\* Forwarded to the target of a spillover selector.
LEMMA ForwardNamed ==
    ASSUME NamedInv, ConfigKept', Loaded(config), Complete(config), NEW q \in Requests, Forward(q)
    PROVE  NamedInv'
<1> DEFINE msg == req[q].msg
           updated == ReplaceRequestModel(msg, ExtractModel(msg), req[q].target)
           sent == IF updated = <<>> THEN msg ELSE updated[1]
           result == IF updated = <<>> THEN Answer(400) ELSE Forwarded(config, updated[1])
<1>1. config' = config /\ req[q].pc = "reserved" /\ Outcome(q, sent, result)
  BY DEF Forward
<1>2. IsMessage(msg)
  BY <1>1 DEF NamedInv
<1>3. /\ IsMessage(sent)
      /\ result.dest # <<>> /\ sent.kind = "json" /\ ~ sent.upstream =>
             KnownThere(config, result.dest, result.body)
  <2>1. CASE updated = <<>>
    BY <2>1, <1>2, AnswerDest
  <2>2. CASE updated # <<>>
    <3> DEFINE model == ExtractModel(msg)
               other == req[q].target
    <3>1. updated = ReplaceRequestModel(msg, model, other)
      OBVIOUS
    <3>2. sent = updated[1] /\ result = Forwarded(config, updated[1])
      BY <2>2
    <3> HIDE DEF updated, model, other, msg, sent, result
    <3>3. /\ IsMessage(updated[1])
          /\ Forwarded(config, updated[1]).dest # <<>> /\ updated[1].kind = "json" /\ ~ updated[1].upstream =>
                 KnownThere(config, Forwarded(config, updated[1]).dest, Forwarded(config, updated[1]).body)
      BY <3>1, <1>2, <2>2, ReplacedForwarded
    <3> QED BY <3>2, <3>3
  <2> QED BY <2>1, <2>2
<1> HIDE DEF sent, result
<1> QED BY <1>1, <1>3, OutcomeSound

\* A spillover selector looks at the running models, ...
LEMMA LookFields ==
    ASSUME ReqShape, NEW q \in Requests, Look(q)
    PROVE  /\ ReqShape' /\ config' = config
           /\ \A p \in Requests : p # q => req'[p] = req[p]
           /\ req[q].pc = "pinned" /\ req'[q].pc = "looked"
           /\ req'[q].msg = req[q].msg /\ req'[q].dest = req[q].dest /\ req'[q].body = req[q].body
           /\ req'[q].selector = ExtractModel(req[q].msg) /\ req'[q].seen = RunningModels
           /\ req'[q].target = req[q].target
<1> DEFINE model == ExtractModel(req[q].msg)
           seen == RunningModels
           old == req[q]
           new == [old EXCEPT !.pc = "looked", !.selector = model, !.seen = seen]
<1>1. req' = [req EXCEPT ![q] = new] /\ config' = config /\ old.pc = "pinned"
  BY DEF Look
<1>2. DOMAIN req = Requests /\ \A p \in Requests : DOMAIN req[p] = DOMAIN Idle
  BY DEF ReqShape
<1>3. DOMAIN old = DOMAIN Idle
  BY <1>2
<1> HIDE DEF model, seen, old
<1>4. /\ new.pc = "looked" /\ new.selector = model /\ new.seen = seen /\ DOMAIN new = DOMAIN Idle
      /\ new.msg = old.msg /\ new.dest = old.dest /\ new.body = old.body /\ new.target = old.target
  BY <1>3 DEF Idle
<1> HIDE DEF new
<1>5. req'[q] = new /\ DOMAIN req' = Requests /\ \A p \in Requests : p # q => req'[p] = req[p]
  BY <1>1, <1>2
<1>6. ReqShape'
  BY <1>2, <1>4, <1>5 DEF ReqShape
<1> QED BY <1>1, <1>4, <1>5, <1>6 DEF model, seen, old

\* ... reserves a target, or has none to reserve, ...
LEMMA ReserveFields ==
    ASSUME ReqShape, NEW q \in Requests, Reserve(q),
           NEW choice, choice = StrategySpillover(config, req[q].selector, req[q].seen,
                                                  counts[req[q].selector], rr[req[q].selector]),
           choice # <<>>
    PROVE  /\ ReqShape' /\ config' = config
           /\ \A p \in Requests : p # q => req'[p] = req[p]
           /\ req[q].pc = "looked" /\ req'[q].pc = "reserved" /\ req'[q].target = choice[1].target
           /\ req'[q].msg = req[q].msg /\ req'[q].dest = req[q].dest /\ req'[q].body = req[q].body
           /\ req'[q].selector = req[q].selector
<1> DEFINE target == choice[1].target
           old == req[q]
           new == [old EXCEPT !.pc = "reserved", !.target = target]
<1>1. req' = [req EXCEPT ![q] = new] /\ config' = config /\ old.pc = "looked"
  BY DEF Reserve
<1>2. DOMAIN req = Requests /\ \A p \in Requests : DOMAIN req[p] = DOMAIN Idle
  BY DEF ReqShape
<1>3. DOMAIN old = DOMAIN Idle
  BY <1>2
<1> HIDE DEF target, old
<1>4. /\ new.pc = "reserved" /\ new.target = target /\ DOMAIN new = DOMAIN Idle
      /\ new.msg = old.msg /\ new.dest = old.dest /\ new.body = old.body /\ new.selector = old.selector
  BY <1>3 DEF Idle
<1> HIDE DEF new
<1>5. req'[q] = new /\ DOMAIN req' = Requests /\ \A p \in Requests : p # q => req'[p] = req[p]
  BY <1>1, <1>2
<1>6. ReqShape'
  BY <1>2, <1>4, <1>5 DEF ReqShape
<1> QED BY <1>1, <1>4, <1>5, <1>6 DEF target, old

\* ... and the response ends.
LEMMA FinishFields ==
    ASSUME ReqShape, NEW q \in Requests, Finish(q)
    PROVE  /\ ReqShape' /\ config' = config
           /\ \A p \in Requests : p # q => req'[p] = req[p]
           /\ req[q].pc = "serving" /\ req'[q].pc = "answered"
           /\ req'[q].msg = req[q].msg /\ req'[q].dest = req[q].dest /\ req'[q].body = req[q].body
           /\ req'[q].selector = req[q].selector /\ req'[q].target = req[q].target
<1> DEFINE old == req[q]
           new == [old EXCEPT !.pc = "answered", !.code = 200]
<1>1. req' = [req EXCEPT ![q] = new] /\ config' = config /\ old.pc = "serving"
  BY DEF Finish
<1>2. DOMAIN req = Requests /\ \A p \in Requests : DOMAIN req[p] = DOMAIN Idle
  BY DEF ReqShape
<1>3. DOMAIN old = DOMAIN Idle
  BY <1>2
<1> HIDE DEF old
<1>4. /\ new.pc = "answered" /\ DOMAIN new = DOMAIN Idle /\ new.target = old.target
      /\ new.msg = old.msg /\ new.dest = old.dest /\ new.body = old.body /\ new.selector = old.selector
  BY <1>3 DEF Idle
<1> HIDE DEF new
<1>5. req'[q] = new /\ DOMAIN req' = Requests /\ \A p \in Requests : p # q => req'[p] = req[p]
  BY <1>1, <1>2
<1>6. ReqShape'
  BY <1>2, <1>4, <1>5 DEF ReqShape
<1> QED BY <1>1, <1>4, <1>5, <1>6 DEF old

\* The steps of a selector keep what the request is.
LEMMA OtherStepsNamed ==
    ASSUME NamedInv, ConfigKept', NEW q \in Requests, Look(q) \/ Reserve(q) \/ Finish(q)
    PROVE  NamedInv'
<1>1. ReqShape /\ Sound(req[q], config)
  BY NamedByItem
<1>2. ASSUME ReqShape', config' = config, \A p \in Requests : p # q => req'[p] = req[p],
             req[q].pc # "idle", req'[q].pc # "idle",
             req'[q].msg = req[q].msg, req'[q].dest = req[q].dest, req'[q].body = req[q].body
      PROVE  NamedInv'
  <2>1. Sound(req'[q], config)
    BY <1>1, <1>2 DEF Sound
  <2> QED BY <1>2, <2>1, NamedStep
<1>3. CASE Look(q)
  BY <1>1, <1>2, <1>3, LookFields
<1>4. CASE Reserve(q)
  <2> DEFINE s == req[q].selector
             seen == req[q].seen
             choice == StrategySpillover(config, s, seen, counts[s], rr[s])
  <2>1. CASE choice = <<>>
    <3> DEFINE answer == Answer(503)
               msg == req[q].msg
    <3>1. answer.dest = <<>> /\ Outcome(q, msg, answer) /\ config' = config /\ req[q].pc = "looked"
      BY <1>4, <2>1, AnswerDest DEF Reserve
    <3>2. IsMessage(msg)
      BY <1>1, <3>1 DEF Sound
    <3> HIDE DEF answer, msg
    <3> QED BY <3>1, <3>2, OutcomeSound
  <2>2. CASE choice # <<>>
    <3> HIDE DEF choice
    <3>1. choice = StrategySpillover(config, req[q].selector, req[q].seen,
                                     counts[req[q].selector], rr[req[q].selector])
      BY DEF choice
    <3> QED BY <1>1, <1>2, <1>4, <2>2, <3>1, ReserveFields
  <2> QED BY <2>1, <2>2
<1>5. CASE Finish(q)
  BY <1>1, <1>2, <1>5, FinishFields
<1> QED BY <1>3, <1>4, <1>5

LEMMA NamedInit ==
    ASSUME RequestInit
    PROVE  NamedInv
<1>1. req = [q \in Requests |-> Idle] /\ ConfigKept
  BY InitKeepsRaw DEF RequestInit, Serve
<1>2. Idle.pc = "idle" /\ Idle.dest = <<>>
  BY DEF Idle
<1> QED BY <1>1, <1>2 DEF NamedInv, ReqShape

LEMMA NamedNext ==
    ASSUME NamedInv, [RequestNext]_reqVars,
           \A raw \in RawConfigs : DefaultGroup \notin DOMAIN EffectiveGroups(raw)
    PROVE  NamedInv'
<1>1. ConfigKept'
  BY StepKeepsRaw DEF NamedInv
<1>2. CASE config' = config /\ req' = req
  BY <1>1, <1>2 DEF NamedInv, ReqShape
<1>3. CASE RequestNext
  <2>1. Loaded(config) /\ Complete(config)
    BY <1>3, ConfigSound DEF RequestNext, NamedInv
  <2>2. ASSUME NEW q \in Requests, \E msg \in Messages : Arrive(q, msg)
        PROVE  NamedInv'
    BY <1>1, <2>2, ArriveNamed
  <2>3. ASSUME NEW q \in Requests, ServeUpstream(q)
        PROVE  NamedInv'
    BY <1>1, <2>3, UpstreamKept
  <2>4. ASSUME NEW q \in Requests, SelectNow(q)
        PROVE  NamedInv'
    BY <1>1, <2>1, <2>4, SelectNowNamed
  <2>5. ASSUME NEW q \in Requests, Look(q) \/ Reserve(q) \/ Finish(q)
        PROVE  NamedInv'
    BY <1>1, <2>5, OtherStepsNamed
  <2>6. ASSUME NEW q \in Requests, Forward(q)
        PROVE  NamedInv'
    BY <1>1, <2>1, <2>6, ForwardNamed
  <2>7. ASSUME NEW name, SetActiveProfile(name)
        PROVE  NamedInv'
    BY <1>2, <2>7 DEF SetActiveProfile
  <2>8. ASSUME NEW m, NEW state, ProcessMoves(m, state)
        PROVE  NamedInv'
    BY <1>2, <2>8 DEF ProcessMoves
  <2> QED BY <1>3, <2>2, <2>3, <2>4, <2>5, <2>6, <2>7, <2>8 DEF RequestNext
<1> QED BY <1>2, <1>3 DEF reqVars

\* applyFilters and Peer.ServeHTTP name the model as its destination knows it,
\* whatever the pin, the selector, the alias and the filters made of it.
THEOREM UpstreamNamedTheorem ==
    ASSUME \A raw \in RawConfigs : DefaultGroup \notin DOMAIN EffectiveGroups(raw)
    PROVE  RequestSpec => []UpstreamNamed
<1>1. RequestInit => NamedInv
  BY NamedInit
<1>2. NamedInv /\ [RequestNext]_reqVars => NamedInv'
  BY NamedNext
<1>3. NamedInv => UpstreamNamed
  BY DEF NamedInv, UpstreamNamed, KnownThere
<1> QED BY <1>1, <1>2, <1>3, PTL DEF RequestSpec

-----------------------------------------------------------------------------
(* The choice of a spillover selector.                                     *)

\* A target is chosen from those of the selector; one that nobody uses is chosen
\* only when all that are in use are full (strategySpillover).
LEMMA ChoiceOfSpillover ==
    ASSUME NEW c, NEW s, c.selectors[s].targets \in Seq(STRING),
           NEW snapshot, NEW inflight,
           \A t \in TargetNames(c, s) : inflight[t] \in Nat,
           NEW turn \in Nat,
           NEW choice, choice = StrategySpillover(c, s, snapshot, inflight, turn), choice # <<>>
    PROVE  /\ choice[1].target \in ToSet(c.selectors[s].targets) /\ choice[1].turn \in Nat
           /\ LET picked == SpilloverName(c, choice[1].target)
              IN inflight[picked] = 0 /\ picked \notin DOMAIN snapshot =>
                   \A t \in TargetNames(c, s) :
                      inflight[t] > 0 /\ ~ (t \in DOMAIN snapshot /\ snapshot[t] = "stopping") =>
                          inflight[t] >= c.selectors[s].spillover
<1> DEFINE targets == c.selectors[s].targets
           Name(i) == SpilloverName(c, targets[i])
           Sent(i) == inflight[Name(i)]
           inUse == {i \in DOMAIN targets : ActiveTarget(c, targets[i], snapshot, inflight)}
           cold == {i \in DOMAIN targets : ColdTarget(c, targets[i], snapshot, inflight)}
           tied == {i \in inUse : \A j \in inUse : Sent(i) <= Sent(j)}
           full == \A i \in inUse : Sent(i) >= c.selectors[s].spillover
           leastBusy == Nth(tied, turn % Cardinality(tied))
           first == Nth(cold, 0)
           starting == [target |-> targets[first], turn |-> turn]
           sharing == [target |-> targets[leastBusy], turn |-> turn + 1]
<1>1. Len(targets) \in Nat /\ DOMAIN targets = 1 .. Len(targets)
  OBVIOUS
<1>2. \A i \in DOMAIN targets : targets[i] \in ToSet(targets) /\ Name(i) \in TargetNames(c, s)
  BY DEF ToSet, TargetNames
<1>3. \A i \in DOMAIN targets : Sent(i) \in Nat
  BY <1>2
<1>4. \A t \in TargetNames(c, s) : \E i \in DOMAIN targets : t = Name(i)
  BY DEF ToSet, TargetNames
<1>5. choice = IF cold # {} /\ full THEN <<starting>>
               ELSE IF inUse = {} THEN <<>> ELSE <<sharing>>
  BY DEF StrategySpillover
<1>6. \A T : T \subseteq DOMAIN targets => IsFiniteSet(T) /\ Cardinality(T) \in Nat
  <2>1. IsFiniteSet(1 .. Len(targets))
    BY <1>1, FS_Interval
  <2> HIDE DEF targets
  <2> QED BY <1>1, <2>1, FS_Subset, FS_CardinalityType
<1>7. inUse \subseteq DOMAIN targets /\ cold \subseteq DOMAIN targets /\ tied \subseteq inUse
  OBVIOUS
<1>8. \A i \in DOMAIN targets : Sent(i) > 0 /\ ~ (Name(i) \in DOMAIN snapshot /\ snapshot[Name(i)] = "stopping") =>
          i \in inUse
  BY DEF ActiveTarget
<1>9. \A i \in inUse : ~ (Sent(i) = 0 /\ Name(i) \notin DOMAIN snapshot)
  BY <1>3 DEF ActiveTarget
<1>10. full => \A t \in TargetNames(c, s) :
          inflight[t] > 0 /\ ~ (t \in DOMAIN snapshot /\ snapshot[t] = "stopping") =>
              inflight[t] >= c.selectors[s].spillover
  <2> HIDE DEF inUse, targets, Name
  <2> QED BY <1>4, <1>8
<1>11. \A T, n : T \subseteq DOMAIN targets /\ n \in Nat /\ n < Cardinality(T) => Nth(T, n) \in T
  <2> HIDE DEF targets
  <2>1. ASSUME NEW T, NEW n \in Nat, T \subseteq DOMAIN targets, n < Cardinality(T)
        PROVE  Nth(T, n) \in T
    <3>1. \A j \in T : j \in Nat /\ j >= 1 /\ j <= Len(targets)
      BY <1>1, <2>1
    <3> QED BY <1>1, <2>1, <3>1, NthPlace
  <2> QED BY <2>1
<1>12. CASE cold # {} /\ full
  <2>1. first \in cold
    <3> HIDE DEF cold, targets
    <3>1. Cardinality(cold) # 0
      BY <1>6, <1>7, <1>12, FS_EmptySet
    <3>2. 0 < Cardinality(cold)
      BY <3>1, <1>6, <1>7
    <3> QED BY <3>2, <1>7, <1>11
  <2>2. choice[1] = starting
    <3> HIDE DEF cold, full, starting, sharing, inUse
    <3>1. choice = <<starting>>
      BY ONLY <1>5, <1>12
    <3> QED BY ONLY <3>1
  <2>3. starting.target = targets[first] /\ starting.turn = turn
    <3> HIDE DEF first, targets
    <3> QED OBVIOUS
  <2>4. targets[first] \in ToSet(targets)
    BY <2>1, <1>2, <1>7
  <2> HIDE DEF starting, targets, first, full
  <2> QED BY <1>10, <1>12, <2>2, <2>3, <2>4 DEF targets
<1>13. CASE ~ (cold # {} /\ full)
  <2>1. inUse # {} /\ choice[1] = sharing
    <3> HIDE DEF cold, full, starting, sharing, inUse
    <3>1. inUse # {} /\ choice = <<sharing>>
      BY ONLY <1>5, <1>13, choice # <<>>
    <3> QED BY ONLY <3>1
  <2>2. tied # {}
    <3> DEFINE numbers == {Sent(i) : i \in inUse}
    <3> HIDE DEF inUse, targets, Name, Sent
    <3>1. numbers \in SUBSET Nat /\ numbers # {}
      BY <1>3, <1>7, <2>1
    <3> HIDE DEF numbers
    <3>2. PICK x \in numbers : \A y \in numbers : x <= y
      BY <3>1, LeastElement
    <3>3. \E i \in inUse : \A j \in inUse : Sent(i) <= Sent(j)
      BY <3>2 DEF numbers
    <3> QED BY <3>3
  <2>3. leastBusy \in tied
    <3> DEFINE n == Cardinality(tied)
    <3>1. tied \subseteq DOMAIN targets
      BY <1>7
    <3> HIDE DEF tied, targets
    <3>2. n \in Nat /\ n # 0
      BY <1>6, <2>2, <3>1, FS_EmptySet
    <3> HIDE DEF n
    <3>3. turn % n \in Nat /\ turn % n < n
      BY <3>2
    <3> QED BY <1>11, <3>1, <3>3 DEF n
  <2>4. sharing.target = targets[leastBusy] /\ sharing.turn = turn + 1
    <3> HIDE DEF leastBusy, targets
    <3> QED OBVIOUS
  <2>5. targets[leastBusy] \in ToSet(targets) /\ leastBusy \in inUse
    BY <2>3, <1>2, <1>7
  <2>6. ~ (inflight[SpilloverName(c, targets[leastBusy])] = 0
           /\ SpilloverName(c, targets[leastBusy]) \notin DOMAIN snapshot)
    <3> HIDE DEF leastBusy, inUse
    <3> QED BY <1>9, <2>5
  <2> HIDE DEF sharing, targets, leastBusy
  <2> QED BY <2>1, <2>4, <2>5, <2>6 DEF targets
<1> QED BY <1>12, <1>13

-----------------------------------------------------------------------------
(* The reservations.                                                       *)

\* Who has a reservation does not change, or one more has, or one less.
LEMMA HoldersSame ==
    ASSUME NEW items, NEW after, NEW c, NEW s, NEW t,
           \A q \in Requests : Holds(after[q], c, s, t) <=> Holds(items[q], c, s, t)
    PROVE  Holders(after, c, s, t) = Holders(items, c, s, t)
BY DEF Holders

LEMMA HoldersFinite ==
    ASSUME NEW items, NEW c, NEW s, NEW t
    PROVE  /\ IsFiniteSet(Holders(items, c, s, t))
           /\ Cardinality(Holders(items, c, s, t)) \in Nat
<1>1. Holders(items, c, s, t) \subseteq Requests
  BY DEF Holders
<1> QED BY <1>1, RequestsFinite, FS_Subset, FS_CardinalityType

LEMMA HoldersAdd ==
    ASSUME NEW items, NEW after, NEW c, NEW s, NEW t, NEW q \in Requests,
           \A p \in Requests : p # q => after[p] = items[p],
           ~ Holds(items[q], c, s, t), Holds(after[q], c, s, t)
    PROVE  Cardinality(Holders(after, c, s, t)) = Cardinality(Holders(items, c, s, t)) + 1
<1> DEFINE H == Holders(items, c, s, t)
           G == Holders(after, c, s, t)
<1>1. \A p : p \in G <=> p \in H \/ p = q
  BY DEF Holders
<1>2. q \notin H
  BY DEF Holders
<1>3. IsFiniteSet(H)
  BY HoldersFinite
<1> HIDE DEF G, H
<1>4. G = H \union {q}
  BY <1>1
<1>5. Cardinality(G) = Cardinality(H) + 1
  BY <1>2, <1>3, <1>4, FS_AddElement
<1> QED BY <1>5 DEF G, H

LEMMA HoldersRemove ==
    ASSUME NEW items, NEW after, NEW c, NEW s, NEW t, NEW q \in Requests,
           \A p \in Requests : p # q => after[p] = items[p],
           Holds(items[q], c, s, t), ~ Holds(after[q], c, s, t)
    PROVE  /\ Cardinality(Holders(items, c, s, t)) >= 1
           /\ Cardinality(Holders(after, c, s, t)) = Cardinality(Holders(items, c, s, t)) - 1
<1> DEFINE H == Holders(items, c, s, t)
           G == Holders(after, c, s, t)
<1>1. Cardinality(H) = Cardinality(G) + 1
  <2>1. \A p \in Requests : p # q => items[p] = after[p]
    OBVIOUS
  <2> QED BY <2>1, HoldersAdd
<1>2. Cardinality(H) \in Nat /\ Cardinality(G) \in Nat
  BY HoldersFinite
<1> HIDE DEF G, H
<1>3. Cardinality(H) >= 1 /\ Cardinality(G) = Cardinality(H) - 1
  BY <1>1, <1>2
<1> QED BY <1>3 DEF G, H

\* A step that changes one request, and which of them have reservations in no
\* other way, keeps the reservations.
LEMMA CountsKept ==
    ASSUME CountInv, config.ok, ConfigKept', ReqShape',
           config' = config, counts' = counts, rr' = rr,
           NEW q \in Requests, \A p \in Requests : p # q => req'[p] = req[p],
           Placed(req'[q], config),
           \A s \in Spillovers(config) : \A t : Holds(req'[q], config, s, t) <=> Holds(req[q], config, s, t)
    PROVE  CountInv'
<1>1. /\ Reservations /\ \A p \in Requests : Placed(req[p], config)
  BY DEF CountInv
<1>2. \A p \in Requests : Placed(req'[p], config')
  BY <1>1
<1>3. ASSUME NEW s \in Spillovers(config), NEW t
      PROVE  Holders(req', config, s, t) = Holders(req, config, s, t)
  <2>1. \A p \in Requests : Holds(req'[p], config, s, t) <=> Holds(req[p], config, s, t)
    OBVIOUS
  <2> QED BY <2>1, HoldersSame
<1>4. Reservations'
  BY <1>1, <1>3 DEF Reservations
<1> QED BY <1>2, <1>4 DEF CountInv

\* selectorSpilloverTracker.reserve: one request more.
LEMMA CountsReserved ==
    ASSUME CountInv, config.ok, ConfigKept', ReqShape', config' = config,
           NEW q \in Requests, \A p \in Requests : p # q => req'[p] = req[p],
           NEW s \in Spillovers(config), NEW name \in TargetNames(config, s),
           req[q].pc = "looked", req'[q].pc = "reserved",
           req[q].selector = s, req'[q].selector = s, SpilloverName(config, req'[q].target) = name,
           counts' = [counts EXCEPT ![s] = OneMore(@, name)],
           NEW turn \in Nat, rr' = [rr EXCEPT ![s] = turn]
    PROVE  CountInv'
<1>1. /\ Reservations /\ \A p \in Requests : Placed(req[p], config)
  BY DEF CountInv
<1>2. \A p \in Requests : Placed(req'[p], config')
  BY <1>1 DEF Placed
<1>3. ASSUME NEW u \in Spillovers(config), NEW t
      PROVE  Cardinality(Holders(req', config, u, t)) =
               IF u = s /\ t = name THEN Cardinality(Holders(req, config, u, t)) + 1
               ELSE Cardinality(Holders(req, config, u, t))
  <2>1. ~ Holds(req[q], config, u, t)
    BY DEF Holds
  <2>2. Holds(req'[q], config, u, t) <=> u = s /\ t = name
    BY DEF Holds
  <2>3. CASE u = s /\ t = name
    BY <2>1, <2>2, <2>3, HoldersAdd
  <2>4. CASE ~ (u = s /\ t = name)
    <3>1. \A p \in Requests : Holds(req'[p], config, u, t) <=> Holds(req[p], config, u, t)
      BY <2>1, <2>2, <2>4
    <3> QED BY <2>4, <3>1, HoldersSame
  <2> QED BY <2>3, <2>4
<1> DEFINE row == counts[s]
           newRow == OneMore(row, name)
<1>4. counts' = [counts EXCEPT ![s] = newRow]
  OBVIOUS
<1>5. /\ DOMAIN newRow = DOMAIN row
      /\ name \in DOMAIN row => newRow[name] = row[name] + 1
      /\ \A t \in DOMAIN row : t # name => newRow[t] = row[t]
  <2> HIDE DEF row
  <2> QED BY DEF OneMore
<1> HIDE DEF newRow
<1>6. /\ DOMAIN counts' = DOMAIN counts
      /\ s \in DOMAIN counts => counts'[s] = newRow
      /\ \A u \in DOMAIN counts : u # s => counts'[u] = counts[u]
  BY <1>4
<1>7. /\ DOMAIN rr' = DOMAIN rr /\ s \in DOMAIN rr => rr'[s] = turn
      /\ \A u \in DOMAIN rr : u # s => rr'[u] = rr[u]
  OBVIOUS
<1>8. Reservations'
  <2>1. DOMAIN counts' = Spillovers(config) /\ DOMAIN rr' = Spillovers(config)
    BY <1>1, <1>6, <1>7 DEF Reservations
  <2>2. ASSUME NEW u \in Spillovers(config)
        PROVE  /\ rr'[u] \in Nat /\ DOMAIN counts'[u] = TargetNames(config, u)
               /\ \A t \in TargetNames(config, u) : counts'[u][t] = Cardinality(Holders(req', config, u, t))
    <3>1. /\ rr[u] \in Nat /\ DOMAIN counts[u] = TargetNames(config, u)
          /\ \A t \in TargetNames(config, u) : counts[u][t] = Cardinality(Holders(req, config, u, t))
          /\ u \in DOMAIN counts /\ u \in DOMAIN rr
      BY <1>1 DEF Reservations
    <3>2. CASE u = s
      BY <3>1, <3>2, <1>3, <1>5, <1>6, <1>7
    <3>3. CASE u # s
      BY <3>1, <3>3, <1>3, <1>6, <1>7
    <3> QED BY <3>2, <3>3
  <2> QED BY <2>1, <2>2 DEF Reservations
<1> QED BY <1>2, <1>8 DEF CountInv

\* selectorSpilloverTracker.release: one less, for a selector that has a tracker.
LEMMA CountsReleased ==
    ASSUME CountInv, config.ok, ConfigKept', ReqShape', config' = config, rr' = rr,
           NEW q \in Requests, \A p \in Requests : p # q => req'[p] = req[p],
           req[q].pc \in {"reserved", "serving"}, req'[q].pc = "answered",
           req'[q].selector = req[q].selector,
           GiveBack(req[q].selector, req[q].target)
    PROVE  CountInv'
<1> DEFINE s == req[q].selector
           name == SpilloverName(config, req[q].target)
<1>1. /\ Reservations /\ \A p \in Requests : Placed(req[p], config)
  BY DEF CountInv
<1>2. Placed(req'[q], config)
  BY DEF Placed
<1>3. \A p \in Requests : Placed(req'[p], config')
  BY <1>1, <1>2
<1>4. \A u, t : ~ Holds(req'[q], config, u, t)
  BY DEF Holds
<1>5. \A u, t : Holds(req[q], config, u, t) <=> u = s /\ t = name
  BY DEF Holds
<1>6. DOMAIN counts = Spillovers(config)
  BY <1>1 DEF Reservations
<1>7. CASE s \notin Spillovers(config)
  <2>1. counts' = counts
    BY <1>6, <1>7 DEF GiveBack
  <2>2. \A u \in Spillovers(config) : \A t : Holds(req'[q], config, u, t) <=> Holds(req[q], config, u, t)
    BY <1>4, <1>5, <1>7
  <2> QED BY <1>2, <2>1, <2>2, CountsKept
<1>8. CASE s \in Spillovers(config)
  <2>1. name \in TargetNames(config, s)
    BY <1>1, <1>8 DEF Placed
  <2> DEFINE row == counts[s]
             newRow == OneLess(row, name)
  <2>2. counts' = [counts EXCEPT ![s] = newRow]
    BY <1>6, <1>8 DEF GiveBack
  <2> HIDE DEF s, name
  <2>3. /\ DOMAIN newRow = DOMAIN row
        /\ name \in DOMAIN row => newRow[name] = AtLeast(row[name] - 1, 0)
        /\ \A t \in DOMAIN row : t # name => newRow[t] = row[t]
    <3> HIDE DEF row
    <3> QED BY DEF OneLess
  <2> HIDE DEF newRow
  <2>4. /\ DOMAIN counts' = DOMAIN counts
        /\ s \in DOMAIN counts => counts'[s] = newRow
        /\ \A u \in DOMAIN counts : u # s => counts'[u] = counts[u]
    BY <2>2
  <2>5. /\ Cardinality(Holders(req, config, s, name)) >= 1
        /\ Cardinality(Holders(req', config, s, name)) = Cardinality(Holders(req, config, s, name)) - 1
    BY <1>4, <1>5, HoldersRemove
  <2>6. \A u, t : ~ (u = s /\ t = name) => Holders(req', config, u, t) = Holders(req, config, u, t)
    <3>1. ASSUME NEW u, NEW t, ~ (u = s /\ t = name)
          PROVE  Holders(req', config, u, t) = Holders(req, config, u, t)
      <4>1. \A p \in Requests : Holds(req'[p], config, u, t) <=> Holds(req[p], config, u, t)
        BY <1>4, <1>5, <3>1
      <4> QED BY <4>1, HoldersSame
    <3> QED BY <3>1
  <2>7. ASSUME NEW u \in Spillovers(config)
        PROVE  /\ rr'[u] \in Nat /\ DOMAIN counts'[u] = TargetNames(config, u)
               /\ \A t \in TargetNames(config, u) : counts'[u][t] = Cardinality(Holders(req', config, u, t))
    <3>1. /\ rr[u] \in Nat /\ DOMAIN counts[u] = TargetNames(config, u)
          /\ \A t \in TargetNames(config, u) : counts[u][t] = Cardinality(Holders(req, config, u, t))
      BY <1>1 DEF Reservations
    <3>2. CASE u = s
      <4>1. counts'[u] = newRow /\ row = counts[u]
        BY <3>2, <2>4, <1>6
      <4>2. row[name] = Cardinality(Holders(req, config, s, name)) /\ DOMAIN row = TargetNames(config, s)
        BY <3>1, <3>2, <2>1
      <4>3. Cardinality(Holders(req, config, s, name)) \in Nat
        BY HoldersFinite
      <4>4. newRow[name] = Cardinality(Holders(req', config, s, name))
        BY <4>2, <4>3, <2>1, <2>3, <2>5 DEF AtLeast
      <4>5. \A t \in TargetNames(config, u) : newRow[t] = Cardinality(Holders(req', config, u, t))
        BY <3>1, <3>2, <4>2, <4>4, <2>3, <2>6
      <4> QED BY <3>1, <4>1, <4>2, <4>5, <2>3, <3>2
    <3>3. CASE u # s
      BY <3>1, <3>3, <1>6, <2>4, <2>6
    <3> QED BY <3>2, <3>3
  <2>8. Reservations'
    <3>1. DOMAIN counts' = Spillovers(config) /\ DOMAIN rr' = Spillovers(config)
      BY <1>1, <1>6, <2>4 DEF Reservations
    <3> QED BY <2>7, <3>1 DEF Reservations
  <2> QED BY <1>3, <2>8 DEF CountInv
<1> QED BY <1>7, <1>8

\* Requests that are not of a selector with a tracker have no reservation.
LEMMA NoSelector ==
    ASSUME CountInv, config.ok
    PROVE  "" \notin Spillovers(config)
<1>1. Loaded(config)
  BY ConfigSound DEF CountInv
<1> QED BY <1>1 DEF Loaded, Spillovers

\* A request that is answered, or sent on, without a tracker's doing.
LEMMA OutcomeCounts ==
    ASSUME CountInv, config.ok, ConfigKept', config' = config, counts' = counts, rr' = rr,
           NEW q \in Requests, NEW msg, NEW result, Outcome(q, msg, result),
           \/ req[q].pc \in {"idle", "pinned"}
           \/ req[q].pc = "looked" /\ result.dest = <<>>
           \/ req[q].pc = "reserved" /\ result.dest # <<>>
    PROVE  CountInv'
<1>1. ReqShape /\ Placed(req[q], config)
  BY DEF CountInv
<1>2. /\ ReqShape' /\ \A p \in Requests : p # q => req'[p] = req[p]
      /\ req'[q].pc = IF result.dest = <<>> THEN "answered" ELSE "serving"
      /\ req'[q].selector = req[q].selector /\ req'[q].target = req[q].target
  BY <1>1, OutcomeFields
<1>3. "" \notin Spillovers(config)
  BY NoSelector
<1>4. Placed(req'[q], config)
  BY <1>1, <1>2, <1>3 DEF Placed
<1>5. \A s \in Spillovers(config) : \A t : Holds(req'[q], config, s, t) <=> Holds(req[q], config, s, t)
  BY <1>1, <1>2, <1>3 DEF Placed, Holds
<1> QED BY <1>2, <1>4, <1>5, CountsKept

LEMMA ArriveCounts ==
    ASSUME CountInv, config.ok, ConfigKept', NEW q \in Requests, NEW msg \in Messages, Arrive(q, msg)
    PROVE  CountInv'
<1> DEFINE pinned == WithProfile(config, active, msg)
<1>1. config' = config /\ req[q].pc = "idle" /\ counts' = counts /\ rr' = rr
  BY DEF Arrive
<1>2. ASSUME NEW code, Outcome(q, msg, Answer(code))
      PROVE  CountInv'
  <2> DEFINE result == Answer(code)
  <2>1. Outcome(q, msg, result)
    BY <1>2
  <2> HIDE DEF result
  <2> QED BY <1>1, <2>1, OutcomeCounts
<1>3. ASSUME req' = [req EXCEPT ![q] = [@ EXCEPT !.msg = pinned[1], !.pc = "pinned"]]
      PROVE  CountInv'
  <2> DEFINE first == pinned[1]
             old == req[q]
             new == [old EXCEPT !.msg = first, !.pc = "pinned"]
  <2>1. req' = [req EXCEPT ![q] = new]
    BY <1>3
  <2>2. /\ DOMAIN req = Requests /\ DOMAIN old = DOMAIN Idle /\ \A p \in Requests : DOMAIN req[p] = DOMAIN Idle
        /\ Placed(old, config) /\ old.pc = "idle"
    BY <1>1 DEF CountInv, ReqShape
  <2> HIDE DEF first, old, pinned
  <2>3. /\ new.pc = "pinned" /\ DOMAIN new = DOMAIN Idle
        /\ new.selector = old.selector /\ new.target = old.target
    BY <2>2 DEF Idle
  <2> HIDE DEF new
  <2>4. req'[q] = new /\ DOMAIN req' = Requests /\ \A p \in Requests : p # q => req'[p] = req[p]
    BY <2>1, <2>2
  <2>5. ReqShape'
    BY <2>2, <2>3, <2>4 DEF ReqShape
  <2>6. Placed(req'[q], config)
    BY <2>2, <2>3, <2>4 DEF Placed
  <2>7. \A s \in Spillovers(config) : \A t : Holds(req'[q], config, s, t) <=> Holds(req[q], config, s, t)
    BY <2>2, <2>3, <2>4 DEF Holds, old
  <2> QED BY <1>1, <2>4, <2>5, <2>6, <2>7, CountsKept
<1> HIDE DEF pinned
<1>4. \/ Outcome(q, msg, Answer(401)) \/ Outcome(q, msg, Answer(400))
      \/ req' = [req EXCEPT ![q] = [@ EXCEPT !.msg = pinned[1], !.pc = "pinned"]]
  BY DEF Arrive, pinned
<1> QED BY <1>2, <1>3, <1>4

LEMMA AtOnceCounts ==
    ASSUME CountInv, config.ok, ConfigKept', NEW q \in Requests, ServeUpstream(q) \/ SelectNow(q)
    PROVE  CountInv'
<1>1. config' = config /\ req[q].pc = "pinned" /\ counts' = counts /\ rr' = rr
  BY DEF ServeUpstream, SelectNow
<1>2. \E msg, result : Outcome(q, msg, result)
  <2>1. CASE ServeUpstream(q)
    BY <2>1 DEF ServeUpstream
  <2>2. CASE SelectNow(q)
    BY <2>2 DEF SelectNow
  <2> QED BY <2>1, <2>2
<1> QED BY <1>1, <1>2, OutcomeCounts

LEMMA LookCounts ==
    ASSUME CountInv, config.ok, ConfigKept', NEW q \in Requests, Look(q)
    PROVE  CountInv'
<1>1. ReqShape /\ Placed(req[q], config)
  BY DEF CountInv
<1>2. ExtractModel(req[q].msg) \in Spillovers(config) /\ counts' = counts /\ rr' = rr
  BY DEF Look
<1>3. /\ ReqShape' /\ config' = config
      /\ \A p \in Requests : p # q => req'[p] = req[p]
      /\ req[q].pc = "pinned" /\ req'[q].pc = "looked"
      /\ req'[q].selector = ExtractModel(req[q].msg) /\ req'[q].seen = RunningModels
  BY <1>1, LookFields
<1>4. \A m \in DOMAIN RunningModels : RunningModels[m] # "stopped"
  BY DEF RunningModels
<1>5. Placed(req'[q], config)
  BY <1>2, <1>3, <1>4 DEF Placed
<1>6. \A s \in Spillovers(config) : \A t : Holds(req'[q], config, s, t) <=> Holds(req[q], config, s, t)
  BY <1>3 DEF Holds
<1> QED BY <1>2, <1>3, <1>5, <1>6, CountsKept

\* What the choice is made from.
LEMMA ChoiceReserved ==
    ASSUME CountInv, config.ok, NEW q \in Requests, req[q].pc = "looked",
           NEW s, s = req[q].selector,
           NEW choice, choice = StrategySpillover(config, s, req[q].seen, counts[s], rr[s]),
           choice # <<>>
    PROVE  /\ s \in Spillovers(config)
           /\ SpilloverName(config, choice[1].target) \in TargetNames(config, s)
           /\ choice[1].turn \in Nat
           /\ DOMAIN counts[s] = TargetNames(config, s)
           /\ LET picked == SpilloverName(config, choice[1].target)
              IN counts[s][picked] = 0 /\ picked \notin DOMAIN req[q].seen =>
                   \A t \in TargetNames(config, s) :
                      counts[s][t] > 0 /\ ~ (t \in DOMAIN req[q].seen /\ req[q].seen[t] = "stopping") =>
                          counts[s][t] >= config.selectors[s].spillover
<1>1. s \in Spillovers(config)
  BY DEF CountInv, Placed
<1>2. Loaded(config)
  BY ConfigSound DEF CountInv
<1>3. config.selectors[s].targets \in Seq(STRING)
  BY <1>1, <1>2 DEF Loaded, Spillovers
<1>4. /\ rr[s] \in Nat /\ DOMAIN counts[s] = TargetNames(config, s)
      /\ \A t \in TargetNames(config, s) : counts[s][t] \in Nat
  BY <1>1, HoldersFinite DEF CountInv, Reservations
<1> DEFINE snapshot == req[q].seen
           inflight == counts[s]
           turn == rr[s]
<1>5. /\ turn \in Nat /\ \A t \in TargetNames(config, s) : inflight[t] \in Nat
      /\ choice = StrategySpillover(config, s, snapshot, inflight, turn)
  BY <1>4
<1> HIDE DEF snapshot, inflight, turn
<1>6. /\ choice[1].target \in ToSet(config.selectors[s].targets) /\ choice[1].turn \in Nat
      /\ LET picked == SpilloverName(config, choice[1].target)
         IN inflight[picked] = 0 /\ picked \notin DOMAIN snapshot =>
              \A t \in TargetNames(config, s) :
                 inflight[t] > 0 /\ ~ (t \in DOMAIN snapshot /\ snapshot[t] = "stopping") =>
                     inflight[t] >= config.selectors[s].spillover
  BY <1>3, <1>5, ChoiceOfSpillover
<1>7. SpilloverName(config, choice[1].target) \in TargetNames(config, s)
  BY <1>6 DEF TargetNames
<1> QED BY <1>1, <1>4, <1>6, <1>7 DEF snapshot, inflight

LEMMA ReserveCounts ==
    ASSUME CountInv, config.ok, ConfigKept', NEW q \in Requests, Reserve(q)
    PROVE  CountInv'
<1> DEFINE s == req[q].selector
           choice == StrategySpillover(config, s, req[q].seen, counts[s], rr[s])
           target == choice[1].target
           name == SpilloverName(config, target)
           turn == choice[1].turn
<1>1. ReqShape /\ req[q].pc = "looked"
  BY DEF CountInv, Reserve
<1>2. CASE choice = <<>>
  <2> DEFINE answer == Answer(503)
             msg == req[q].msg
  <2>1. /\ answer.dest = <<>> /\ Outcome(q, msg, answer)
        /\ config' = config /\ counts' = counts /\ rr' = rr
    BY <1>2, AnswerDest DEF Reserve
  <2> HIDE DEF answer, msg
  <2> QED BY <1>1, <2>1, OutcomeCounts
<1>3. CASE choice # <<>>
  <2>1. counts' = [counts EXCEPT ![s] = OneMore(@, name)] /\ rr' = [rr EXCEPT ![s] = turn]
    BY <1>3 DEF Reserve
  <2> HIDE DEF choice
  <2>2. s \in Spillovers(config) /\ name \in TargetNames(config, s) /\ turn \in Nat
    BY <1>1, <1>3, ChoiceReserved DEF choice
  <2>3. /\ ReqShape' /\ config' = config
        /\ \A p \in Requests : p # q => req'[p] = req[p]
        /\ req'[q].pc = "reserved" /\ req'[q].target = target /\ req'[q].selector = s
    BY <1>1, <1>3, ReserveFields DEF choice
  <2>4. SpilloverName(config, req'[q].target) = name /\ req[q].selector = s
    BY <2>3
  <2> HIDE DEF s, target, name, turn
  <2> QED BY <1>1, <2>1, <2>2, <2>3, <2>4, CountsReserved
<1> QED BY <1>2, <1>3

LEMMA ForwardCounts ==
    ASSUME CountInv, config.ok, ConfigKept', NEW q \in Requests, Forward(q)
    PROVE  CountInv'
<1> DEFINE msg == req[q].msg
           updated == ReplaceRequestModel(msg, ExtractModel(msg), req[q].target)
           sent == IF updated = <<>> THEN msg ELSE updated[1]
           result == IF updated = <<>> THEN Answer(400) ELSE Forwarded(config, updated[1])
<1>1. /\ config' = config /\ rr' = rr /\ req[q].pc = "reserved" /\ Outcome(q, sent, result)
      /\ IF result.dest = <<>> THEN GiveBack(req[q].selector, req[q].target) ELSE counts' = counts
  BY DEF Forward, Release
<1>2. ReqShape
  BY DEF CountInv
<1> HIDE DEF sent, result
<1>3. /\ ReqShape' /\ \A p \in Requests : p # q => req'[p] = req[p]
      /\ req'[q].pc = IF result.dest = <<>> THEN "answered" ELSE "serving"
      /\ req'[q].selector = req[q].selector
  BY <1>1, <1>2, OutcomeFields
<1>4. CASE result.dest = <<>>
  BY <1>1, <1>3, <1>4, CountsReleased
<1>5. CASE result.dest # <<>>
  BY <1>1, <1>5, OutcomeCounts
<1> QED BY <1>4, <1>5

LEMMA FinishCounts ==
    ASSUME CountInv, config.ok, ConfigKept', NEW q \in Requests, Finish(q)
    PROVE  CountInv'
<1>1. GiveBack(req[q].selector, req[q].target) /\ rr' = rr
  BY DEF Finish, Release
<1>2. ReqShape
  BY DEF CountInv
<1> QED BY <1>1, <1>2, FinishFields, CountsReleased

LEMMA CountInit ==
    ASSUME RequestInit
    PROVE  CountInv
<1>1. req = [q \in Requests |-> Idle] /\ ConfigKept
  BY InitKeepsRaw DEF RequestInit, Serve
<1>2. Idle.pc = "idle" /\ Idle.selector = ""
  BY DEF Idle
<1>3. ReqShape
  BY <1>1 DEF ReqShape
<1>4. \A q \in Requests : Placed(req[q], config)
  BY <1>1, <1>2 DEF Placed
<1>5. ASSUME NEW s, NEW t
      PROVE  Cardinality(Holders(req, config, s, t)) = 0
  <2>1. Holders(req, config, s, t) = {}
    BY <1>1, <1>2 DEF Holders, Holds
  <2> QED BY <2>1, FS_EmptySet
<1>6. ASSUME config.ok
      PROVE  Reservations
  <2>1. counts = NoReservations(config) /\ rr = [s \in Spillovers(config) |-> 0]
    BY <1>6 DEF RequestInit, Serve
  <2>2. counts = [s \in Spillovers(config) |-> [t \in TargetNames(config, s) |-> 0]]
    BY <2>1 DEF NoReservations, TargetNames
  <2>3. \A s \in Spillovers(config) :
          /\ DOMAIN counts[s] = TargetNames(config, s) /\ rr[s] = 0
          /\ \A t \in TargetNames(config, s) : counts[s][t] = 0
    BY <2>1, <2>2
  <2>4. DOMAIN counts = Spillovers(config) /\ DOMAIN rr = Spillovers(config)
    BY <2>1, <2>2
  <2> QED BY <1>5, <2>3, <2>4 DEF Reservations
<1>7. ~ config.ok => counts = <<>>
  BY DEF RequestInit, Serve
<1> QED BY <1>1, <1>3, <1>4, <1>6, <1>7 DEF CountInv

LEMMA CountNext ==
    ASSUME CountInv, [RequestNext]_reqVars
    PROVE  CountInv'
<1>1. ConfigKept'
  BY StepKeepsRaw DEF CountInv
<1>2. CASE config' = config /\ req' = req /\ counts' = counts /\ rr' = rr
  BY <1>1, <1>2 DEF CountInv, ReqShape, Reservations
<1>3. CASE RequestNext
  <2>1. config.ok
    BY <1>3 DEF RequestNext
  <2>2. ASSUME NEW q \in Requests, \E msg \in Messages : Arrive(q, msg)
        PROVE  CountInv'
    BY <1>1, <2>1, <2>2, ArriveCounts
  <2>3. ASSUME NEW q \in Requests, ServeUpstream(q) \/ SelectNow(q)
        PROVE  CountInv'
    BY <1>1, <2>1, <2>3, AtOnceCounts
  <2>4. ASSUME NEW q \in Requests, Look(q)
        PROVE  CountInv'
    BY <1>1, <2>1, <2>4, LookCounts
  <2>5. ASSUME NEW q \in Requests, Reserve(q)
        PROVE  CountInv'
    BY <1>1, <2>1, <2>5, ReserveCounts
  <2>6. ASSUME NEW q \in Requests, Forward(q)
        PROVE  CountInv'
    BY <1>1, <2>1, <2>6, ForwardCounts
  <2>7. ASSUME NEW q \in Requests, Finish(q)
        PROVE  CountInv'
    BY <1>1, <2>1, <2>7, FinishCounts
  <2>8. ASSUME NEW name, SetActiveProfile(name)
        PROVE  CountInv'
    BY <1>2, <2>8 DEF SetActiveProfile
  <2>9. ASSUME NEW m, NEW state, ProcessMoves(m, state)
        PROVE  CountInv'
    BY <1>2, <2>9 DEF ProcessMoves
  <2> QED BY <1>3, <2>2, <2>3, <2>4, <2>5, <2>6, <2>7, <2>8, <2>9 DEF RequestNext
<1> QED BY <1>2, <1>3 DEF reqVars

\* Counts of a server that never started, or of one that serves.
LEMMA CountsExact ==
    ASSUME CountInv
    PROVE  SpilloverExact
<1>1. CASE ~ config.ok
  BY <1>1, EmptyDomain DEF CountInv, SpilloverExact
<1>2. CASE config.ok
  <2>1. \A s \in DOMAIN counts : \A t \in DOMAIN counts[s] :
          counts[s][t] = Cardinality(Holders(req, config, s, t))
    BY <1>2 DEF CountInv, Reservations
  <2> QED BY <2>1 DEF SpilloverExact, Holders, Holds
<1> QED BY <1>1, <1>2

\* What selectorSpilloverTracker counts for a target is the number of requests
\* that it sent there and that have not ended: none is counted twice, none is
\* released twice, and none is forgotten, whatever becomes of the rewrite.
THEOREM SpilloverExactTheorem == RequestSpec => []SpilloverExact
<1>1. RequestInit => CountInv
  BY CountInit
<1>2. CountInv /\ [RequestNext]_reqVars => CountInv'
  BY CountNext
<1>3. CountInv => SpilloverExact
  BY CountsExact
<1> QED BY <1>1, <1>2, <1>3, PTL DEF RequestSpec

\* One step of strategySpillover, from the counts under its lock and from models
\* that were read before it.
Fills(q) ==
    LET s == req[q].selector
        picked == SpilloverName(config, req'[q].target)
        Seen(t) == IF t \in DOMAIN req[q].seen THEN req[q].seen[t] ELSE "stopped"
    IN counts[s][picked] = 0 /\ Seen(picked) = "stopped" =>
         \A t \in DOMAIN counts[s] :
            counts[s][t] > 0 /\ Seen(t) # "stopping" =>
                counts[s][t] >= config.selectors[s].spillover

LEMMA ReserveFills ==
    ASSUME CountInv, config.ok, NEW q \in Requests, Reserve(q), req'[q].pc = "reserved"
    PROVE  Fills(q)
<1> DEFINE s == req[q].selector
           seen == req[q].seen
           choice == StrategySpillover(config, s, seen, counts[s], rr[s])
           picked == SpilloverName(config, choice[1].target)
<1>1. ReqShape /\ req[q].pc = "looked"
  BY DEF CountInv, Reserve
<1>2. choice # <<>>
  <2>1. SUFFICES ASSUME choice = <<>> PROVE FALSE
    OBVIOUS
  <2> DEFINE answer == Answer(503)
             msg == req[q].msg
  <2>2. answer.dest = <<>> /\ Outcome(q, msg, answer)
    BY <2>1, AnswerDest DEF Reserve
  <2> HIDE DEF answer, msg
  <2>3. req'[q].pc = "answered"
    BY <1>1, <2>2, OutcomeFields
  <2> QED BY <2>3
<1> HIDE DEF choice
<1>3. req'[q].target = choice[1].target
  BY <1>1, <1>2, ReserveFields DEF choice
<1>4. /\ DOMAIN counts[s] = TargetNames(config, s)
      /\ counts[s][picked] = 0 /\ picked \notin DOMAIN seen =>
           \A t \in TargetNames(config, s) :
              counts[s][t] > 0 /\ ~ (t \in DOMAIN seen /\ seen[t] = "stopping") =>
                  counts[s][t] >= config.selectors[s].spillover
  BY <1>1, <1>2, ChoiceReserved DEF choice
<1>5. \A m \in DOMAIN seen : seen[m] # "stopped"
  BY <1>1 DEF CountInv, Placed
<1>6. SpilloverName(config, req'[q].target) = picked
  BY <1>3
<1> HIDE DEF picked
<1> QED BY <1>4, <1>5, <1>6 DEF Fills

LEMMA OnlyReserveFills ==
    ASSUME CountInv, [RequestNext]_reqVars, NEW q \in Requests,
           req[q].pc = "looked", req'[q].pc = "reserved"
    PROVE  Fills(q)
<1>1. req' # req
  OBVIOUS
<1>2. RequestNext
  BY <1>1 DEF reqVars
<1>3. config.ok
  BY <1>2 DEF RequestNext
<1>4. ReqShape
  BY DEF CountInv
<1>5. ASSUME NEW p \in Requests, p # q
      PROVE  /\ \A msg \in Messages : ~ Arrive(p, msg)
             /\ ~ ServeUpstream(p) /\ ~ SelectNow(p) /\ ~ Look(p) /\ ~ Reserve(p) /\ ~ Forward(p) /\ ~ Finish(p)
  <2>1. \A new : req' # [req EXCEPT ![p] = new]
    BY <1>4, <1>5 DEF ReqShape
  <2>2. \A msg, result : ~ Outcome(p, msg, result)
    BY <2>1 DEF Outcome
  <2>3. /\ \A msg \in Messages : ~ Arrive(p, msg)
        /\ ~ Look(p) /\ ~ Finish(p)
    BY ONLY <2>1, <2>2 DEF Arrive, Look, Finish
  <2>4. ~ ServeUpstream(p) /\ ~ SelectNow(p) /\ ~ Forward(p)
    BY ONLY <2>2 DEF ServeUpstream, SelectNow, Forward
  <2>5. ~ Reserve(p)
    BY ONLY <2>1, <2>2 DEF Reserve
  <2> QED BY <2>3, <2>4, <2>5
<1>6. /\ \A msg \in Messages : ~ Arrive(q, msg)
      /\ ~ ServeUpstream(q) /\ ~ SelectNow(q) /\ ~ Look(q) /\ ~ Forward(q) /\ ~ Finish(q)
  BY DEF Arrive, ServeUpstream, SelectNow, Look, Forward, Finish
<1>7. \A name : ~ SetActiveProfile(name)
  BY <1>1 DEF SetActiveProfile
<1>8. \A m, state : ~ ProcessMoves(m, state)
  BY <1>1 DEF ProcessMoves
<1>9. Reserve(q)
  BY <1>2, <1>5, <1>6, <1>7, <1>8 DEF RequestNext
<1> QED BY <1>3, <1>9, ReserveFills

\* Two requests of one selector never start two targets when one would do: a
\* target nobody uses gets a request only when every target in use has its fill.
THEOREM SpilloverFillsTheorem == RequestSpec => SpilloverFills
<1>1. RequestInit => CountInv
  BY CountInit
<1>2. CountInv /\ [RequestNext]_reqVars => CountInv'
  BY CountNext
<1> DEFINE A == \A q \in Requests : req[q].pc = "looked" /\ req'[q].pc = "reserved" =>
         LET s == req[q].selector
             picked == SpilloverName(config, req'[q].target)
             Seen(t) == IF t \in DOMAIN req[q].seen THEN req[q].seen[t] ELSE "stopped"
         IN counts[s][picked] = 0 /\ Seen(picked) = "stopped" =>
              \A t \in DOMAIN counts[s] :
                 counts[s][t] > 0 /\ Seen(t) # "stopping" =>
                     counts[s][t] >= config.selectors[s].spillover
<1>3. CountInv /\ [RequestNext]_reqVars => A
  BY OnlyReserveFills DEF Fills
<1>4. SpilloverFills <=> [][A]_reqVars
  BY DEF SpilloverFills
<1> HIDE DEF A
<1> QED BY <1>1, <1>2, <1>3, <1>4, PTL DEF RequestSpec
=============================================================================
