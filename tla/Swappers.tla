----------------------------- MODULE Swappers -----------------------------
(***************************************************************************)
(* The eviction policies a router is built with: the group swapper         *)
(* (internal/router/group.go) and the lifecycle swapper that overlays the  *)
(* capacity of a provider's pool on it (internal/router/provider.go).      *)
(***************************************************************************)
EXTENDS Integers, FiniteSets

CONSTANTS
    GroupOf,        \* modelToGroup
    SwapGroups,     \* groups with swap = true
    Exclusive,      \* groups with exclusive = true
    Persistent,     \* groups with persistent = true
    ProviderModels, \* models with a provider, all of one manager and pool
    LLMs,           \* those that occupy an LLM slot
    Capacity,       \* the pool's capacity
    ForeignLLMs,    \* slots taken by models the configuration does not name
    Residency,      \* model -> residency class
    ResidencyPriority, \* model -> residencyPriority
    AliasOrder      \* model -> its place in the order of aliases

\* groupSwapper: siblings when the group swaps, and members of other groups
\* that are not persistent when the target's group is exclusive.
GroupEvictionFor(target, running) ==
    LET tg == GroupOf[target]
    IN  {m \in running \ {target} :
            \/ GroupOf[m] = tg /\ tg \in SwapGroups
            \/ /\ GroupOf[m] # tg /\ tg \in Exclusive
               /\ GroupOf[m] \notin Persistent}

\* Transients leave first, then higher priority numbers, then later aliases.
LeavesBefore(c, d) ==
    IF Residency[c] # Residency[d] THEN Residency[c] = "transient"
    ELSE IF ResidencyPriority[c] # ResidencyPriority[d]
         THEN ResidencyPriority[c] > ResidencyPriority[d]
         ELSE AliasOrder[c] > AliasOrder[d]

\* lifecycleSwapper: when the pool is full, the first candidates needed to
\* make room; none at all when pinned and external models leave too few.
\* held is what the provider's last health report lists.
LifecycleEvictionFor(target, running, resident, held) ==
    LET base == GroupEvictionFor(target, running)
        llms == (resident \intersect held \intersect LLMs) \ base
        occupied == ForeignLLMs
            + Cardinality((held \intersect LLMs) \ (base \intersect resident))
        candidates == {m \in llms :
                         Residency[m] \notin {"hard-pinned", "external"}}
        need == occupied - Capacity + 1
    IN  IF \/ target \notin ProviderModels
           \/ target \in resident
           \/ occupied < Capacity
           \/ need > Cardinality(candidates)
        THEN base
        ELSE base \union
             {c \in candidates :
                Cardinality({d \in candidates \ {c} : LeavesBefore(d, c)}) < need}

=============================================================================
