------------------------- MODULE MCProviderManager -------------------------
(***************************************************************************)
(* ProviderManager on one pool, under the lifecycle swapper of the code.   *)
(***************************************************************************)
EXTENDS ProviderManager, TLC

\* A default model and two transients.
PoolModels == {"p", "t", "u"}
\* Two defaults, of different priority, and two transients.
FourModels == {"p", "q", "t", "u"}
\* A default, a transient, and a model of another application.
ForeignModels == {"p", "t", "x"}
OfResidency == [m \in Aliases |-> CASE m \in {"p", "q"} -> "preferred"
                                   [] m = "x" -> "external"
                                   [] OTHER -> "transient"]
\* Restoration is by priority, then by name.
AliasRank == [m \in Aliases |-> CASE m = "p" -> 1 [] m = "q" -> 2 [] m = "t" -> 3
                                 [] m = "u" -> 4 [] m = "x" -> 5]

\* One group without swap: the pool alone decides.
OneGroup == [m \in Aliases |-> "G"]
OfPool == INSTANCE Swappers WITH
    GroupOf <- OneGroup, SwapGroups <- {}, Exclusive <- {}, Persistent <- {},
    ProviderModels <- Aliases, LLMs <- Aliases, ForeignLLMs <- 0,
    ResidencyPriority <- Rank, AliasOrder <- AliasRank
PoolPolicy(t, resident, held) == OfPool!LifecycleEvictionFor(t, {}, resident, held)

=============================================================================
