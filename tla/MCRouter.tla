----------------------------- MODULE MCRouter -----------------------------
(***************************************************************************)
(* Router on small instances, with the swappers of the code as policy.     *)
(***************************************************************************)
EXTENDS Router, Swappers, TLC

\* --- Two swapping siblings and an exclusive third model. ---
GroupModels == {"a1", "a2", "b"}
GroupOfModel == ("a1" :> "A") @@ ("a2" :> "A") @@ ("b" :> "B")
GroupPolicy(m, running, resident) == GroupEvictionFor(m, running)
GroupLimit == [m \in GroupModels |-> 2]
GroupPriority == [m \in GroupModels |-> IF m = "b" THEN 1 ELSE 0]
NoPoolOf == [m \in GroupModels |-> "none"]
NoBurst == [p \in {} |-> 0]

\* --- Two swapping siblings only. ---
PairModels == {"a1", "a2"}
PairLimit == [m \in PairModels |-> 2]
PairPriority == [m \in PairModels |-> 0]
PairPoolOf == [m \in PairModels |-> "none"]

\* --- A lifecycle pool with two slots, both taken at the start. ---
PoolModels == {"x", "y", "c"}
PoolOfModel == [m \in PoolModels |-> "p"]
PoolGroupOf == [m \in PoolModels |-> "G"]
PoolPolicy(m, running, resident) == LifecycleEvictionFor(m, running, resident, resident)
PoolLimit == [m \in PoolModels |-> 10]
PoolPriority == [m \in PoolModels |-> 0]
ColdFirstPriority == [m \in PoolModels |-> IF m = "y" THEN 1 ELSE 0]
OneBurst == [p \in {"p"} |-> 1]
BurstOff == [p \in {"p"} |-> 0]
PoolResidency == [m \in PoolModels |-> IF m = "x" THEN "preferred" ELSE "transient"]
PoolResidencyPriority == [m \in PoolModels |-> 0]
PoolAlias == ("c" :> 1) @@ ("x" :> 2) @@ ("y" :> 3)

\* --- The pool with one slot, and a local model beside it.  "y" goes first. ---
MixedModels == {"x", "y", "c", "z"}
MixedGroupOf == [m \in MixedModels |-> IF m = "z" THEN "Z" ELSE "G"]
MixedPoolOf == [m \in MixedModels |-> IF m = "z" THEN "none" ELSE "p"]
MixedLimit == [m \in MixedModels |-> 10]
MixedPriority == [m \in MixedModels |-> IF m = "y" THEN 1 ELSE 0]

NoModelMap == [m \in {} |-> 0]
Sym == Permutations(Requests)

=============================================================================
