SPECIFICATION Spec
CONSTANTS
    Aliases <- FourModels
    None = "none"
    Local = "local"
    Residency <- OfResidency
    Rank <- AliasRank
    Capacity = 2
    RestorePreferred = TRUE
    EvictionFor <- PoolPolicy
    MaxLeases = 2
    MaxSwaps = 4
    MaxLate = 1
    MaxFaults = 0
    MaxForeign = 0
    LocalSwaps = FALSE
    MayAbandon = TRUE
INVARIANTS
    BusyIsLeased
PROPERTIES
    
    
    LoadsWithinCapacity
