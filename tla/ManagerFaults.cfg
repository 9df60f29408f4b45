SPECIFICATION FairSpec
CONSTANTS
    Aliases <- ForeignModels
    None = "none"
    Local = "local"
    Residency <- OfResidency
    Rank <- AliasRank
    Capacity = 2
    RestorePreferred = TRUE
    EvictionFor <- PoolPolicy
    MaxLeases = 1
    MaxSwaps = 3
    MaxLate = 1
    MaxFaults = 1
    MaxForeign = 1
    LocalSwaps = TRUE
    MayAbandon = TRUE
PROPERTIES
    SwapsEnd
