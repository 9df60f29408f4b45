SPECIFICATION FairSpec
\* Once shut down the router stops.
CHECK_DEADLOCK FALSE
CONSTANTS
    Models <- PairModels
    Unknown = unknown
    Requests = {r1, r2}
    SwapIds = {1, 2, 3}
    Limit <- PairLimit
    Priority <- PairPriority
    Pools = {}
    PoolOf <- PairPoolOf
    ResidentFirst = {}
    MaxBurst <- NoBurst
    WaitBounded = {}
    Leased = {}
    Loaded = {}
    MaxUnloads = 1
    MayShutdown = TRUE
    MayExit = TRUE
    MayDisconnect = {r1, r2}
    EvictionFor <- GroupPolicy
    GroupOf <- GroupOfModel
    SwapGroups = {"A"}
    Exclusive = {"B"}
    Persistent = {}
    ProviderModels = {}
    LLMs = {}
    Capacity = 0
    ForeignLLMs = 0
    Residency <- NoModelMap
    ResidencyPriority <- NoModelMap
    AliasOrder <- NoModelMap
PROPERTIES
    EveryRequestAnswered
    ShutdownCompletes
