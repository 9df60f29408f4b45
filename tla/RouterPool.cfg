SPECIFICATION Spec
SYMMETRY Sym
CONSTANTS
    Models <- PoolModels
    Unknown = unknown
    Requests = {r1, r2, r3}
    SwapIds = {1, 2, 3}
    Limit <- PoolLimit
    Priority <- PoolPriority
    Pools = {"p"}
    PoolOf <- PoolOfModel
    ResidentFirst = {"p"}
    MaxBurst <- OneBurst
    WaitBounded = {"p"}
    Leased = {"x", "y", "c"}
    Loaded = {"x", "y"}
    MaxUnloads = 0
    MayShutdown = FALSE
    MayExit = TRUE
    MayDisconnect = {r1, r2, r3}
    EvictionFor <- PoolPolicy
    GroupOf <- PoolGroupOf
    SwapGroups = {}
    Exclusive = {}
    Persistent = {}
    ProviderModels = {"x", "y", "c"}
    LLMs = {"x", "y", "c"}
    Capacity = 2
    ForeignLLMs = 0
    Residency <- PoolResidency
    ResidencyPriority <- PoolResidencyPriority
    AliasOrder <- PoolAlias
PROPERTIES
    PerModelOrder
