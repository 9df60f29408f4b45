SPECIFICATION Spec
SYMMETRY Sym
CONSTANTS
    Models <- GroupModels
    Unknown = unknown
    Requests = {r1, r2, r3}
    SwapIds = {1, 2, 3, 4}
    Limit <- GroupLimit
    Priority <- GroupPriority
    Pools = {}
    PoolOf <- NoPoolOf
    ResidentFirst = {}
    MaxBurst <- NoBurst
    WaitBounded = {}
    Leased = {}
    Loaded = {}
    MaxUnloads = 1
    MayShutdown = FALSE
    MayExit = TRUE
    MayDisconnect = {r1, r2, r3}
    EvictionFor <- GroupPolicy
    GroupOf <- GroupOfModel
    SwapGroups = {"A"}
    Exclusive = {"B"}
    Persistent = {}
    ProviderModels = {}
    LLMs = {}
    Capacity = 0
    ForeignLLMs = 0
    Residency <- NoModelMap
    ResidencyPriority <- NoModelMap
    AliasOrder <- NoModelMap
PROPERTIES
    StaleResultDropped
