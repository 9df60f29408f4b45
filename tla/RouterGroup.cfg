SPECIFICATION Spec
SYMMETRY Sym
CONSTANTS
    Models <- GroupModels
    Unknown = unknown
    Requests = {r1, r2, r3, r4}
    SwapIds = {1, 2, 3}
    Limit <- GroupLimit
    Priority <- GroupPriority
    Pools = {}
    PoolOf <- NoPoolOf
    ResidentFirst = {}
    MaxBurst <- NoBurst
    WaitBounded = {}
    Leased = {}
    Loaded = {}
    MaxUnloads = 0
    MayShutdown = FALSE
    MayExit = TRUE
    MayDisconnect = {r1, r2, r3, r4}
    EvictionFor <- GroupPolicy
    GroupOf <- GroupOfModel
    SwapGroups = {"A"}
    Exclusive = {"B"}
    Persistent = {}
    ProviderModels = {}
    LLMs = {}
    Capacity = 0
    ForeignLLMs = 0
    Residency <- NoModelMap
    ResidencyPriority <- NoModelMap
    AliasOrder <- NoModelMap
INVARIANTS
    ReservationsExact
    InFlightExact
    HeldOnce
    QueueIsWatched
    SiblingsExclusive
PROPERTIES
    NoBusyEviction
    PerModelOrder
