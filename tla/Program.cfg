SPECIFICATION Spec
CONSTANTS
    Sources = {"file"}
    Requests = {"r1", "r2"}
    MaxEdits = 2
    MaxHups = 1
    StorePath <- MCStorePath
    PerfOf <- MCPerfOf
    MaxRows = 1
    CaptureSize <- Sizes
    CaptureBuffer = 2
CHECK_DEADLOCK FALSE
INVARIANTS
    WatcherSeesLast
    ActiveStoreOpen
    CaptureMatchesRow
    
    NoSamplerLeft
