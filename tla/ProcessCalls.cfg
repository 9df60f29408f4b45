SPECIFICATION Spec
CONSTANTS
    Callers <- FourCallers
    Kind <- KindOfFour
    Serves = {"q1"}
    TTLs = {"g1", "g2"}
    MaxStarts = 2
    None = "none"
    TTL = TRUE
    MayCrash = TRUE
    MayCancel = TRUE
    MayShutdown = TRUE
INVARIANTS
    OneUpstream
    NothingLeftRunning
PROPERTIES
    StopTerminates
    
