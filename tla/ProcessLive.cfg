SPECIFICATION FairSpec
CONSTANTS
    Callers <- FourCallers
    Kind <- KindOfFour
    Serves = {}
    TTLs = {}
    MaxStarts = 2
    None = "none"
    TTL = FALSE
    MayCrash = TRUE
    MayCancel = FALSE
    MayShutdown = TRUE
PROPERTY CallersAnswered
PROPERTY ShutdownEnds
