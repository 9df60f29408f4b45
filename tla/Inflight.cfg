SPECIFICATION FairSpec
CONSTANTS
    Requests = {"q1", "q2"}
    OutboxSize = 1
    UICap = 1
    MaxVersion <- Versions
    Goroutines = {1, 2}
CHECK_DEADLOCK FALSE
INVARIANTS
    EmittedExact
PROPERTIES
    OutboxDrains
