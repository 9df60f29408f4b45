SPECIFICATION FairSpec
CONSTANTS
    Writers = {"w1"}
    Loop = "loop"
    Consumers = {"c1"}
    Publishers = {"loop"}
    Nothing = 0
    MaxQueue = 1
    LengthPlans <- FourLines
    BufferSize = 3
    ChanCap = 1
    StreamCap = 1
    UICap = 1
    MaxWrites = 4
CHECK_DEADLOCK FALSE
INVARIANTS
    NoLostWakeup
    ShownInOrder
PROPERTIES
    WritesEnd
    BroadcastGoesOn
