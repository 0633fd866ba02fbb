SPECIFICATION Spec
CONSTANTS
    N = 4
    StatusLen = 3
    LaserDepth = 13
    QueueDepth = 9
    CntMod = 16
    TimerAt = 1
    TimerMax = 3
    QuietLimit = 4
    MaxStatus = 1
    MaxToggles = 2
    MaxStalls = 1
INVARIANTS
    FifoBounds
    WholeRevolution
PROPERTIES
    ScansKeepComing
