CONSTANTS
    Layers = {0, 32}
    Image <- MCImage
    Tried <- MCTried
    Often <- MCOften
    Asked = {"sMI 2", "sMI 3E", "sMI 3F"}
    Alarms = {"stop", "warn"}
    MaxChanges = 2
    MaxFails = 1
SPECIFICATION Spec
INVARIANTS InForce InRange SavedIntact ReadsAnswered
PROPERTIES FlagCatchesUp LoopEnds
