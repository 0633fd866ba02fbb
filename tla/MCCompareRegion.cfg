SPECIFICATION SizedSpec
CONSTANTS
    N = 4
    Distances = {1000, 1040, 65535}
    NoEdge = 65535
    Sizes = {0, 15}
    Cap = 2
    MaxWrites = 1
    MaxSettings = 2
INVARIANTS
    TypeOK
    AlarmRaised
    AlarmJustified
    SizeRespected
