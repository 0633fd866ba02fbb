SPECIFICATION FairSpec
CONSTANTS
    RegCmds <- MCRegCmds
    EnableCmds <- MCEnableCmds
    MOTOR_SPEED = 2
    APD_VOLT = 3
    Regions <- MCRegions
    PRESDO = 20
    RamSize = 3
    PresdoDepth = 1
    CntMax = 15
    Width <- MCWidth
    ResetValue <- MCResetValue
    ENABLE = 9
    SpeedMin = 8
    SpeedMax = 10
    Announced <- MCAnnounced
    Sent <- MCSent
    Words <- MCWords
    MinGap = 1
INVARIANTS
    TypeOK
    InStep
    Delivered
PROPERTIES
    ReturnsToIdle
CHECK_DEADLOCK TRUE
