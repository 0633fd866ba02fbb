SPECIFICATION BootSpec
CONSTANTS
    RegCmds <- MCRegCmds
    EnableCmds <- MCEnableCmds
    MOTOR_SPEED = 2
    APD_VOLT = 3
    Regions <- MCRegions
    PRESDO = 20
    RamSize = 32
    PresdoDepth = 8
    CntMax = 65535
    Width <- MCWidth
    ResetValue <- MCResetValue
    ENABLE = 9
    SpeedMin = 8
    SpeedMax = 15
    Announced <- MCAnnounced
    Sent <- MCSent
    Words <- MCWords
    MinGap = 1
    Layers <- MCLayers
    Params <- MCParams
    Groups <- MCGroups
    Rom <- MCRom
    SysPara <- MCSysPara
    PresdoWords <- MCPresdoWords
    Tail0 <- MCTail0
    Reloads = 2
INVARIANTS
    Resynchronised
    LaterReloadsLoaded
    ParametersHeld
