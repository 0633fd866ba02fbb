SPECIFICATION WarnSpec
CONSTANTS
    Depth = 2
    Values = {0, 1}
    MotorLow = 1
    LdMin = 1
    TempMax = 0
    Thresholds = {0, 1}
    PcFreqs = {0, 1}
INVARIANTS
    LaserOffUnderAlarm
PROPERTIES
    RaisedOnRun
