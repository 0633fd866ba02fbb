SPECIFICATION HalSpec
CONSTANTS
    ALT_MAX_FD = 5
    Devices = {uart, null}
    Names = {uart, null, other}
    Console = uart
    Null = null
    NoDev = none
    Width = 3
    Alarms = {a1, a2}
    Periods = {1, 5}
INVARIANTS
    LockUnique
    OnTime
PROPERTIES
    LockedRefused
