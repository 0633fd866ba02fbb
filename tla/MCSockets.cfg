SPECIFICATION Spec
CONSTANTS
    Polled <- MCPolled
    Reported <- MCReported
    Memory <- MCMemory
    Gap = 1
    MaxFaulty = 1
PROPERTIES
    NeverAlone
    LoopAlive
    Available
    VanishedFreed
    Greeted
