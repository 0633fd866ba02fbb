SPECIFICATION Spec
CONSTANTS
    BUF_LEN = 3
    Depth = 1
    MaxTx = 3
    MaxRx = 3
    MaxCount = 2
    Timeouts = {2}
    INT_MAX = 4
    DEFAULT_TIMEOUT = 2
INVARIANTS
    Wakeup
PROPERTIES
    Lossless
    Delivered
    CallEnds
