SPECIFICATION Spec
CONSTANTS
    Boards <- MCBoards
    Addresses = {0, 44, 65324, 4194092, 16777216}
    Counts = {1, 3}
    Data = {d1}
    Probes = {0, 212}
    Patience = 2
INVARIANTS
    NoneIgnored
    Confirmed
PROPERTIES
    ImplementsStore
    Answered
