SPECIFICATION Spec
CONSTANTS
    Groups = {0, 1}
    Layers = {0, 1, 2}
    TurnAtBoot = TRUE
    MaxTurns = 2
    MaxOps = 2
INVARIANTS
    Settled
PROPERTIES
    EventuallySettled
