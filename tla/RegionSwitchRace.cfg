SPECIFICATION Spec
CONSTANTS
    Groups = {0, 1}
    Layers = {0, 1, 2}
    TurnAtBoot = FALSE
    MaxTurns = 2
    MaxOps = 0
PROPERTIES
    SwitchFollowed
