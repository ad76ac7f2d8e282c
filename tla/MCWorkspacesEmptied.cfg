CONSTANTS
    None = None
    w1 = w1
    w2 = w2
    Windows = {w1}
    OutputOrder <- MCOutputOrder
    MaxIds = 5
    LastSpace = 2
    First = 1
    Fallible = FALSE
    Restless = FALSE
    Instances = {"workspaces"}
SPECIFICATION MCSpec
INVARIANT EveryOutputHasAView
CHECK_DEADLOCK FALSE
