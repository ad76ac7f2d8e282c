CONSTANTS
    None = None
    w1 = w1
    w2 = w2
    Windows <- MCWindows
    OutputOrder <- MCOutputOrder
    MaxIds = 5
    LastSpace = 2
    First = 1
    Fallible = FALSE
    Restless = FALSE
    Instances = {"workspaces", "together"}
SPECIFICATION MCSpec
SYMMETRY Symmetry
INVARIANTS RegistryIsSound ModesFollowUser SessionsAreTheirs
PROPERTIES ViewsOpenRevealed
CHECK_DEADLOCK FALSE
CONSTRAINT Small
