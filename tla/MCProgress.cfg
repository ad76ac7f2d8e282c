CONSTANTS
    w1 = w1
    w2 = w2
    None = None
    Keys = {"H", "X"}
    Modifiers = {"alt"}
    Configs <- MCConfigs
    IntentQueueCap = 1
    Hwnds = {"h1"}
    Lives = 2
    Escapes = 1
    Events = 1
    WindragQueueCap = 2
    DrainLimit = 2
    Injected = FALSE
SPECIFICATION Spec
INVARIANTS PairsClose HoldsAreKept EscapeDecides
PROPERTIES CallsEnd Settles WatchersFinish StartStaysClosed
CHECK_DEADLOCK FALSE
