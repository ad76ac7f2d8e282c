CONSTANTS
    h1 = h1
    h2 = h2
    Hwnds = {h1, h2}
    Programs = {"p1", "p2"}
    Lives = 3
    MaxTags = 2
    MaxWindows = 1
    MaxShows = 1
    MaxQueue = 2
    Scenes = {"reuse"}
SPECIFICATION MCSpec
INVARIANT HiddenIsAlwaysNamed
CHECK_DEADLOCK FALSE
