CONSTANTS
    p1 = p1
    p2 = p2
    a1 = a1
    a2 = a2
    a3 = a3
    w1 = w1
    w2 = w2
    None = None
    Planners = {p1, p2}
    Pids = {1, 2}
    Calls = {a1, a2, a3}
    Windows = {w1, w2}
    MaxMembers = 1
    MaxKWin = 2
    Lingering = {p2}
    Requests <- MCRequests
    Scenes = {"refusals", "order", "routes"}
SPECIFICATION MCSpec
INVARIANTS SnapshotsInOrder FilesAccounted AnswersTellTheTruth GuardsReleased
CHECK_DEADLOCK FALSE
SYMMETRY Symmetry
