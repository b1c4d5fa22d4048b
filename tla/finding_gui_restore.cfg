SPECIFICATION Spec
CONSTANTS
    Roots = {a}
    References = {x, y}
    MaxCalls = 2
    Commands = {"inspect", "sync", "restore"}
    MaxMoves = 4
PROPERTY RestoredAsShown
CHECK_DEADLOCK FALSE
