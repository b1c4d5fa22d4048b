SPECIFICATION Spec
CONSTANTS
    Roots = {a, b}
    References = {x}
    MaxCalls = 3
    Commands = {"inspect", "sync", "restore"}
    MaxMoves = 4
INVARIANTS TypeOK ApplyMeansShown
PROPERTY AppliedAsShown
SYMMETRY Symmetry
CHECK_DEADLOCK FALSE
