SPECIFICATION Spec
CONSTANTS
    Procs = {p1, p2, p3}
    NoProc = NoProc
    MaxOps = 2
    Faults = {"crash", "late_throw", "overlap", "unrecovered", "init_race"}
INVARIANTS HeadCommitted AncestryCommitted
SYMMETRY Symmetry
CHECK_DEADLOCK FALSE
