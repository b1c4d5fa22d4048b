SPECIFICATION ImportedSpec
CONSTANTS
    Procs = {p1, p2}
    NoProc = NoProc
    MaxOps = 3
    Faults = {"crash"}
INVARIANT InterruptedIsReconciled
CHECK_DEADLOCK FALSE
