SPECIFICATION AttendedSpec
CONSTANTS
    Procs = {p1, p2, p3}
    NoProc = NoProc
    MaxOps = 3
    Faults = {"crash"}
INVARIANTS TypeOK MutualExclusion CommittedChain SettledIsComplete
PROPERTIES EveryRunEnds FailureIsRepaired ImplementsHistory
CHECK_DEADLOCK FALSE
