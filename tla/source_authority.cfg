SPECIFICATION Spec
CONSTANTS
    Procs = {p1, p2}
    SourceIds = {s1, s2}
    Profiles <- MCProfiles
    Outcomes = {"accepted", "revoked"}
    None = None
    MaxSources = 2
    MaxDecisions = 3
    MaxClock = 1
    Faults = {"crash"}
INVARIANTS TypeOK OneRevisionPerSource ReplayKeepsReturnOrder ConflictsAreExplained ViewAgrees
PROPERTIES RevisionsAreKept
CONSTRAINTS SourcesFirst FirstSettled
SYMMETRY Symmetry
CHECK_DEADLOCK FALSE
