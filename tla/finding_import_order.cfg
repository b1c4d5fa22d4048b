SPECIFICATION PackageSpec
CONSTANTS
    Procs = {p1}
    SourceIds = {s1}
    Outcomes = {"accepted", "revoked"}
    Profiles <- MCProfiles
    None = None
    MaxSources = 1
    MaxDecisions = 2
    MaxClock = 0
    Faults = {}
    Importers = {i1, i2}
    MaxImports = 1
INVARIANT ImportKeepsAuthority
CONSTRAINTS SourceHistory TargetBefore
SYMMETRY Symmetry
CHECK_DEADLOCK FALSE
