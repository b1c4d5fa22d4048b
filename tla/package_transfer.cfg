SPECIFICATION PackageSpec
CONSTANTS
    Procs = {p1}
    SourceIds = {s1}
    Outcomes = {"accepted"}
    Profiles <- MCProfiles
    None = None
    MaxSources = 2
    MaxDecisions = 2
    MaxClock = 0
    Faults = {"crash"}
    Importers = {i1, i2}
    MaxImports = 3
INVARIANTS WorkflowComesWhole ImportsDoNotDefeatEachOther
PROPERTIES ImportKeepsRecords
CONSTRAINTS SourceHistory TargetBefore
SYMMETRY Symmetry
CHECK_DEADLOCK FALSE
