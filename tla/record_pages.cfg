SPECIFICATION PageSpec
CONSTANTS
    Callers = {p1, p2}
    Subjects = {x}
    Submissions <- MCSubmissions
    None = None
    MaxCalls = 3
    Faults = {"crash"}
    Collections = {"tree", "workflow"}
    Limit = 1
    CodeUnits <- SameOrder
INVARIANTS ReferencesResolve IntakeAgrees DuplicatesAreFlat WalkIsComplete
PROPERTIES HeadsStayAccepted
SYMMETRY Symmetry
CHECK_DEADLOCK FALSE
