SPECIFICATION Spec
CONSTANTS
    Paths = {a, b}
    Targets = {a}
    Contents = {c1, c2}
    NoFile = NoFile
    Clients = {w1, w2}
    Capacity = 1
    MaxPlans = 2
    MaxTrees = 3
    MaxOutside = 2
INVARIANTS TypeOK ApprovalSpentOnce
PROPERTIES BoundSyncAsApproved BoundRestoreAsApproved ConsentCoversConflicts
SYMMETRY Symmetry
CHECK_DEADLOCK FALSE
