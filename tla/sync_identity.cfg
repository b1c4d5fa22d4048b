SPECIFICATION Spec
CONSTANTS
    a = a
    b = b
    PathOrder <- TwoPaths
    Scopes <- WholeAndOne
    Contents = {c1, c2}
    NoFile = NoFile
    MaxPlans = 3
    MaxTrees = 3
INVARIANTS TypeOK RevisionsUnique TreesVerify NodeHistorySound
PROPERTY SyncRecordsItsScope
SYMMETRY Symmetry
CHECK_DEADLOCK FALSE
