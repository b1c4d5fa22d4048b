SPECIFICATION Spec
CONSTANTS
    Paths = {a, b}
    Contents = {c1, c2}
    NoFile = NoFile
    Torn = Torn
    MaxTrees = 3
    MaxInterrupts = 2
    Hazards = {"edit_during", "edit_interrupted"}
INVARIANTS TypeOK IntentAgrees
PROPERTIES DriftKept RestoreIsAtomic
CONSTRAINT HastyBound
SYMMETRY Symmetry
CHECK_DEADLOCK FALSE
