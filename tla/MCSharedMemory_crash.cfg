CONSTANTS
    NumModules = 2
    MaxUpdates = 1
    MaxBuffers = 2
    MaxRuns = 2
SPECIFICATION Spec
INVARIANTS
    SnapshotWhole
    BuffersInTurn
PROPERTIES
    ReadoutGoesOn
CHECK_DEADLOCK FALSE
