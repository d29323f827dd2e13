CONSTANTS
    NumModules = 1
    GroupIndex <- GroupOfOne
    PacketSize = 3
    Threshold = 1
    BufferLength = 7
    FifoDepth = 7
    StopTries = 1
    RecordModes = {TRUE}
    Faults = {}
    MaxWords = 16
    MaxId = 8
    MaxRuns = 1
SPECIFICATION Spec
INVARIANTS
    PacketWithinSize
CHECK_DEADLOCK FALSE
