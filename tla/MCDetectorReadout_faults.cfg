CONSTANTS
    NumModules = 1
    GroupIndex <- GroupOfOne
    PacketSize = 2
    Threshold = 1
    BufferLength = 3
    FifoDepth = 3
    StopTries = 0
    RecordModes = {TRUE, FALSE}
    Faults = {"alloc", "check", "read"}
    MaxWords = 2
    MaxId = 1
    MaxRuns = 2
SPECIFICATION FairSpec
INVARIANTS
    BufferWithinLength
    PublishedWithinSize
    RunningSequence
PROPERTIES
    StopCompletes
CHECK_DEADLOCK FALSE
