CONSTANTS
    NumModules = 2
    GroupIndex <- OneGroup
    PacketSize = 3
    Threshold = 1
    BufferLength = 4
    FifoDepth = 3
    StopTries = 1
    RecordModes = {TRUE}
    Faults = {"write"}
    MaxWords = 5
    MaxId = 8
    MaxRuns = 1
SPECIFICATION Spec
INVARIANTS
    TypeOK
    FileKeepsStream
    OnlineKeepsStream
    FileComplete
    GroupPublishedTogether
CHECK_DEADLOCK FALSE
