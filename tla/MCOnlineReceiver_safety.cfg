CONSTANTS
    ModuleNum = 3
    GroupIndex <- TwoGroups
    QueueCapacity = 2
    HistoryCapacity = 1
    MaxId = 2
    MaxVectors = 1
SPECIFICATION Spec
INVARIANTS
    Accounting
    DecodedTogether
PROPERTIES
    GroupPolicy
    NoNeedlessRelease
