CONSTANTS
    ModuleNum = 2
    GroupIndex <- Pair
    QueueCapacity = 2
    HistoryCapacity = 1
    MaxId = 3
    MaxVectors = 1
SPECIFICATION FairSpec
PROPERTIES
    LastIdDecoded
