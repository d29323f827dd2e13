CONSTANTS
    NumModules = 2
    Members <- Pair
    Packets <- SomePackets
    Window = 2
    HeaderSize = 4
    ValidCount = 2
SPECIFICATION FairSpec
INVARIANTS
    TypeOK
    EachHitOnce
    SortedStreamsSortedVectors
    CoincidencesTogether
    EventsDecoded
PROPERTIES
    PacketsReleased
CHECK_DEADLOCK FALSE
