CONSTANTS
    FrontModules = 2
    BackModules = 2
    Channels = 2
    PacketHits = 3
    Shots <- Pixels
    PileUp = 1
    LoanFails = TRUE
    MaxEvents = 8
SPECIFICATION Spec
INVARIANTS
    HitsKept
    TornToNextPacket
    PixelsTrue
    InnerParticlesFilled
    IntervalsTelescope
ACTION_CONSTRAINT AnalysisFirst
CHECK_DEADLOCK FALSE
