CONSTANTS
    Planes = 2
    HalfSize = 1
    DeadTime = 9
    Resolution = 1
    ValidCount = 2
    Window = 9
    Tick = 2
    Channels = 2
    Strips = 2
    SlotMap <- Configured
    FifoHits = 12
    FrameParticles = 1
    Limits = 3
    Threshold = 5
    Shots <- Tracks
    MaxParticles = 3
    MaxRuns = 2
    Enough = 6
SPECIFICATION Spec
INVARIANTS
    TornForward
    PixelsTrue
    TargetTrue
PROPERTIES
    ActsAsFifo
CHECK_DEADLOCK FALSE
