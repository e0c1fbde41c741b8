SPECIFICATION RetirementSpec
CONSTANTS
    GenerationMax = 2
    LivenessMax = 2
    GapMax = 4
    TransportMax = 1
    FrameMax = 1
    MaxOutOfOrder = 1
    MaxPendingRawFrames = 1
    MaxPrepared = 1
    Authorities = {r1}
    OwnAuthorities = {r1}
    NoAuthority = NoAuthority
    MaxAttempts = 1
    AttemptMax = 1
    EventCapacity = 1
    Widths = {1}
    Environment = {"recovery", "shutdown", "control", "drop", "clock", "poison"}
INVARIANTS
    FramesAccounted
    RetiredStaysDown
PROPERTIES
    ShutdownTerminates
    PingResolved
CHECK_DEADLOCK FALSE
