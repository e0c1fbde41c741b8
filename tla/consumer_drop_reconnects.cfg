SPECIFICATION SessionSpec
CONSTANTS
    GenerationMax = 2
    LivenessMax = 2
    GapMax = 3
    TransportMax = 1
    FrameMax = 1
    MaxOutOfOrder = 1
    MaxPendingRawFrames = 1
    MaxPrepared = 1
    Authorities = {r1}
    OwnAuthorities = {r1}
    NoAuthority = NoAuthority
    MaxAttempts = 0
    AttemptMax = 2
    EventCapacity = 1
    Widths = {1}
    Environment = {"drop"}
PROPERTIES
    ConsumerClosedIsTerminal
CHECK_DEADLOCK FALSE
