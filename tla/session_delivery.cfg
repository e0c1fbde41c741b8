SPECIFICATION SessionSpec
CONSTANTS
    GenerationMax = 1
    LivenessMax = 3
    GapMax = 4
    TransportMax = 2
    FrameMax = 2
    MaxOutOfOrder = 2
    MaxPendingRawFrames = 1
    MaxPrepared = 1
    Authorities = {r1}
    OwnAuthorities = {r1}
    NoAuthority = NoAuthority
    MaxAttempts = 0
    AttemptMax = 2
    EventCapacity = 1
    Widths = {1, 2}
    Environment = {"recovery", "gap", "undecodable"}
INVARIANTS
    SessionTypeOK
    ReadyIsDelivered
PROPERTIES
    GapsClearOnlyAtProofGapVersion
CHECK_DEADLOCK FALSE
