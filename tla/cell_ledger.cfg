SPECIFICATION Spec
CONSTANTS
    GenerationMax = 1
    LivenessMax = 2
    GapMax = 2
    TransportMax = 3
    FrameMax = 0
    MaxOutOfOrder = 2
    MaxPendingRawFrames = 1
    MaxPrepared = 1
    Authorities = {r1, r2}
    OwnAuthorities = {r1}
    NoAuthority = NoAuthority
INVARIANTS
    TypeOK
    FrontierAccounted
    FrontierMaximal
PROPERTIES
    CountersMonotone
    GapsClearOnlyIntoReady
CHECK_DEADLOCK FALSE
