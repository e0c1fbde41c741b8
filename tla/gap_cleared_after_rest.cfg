SPECIFICATION Spec
CONSTANTS
    GenerationMax = 1
    LivenessMax = 2
    GapMax = 2
    TransportMax = 1
    FrameMax = 0
    MaxOutOfOrder = 1
    MaxPendingRawFrames = 1
    MaxPrepared = 1
    Authorities = {r1, r2}
    OwnAuthorities = {r1}
    NoAuthority = NoAuthority
PROPERTIES
    GapsClearOnlyAtProofGapVersion
CHECK_DEADLOCK FALSE
