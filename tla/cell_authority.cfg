SPECIFICATION Spec
CONSTANTS
    GenerationMax = 2
    LivenessMax = 2
    GapMax = 2
    TransportMax = 2
    FrameMax = 1
    MaxOutOfOrder = 1
    MaxPendingRawFrames = 1
    MaxPrepared = 1
    Authorities = {r1, r2}
    OwnAuthorities = {r1}
    NoAuthority = NoAuthority
INVARIANTS
    ReadyHasLaterPong
PROPERTIES
    AbortsMoveIdentity
    ImplementsChannelAuthority
CHECK_DEADLOCK FALSE
