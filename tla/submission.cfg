SPECIFICATION FairSpec
CONSTANTS
    Submitters = {s1, s2}
    Preparers = {p1}
    EpochMax = 1
    GenerationMax = 2
    MaxTries = 2
INVARIANTS
    TypeOK
    OpenMatchesInstalled
    PostedByInstalled
    LeaseMeansDrained
PROPERTIES
    AmbiguityBlocksPost
    RevocationBlocksPost
    IndeterminateIsSticky
    ImplementsPostingAuthority
    ExclusiveGranted
CHECK_DEADLOCK FALSE
