SPECIFICATION FairSpec
CONSTANTS
    Sessions = {s1, s2}
    Drains = {d1}
    Capacity = 2
INVARIANTS
    TypeOK
    RetainedIsExact
    DrainIsComplete
    RetiredIsTerminal
PROPERTIES
    ImplementsTaskCustody
    TransferredIsRetired
CHECK_DEADLOCK FALSE
