SPECIFICATION MarketSpec
CONSTANTS
    Assets = {a1, a2}
    Lists = {{a1, a2}, {a1}}
    ManagerMax = 2
    LossMax = 1
    Callers = {c1, c2}
    CallMax = 2
    ThreadedLists = {{a1}}
    ThreadedCallMax = 2
    ThreadedLossMax = 0
    Runtimes = {"current_thread", "multi_thread"}
INVARIANTS
    MarketTypeOK
    SettledExact
    StreamsKept
    CountsAreStreams
    UnsubscribedBeforeClose
PROPERTIES
    ShutdownEndsAll
CHECK_DEADLOCK FALSE
