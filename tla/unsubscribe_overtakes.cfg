SPECIFICATION MarketSpec
CONSTANTS
    Assets = {a1}
    Lists = {{a1}}
    ManagerMax = 1
    LossMax = 0
    Callers = {c1, c2}
    CallMax = 2
    ThreadedLists = {{a1}}
    ThreadedCallMax = 2
    ThreadedLossMax = 0
    Runtimes = {"multi_thread"}
INVARIANTS
    UsedAssetsStayServed
CHECK_DEADLOCK FALSE
