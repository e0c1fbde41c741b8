SPECIFICATION MarketSpec
CONSTANTS
    Assets = {a1}
    Lists = {{a1}}
    ManagerMax = 1
    LossMax = 2
    Callers = {c1}
    CallMax = 1
    ThreadedLists = {{a1}}
    ThreadedCallMax = 1
    ThreadedLossMax = 0
    Runtimes = {"current_thread"}
PROPERTIES
    DeadSocketIsLeft
CHECK_DEADLOCK FALSE
