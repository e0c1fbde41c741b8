SPECIFICATION Spec
CONSTANTS
    Entries = {e1, e2, e3, e4, e5}
    PageLimit = 2
    MaxOffset = 2
    ChangeMax = 3
    m1 = m1
    m2 = m2
    t1 = t1
    t2 = t2
    u1 = u1
    u2 = u2
    Markets = {m1, m2}
    Tokens = {t1, t2, u1, u2}
    TokensOf <- MCTokensOf
    Schedules = {s1, s2}
    Readers = {r1, r2, r3}
    PublishMax = 2
    PriceOne = 100
    LotGrain = 100
    Ticks <- MCTicks
    LimitRequests <- MCLimitRequests
    MarketRequests <- MCMarketRequests
    Books <- MCBooks
    Fees <- MCFees
    RateOne = 1000
    Precision = 1000
    RetickMax = 2
INVARIANTS
    NothingHeldIsMissed
    SchedulesAreTheMarkets
    OrdersMeetTheirPrice
    WithinBalance
CHECK_DEADLOCK FALSE
