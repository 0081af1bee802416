\* Two requests under fairness, keyed or not, copied or not, Redis required,
\* every fault but a ban: the promise to clients and what must happen.
SPECIFICATION FairSpec
CONSTANTS
    r1 = r1
    r2 = r2
    r3 = r3
    r4 = r4
    k1 = k1
    c1 = c1
    p1 = p1
    p2 = p2
    None = None
    Requests = {r1, r2}
    Keys = {k1, c1}
    Procs = {p1, p2}
    RequireRedis = TRUE
    Faults = {"redis", "overrun", "crash", "db", "celery"}
    Payloads <- MixedOrders
    Slots = 2
    Attempts = 2
    MaxTrades = 2
    MaxLoss = 2
CHECK_DEADLOCK FALSE
PROPERTIES
    KeepsPromise
    EveryRequestEnds
    CommittedTradeIsHandedOn
