\* Four orders in two threads, copies among them: the day's limits and a ban.
SPECIFICATION Spec
CONSTANTS
    r1 = r1
    r2 = r2
    r3 = r3
    r4 = r4
    k1 = k1
    c1 = c1
    p1 = p1
    p2 = p2
    None = None
    Requests = {r1, r2, r3, r4}
    Keys = {c1}
    Procs = {p1, p2}
    RequireRedis = FALSE
    Faults = {"ban", "celery"}
    Payloads <- DayOrders
    Slots = 2
    Attempts = 2
    MaxTrades = 2
    MaxLoss = 1
SYMMETRY RequestSymmetry
CHECK_DEADLOCK FALSE
INVARIANTS
    TradeLimit
    LossLimit
    BanIsPrompt
    QueueAfterCommit
