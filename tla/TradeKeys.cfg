\* Three retries of one keyed order in two processes, every fault.
SPECIFICATION Spec
CONSTANTS
    r1 = r1
    r2 = r2
    r3 = r3
    r4 = r4
    k1 = k1
    c1 = c1
    p1 = p1
    p2 = p2
    None = None
    Requests = {r1, r2, r3}
    Keys = {k1}
    Procs = {p1, p2}
    RequireRedis = FALSE
    Faults = {"redis", "overrun", "crash"}
    Payloads <- KeyedRetries
    Slots = 2
    Attempts = 1
    MaxTrades = 5
    MaxLoss = 5
SYMMETRY RequestSymmetry
CHECK_DEADLOCK FALSE
INVARIANTS
    TypeOK
    LiveTokenKept
    OneTradePerKey
    NoCleanDoubleOrder
    AnswersAgree
