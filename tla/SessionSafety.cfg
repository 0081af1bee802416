\* Four requests in two threads, at most one session, every fault.
SPECIFICATION Spec
CONSTANTS
    r1 = r1
    r2 = r2
    r3 = r3
    r4 = r4
    r5 = r5
    None = None
    Requests = {r1, r2, r3, r4}
    Threads = 2
    MaxSessions = 1
    Second = 2
    ReuseProtection = TRUE
    Faults = {"db", "ban"}
SYMMETRY RequestSymmetry
CHECK_DEADLOCK FALSE
INVARIANTS
    TypeOK
    SessionCap
    ExchangedAtOnce
    RevocationHolds
