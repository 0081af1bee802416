\* Two callers in two processes, with a Redis that fails now and then.
SPECIFICATION FairSpec
CONSTANTS
    c1 = c1
    c2 = c2
    c3 = c3
    p1 = p1
    p2 = p2
    Callers = {c1, c3}
    Procs = {p1, p2}
    ProcOf <- Placement
    Attempts = 2
    Threshold = 2
    RedisFails = TRUE
INVARIANTS
    TypeOK
    OpensOnStreak
    PausesCalls
PROPERTIES
    ReturnsToService
