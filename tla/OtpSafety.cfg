\* Three requests in two threads, with the challenges of two sends.
SPECIFICATION Spec
CONSTANTS
    r1 = r1
    r2 = r2
    r3 = r3
    s1 = s1
    s2 = s2
    Requests = {r1, r2, r3}
    Sends = {s1, s2}
    Workloads <- TwoSends
    Threads = 2
    MaxAttempts = 2
    Failures = 1
    Timed = {"login", "forgot_password"}
SYMMETRY RequestSymmetry
CHECK_DEADLOCK FALSE
INVARIANTS
    TypeOK
    GuessesCounted
    UsedAtOnce
    OneRegistration
    ProvenBeforeUse
