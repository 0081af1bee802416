\* Keys that are used at a URL at which they were never validated.
SPECIFICATION Spec
CONSTANTS
    r1 = r1
    r2 = r2
    r3 = r3
    r4 = r4
    Requests = {r1, r2, r3, r4}
    None = None
    Workloads <- MCWorkloads
    ValidAt <- MCValidAt
    PlatformKeys = TRUE
    Attempts = 2
    Faults = {"exchange", "database"}
CHECK_DEADLOCK FALSE
INVARIANTS
    UsedWhereValidated
