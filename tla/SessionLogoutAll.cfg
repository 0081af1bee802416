\* "Logged out from all devices" against a refresh under way.
SPECIFICATION Spec
CONSTANTS
    r1 = r1
    r2 = r2
    r3 = r3
    r4 = r4
    r5 = r5
    None = None
    Requests = {r1, r2, r3, r4}
    Threads = 3
    MaxSessions = 1
    Second = 2
    ReuseProtection = TRUE
    Faults = {}
SYMMETRY RequestSymmetry
CHECK_DEADLOCK FALSE
INVARIANTS
    LoggedOutFromAllDevices
