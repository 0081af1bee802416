\* Three requests in two processes, every fault.
SPECIFICATION Spec
CONSTANTS
    r1 = r1
    r2 = r2
    r3 = r3
    Requests = {r1, r2, r3}
    Seed = seed
    Processes = {"p1", "p2"}
    ProcessOf <- MCProcessOf
    Workloads <- MCWorkloads
    Faults = {"redis", "database", "process", "targets"}
CHECK_DEADLOCK FALSE
INVARIANTS
    TypeOK
    AnsweredChangeIsSeen
    NotDoneTwice
    AuditMatches
