\* Callers that do not coordinate at all, a rtksvrmark that never returns and failures.
SPECIFICATION FairSpec
CONSTANTS
    u1 = u1
    u2 = u2
    t1 = t1
    t2 = t2
    NoOne = NoOne
    Users <- MCUsers
    Threads <- OneServer
    NIn = 1
    NSol = 1
    Ops <- AnyOps
    Faults <- RareFaults
    Serial = FALSE
CHECK_DEADLOCK FALSE
INVARIANTS
    NoLockLeftHeld
PROPERTY
    ExitCompletes
