\* Callers that serialise the life cycle calls.
SPECIFICATION FairSpec
CONSTANTS
    u1 = u1
    u2 = u2
    t1 = t1
    t2 = t2
    NoOne = NoOne
    Users <- MCUsers
    Threads <- MCThreads
    NIn = 1
    NSol = 1
    Ops <- NoMark
    Faults <- SomeFaults
    Serial = TRUE
INVARIANTS
    LifeInv
PROPERTIES
    CallsReturn
    ImplementsLife
