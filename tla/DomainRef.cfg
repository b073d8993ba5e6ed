CONSTANTS
    p1 = p1
    p2 = p2
    t1 = t1
    t2 = t2
    t3 = t3
    Pages <- MCPages
    Threads <- MCThreads
    MaxRefs = 2
    MaxMult = 1
SPECIFICATION FairSpec
INVARIANTS
    DomainFollowsCount
    CallbacksBalance
PROPERTIES
    CallbacksRun
