CONSTANTS
    p1 = p1
    p2 = p2
    t1 = t1
    t2 = t2
    NoPage = NoPage
    Pages <- MCPages
    Threads <- MCThreads
    MaxRefs = 4
    MaxMult = 2
    MaxStray = 1
    MaxFailed = 0
SPECIFICATION CaptureSpec
SYMMETRY Symmetric
INVARIANTS
    RefsAccounted
    BaselineHeld
