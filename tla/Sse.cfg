CONSTANTS
    b1 = b1
    b2 = b2
    c1 = c1
    Loops <- MCLoops
    Clients <- MCOneClient
    Runtime = c1
    Kind <- MCKind
    BufferCap = 2
    MaxEvents = 2
    MaxCalls = 2
    MaxDepth = 2
SPECIFICATION GuestFairSpec
CHECK_DEADLOCK FALSE
INVARIANTS
    InOrder
    LossAnnounced
    NeverSendsOnClosed
    GuestInOrder
    GuestMissesNothing
PROPERTIES
    NobodyBlocks
