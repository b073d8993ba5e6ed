CONSTANTS
    r1 = r1
    r2 = r2
    h1 = h1
    h2 = h2
    Requests <- MCRequests
    Handlers <- MCHandlers
    MaxEntries = 3
    MaxSessions = 2
SPECIFICATION FairSpec
CHECK_DEADLOCK FALSE
INVARIANTS
    ResultComplete
    TakenOnce
PROPERTIES
    OnlyOwnSessionWrites
    StopReplies
