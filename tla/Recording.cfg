CONSTANTS
    h1 = h1
    h2 = h2
    Handlers <- MCHandlers
    MaxRouters = 1
    MaxActions = 2
SPECIFICATION Spec
SYMMETRY Symmetric
INVARIANTS
    TypeOK
    FlagFollowsRequests
    NothingLost
    ReplayNetwork
    RoutersAccounted
    OneRouter
