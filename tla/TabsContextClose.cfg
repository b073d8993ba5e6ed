CONSTANTS
    h1 = h1
    h2 = h2
    Handlers <- MCHandlers
    Aliases <- MCAliases
    MaxPages = 4
    MaxScripts = 1
    MaxOps = 3
SPECIFICATION Spec
PROPERTIES CloseFallsBack
CHECK_DEADLOCK FALSE
