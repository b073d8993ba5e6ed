CONSTANTS
    p1 = p1
    p2 = p2
    h1 = h1
    h2 = h2
    f1 = f1
    f2 = f2
    Pages <- MCPages
    Handlers <- MCHandlers
    Names <- MCNames
    DialogLogCap = 1
    DownloadsCap = 2
    MaxEffects = 2
    MaxActions = 0
    MaxAdmin = 1
SPECIFICATION Spec
INVARIANTS PathLeadsToFile
CHECK_DEADLOCK FALSE
