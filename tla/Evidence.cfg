CONSTANTS
    p1 = p1
    p2 = p2
    h1 = h1
    h2 = h2
    f1 = f1
    f2 = f2
    Pages <- MCPages
    Handlers <- MCHandlers
    Names <- MCNames
    DialogLogCap = 1
    DownloadsCap = 1
    MaxEffects = 2
    MaxActions = 2
    MaxAdmin = 1
SPECIFICATION Spec
INVARIANTS DialogsReportedOnce LoggedAsAnswered PathIsOwn
PROPERTIES DialogsAnswered ReceiptNamesDownloads
CHECK_DEADLOCK FALSE
