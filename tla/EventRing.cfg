CONSTANTS
    r1 = r1
    r2 = r2
    h1 = h1
    Requests <- MCRequests
    Statuses <- MCStatuses
    Handlers <- MCHandlers
    Spares <- MCSpares
    RingCap = 2
    ConsoleCap = 1
    MaxEvents = 4
SPECIFICATION Spec
SYMMETRY Symmetric
INVARIANTS
    NoForeignStatus
    ReportComplete
    ErrorsReported
PROPERTIES
    ImplementsWindow
