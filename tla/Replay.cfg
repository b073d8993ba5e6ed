CONSTANTS
    Nodes <- MCNodes
    Kind <- MCKind
    Label <- MCLabel
    Pressed = "Less"
    Options <- MCOptions
    Hidden <- MCHidden
    Disabled <- MCDisabled
    Late <- MCLate
    Order <- MCOrder
    Bottom = 2
    Text = "x"
    Containing <- MCContaining
    Specs <- MCSpecs
    Fills <- MCFills
    Asked <- MCAsked
    Goal <- MCGoal
    Noisy <- MCNoisy
    Moved <- MCMoved
    Url0 = "u0"
    Url1 = "u1"
    Pixels <- MCPixels
    DefaultPixels = 1
    MaxEvents = 2
SPECIFICATION ReplaySpec
CHECK_DEADLOCK FALSE
INVARIANTS
    ReplayReproduces
    ExportAgrees
PROPERTIES
    CheckpointsKept
    ReplayEnds
