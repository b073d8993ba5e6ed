CONSTANTS
    h1 = h1
    h2 = h2
    Handlers <- MCHandlers
    Aliases <- MCAliases
    MaxPages = 4
    MaxScripts = 1
    MaxOps = 4
SPECIFICATION Spec
INVARIANTS EveryTabHasScripts ClearedScriptsGone
PROPERTIES TabIndexStable ResumeRestoresActive
CHECK_DEADLOCK FALSE
SYMMETRY Symmetry
