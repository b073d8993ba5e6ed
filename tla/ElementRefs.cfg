CONSTANTS
    n1 = n1
    n2 = n2
    n3 = n3
    idA = idA
    idB = idB
    k1 = k1
    k2 = k2
    Nodes <- MCNodes
    Ident <- MCIdent
    Slots <- MCSlots
    Callers <- MCCallers
    MaxEpochs = 1
SPECIFICATION Spec
CHECK_DEADLOCK FALSE
SYMMETRY Symmetric
INVARIANTS
    RefKeepsIdentity
    RefStableWhileQuiet
