---------------------------- MODULE MCElementRefs ----------------------------
(* Small instances of ElementRefs: three elements, two of them twins.      *)
EXTENDS ElementRefs, TLC

CONSTANTS n1, n2, n3, idA, idB, k1, k2

MCNodes == {n1, n2, n3}
MCIdent == [n \in MCNodes |-> IF n = n3 THEN idB ELSE idA]
MCSlots == 1 .. 3
MCCallers == {k1, k2}
Symmetric == Permutations({n1, n2}) \cup Permutations(MCCallers)

=============================================================================
