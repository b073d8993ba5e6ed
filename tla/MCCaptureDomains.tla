--------------------------- MODULE MCCaptureDomains ---------------------------
(* Small instance of CaptureDomains: two pages, two handlers at once.      *)
EXTENDS CaptureDomains, TLC

CONSTANTS p1, p2, t1, t2

MCPages == {p1, p2}
MCThreads == {t1, t2}

Symmetric == Permutations(MCPages) \cup Permutations(MCThreads)

=============================================================================
