----------------------------- MODULE MCDomainRef -----------------------------
(* Small instance of DomainRef: two pages, three goroutines.               *)
EXTENDS DomainRef

CONSTANTS p1, p2, t1, t2, t3

MCPages == {p1, p2}
MCThreads == {t1, t2, t3}

=============================================================================
