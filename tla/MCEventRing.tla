----------------------------- MODULE MCEventRing -----------------------------
(* Small instance of EventRing: a ring of two entries.                     *)
EXTENDS EventRing, TLC

CONSTANTS r1, r2, h1

MCRequests == {r1, r2}
MCStatuses == {200, 404}
MCHandlers == {h1}
MCSpares == {0, 1}

Symmetric == Permutations(MCRequests)

=============================================================================
