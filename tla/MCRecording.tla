----------------------------- MODULE MCRecording -----------------------------
(* Small instance of Recording: two handlers.                              *)
EXTENDS Recording, TLC

CONSTANTS h1, h2

MCHandlers == {h1, h2}

Symmetric == Permutations(MCHandlers)

=============================================================================
