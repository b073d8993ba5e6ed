-------------------------- MODULE MCNetworkCapture --------------------------
(* Small instance of NetworkCapture: two requests, two handlers.           *)
EXTENDS NetworkCapture

CONSTANTS r1, r2, h1, h2

MCRequests == {r1, r2}
MCHandlers == {h1, h2}

=============================================================================
