---------------------------- MODULE MCGuestEvents ----------------------------
(* Small instances of GuestEvents: two loops, one client, the runtime.     *)
EXTENDS GuestEvents

CONSTANTS b1, b2, c1

MCLoops == {b1, b2}
MCOneClient == {c1}

(* A page listener broadcasts both kinds.                                  *)
MCKind(e) == IF e.n = 1 THEN "network_request" ELSE "console"

=============================================================================
