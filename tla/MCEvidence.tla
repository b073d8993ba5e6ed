----------------------------- MODULE MCEvidence -----------------------------
(* Two pages, two action requests, two downloads of one or of two names.   *)
EXTENDS Evidence

CONSTANTS p1, p2, h1, h2, f1, f2

MCPages == {p1, p2}
MCHandlers == {h1, h2}
MCNames == {f1, f2}
=============================================================================
