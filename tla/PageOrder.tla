------------------------------ MODULE PageOrder ------------------------------
(***************************************************************************)
(* s.pageOrder (page_management.go), a slice that handlers read and write  *)
(* without a lock.  Each of trackPage's and untrackPage's statements on it *)
(* is a step of a handler, so that others get in between a lookup and the  *)
(* write it leads to.  Two writes that run at the same time are a data     *)
(* race: the one that stores the slice header last undoes the other's, of  *)
(* which a removal may already have moved the elements in place.           *)
(***************************************************************************)
EXTENDS Integers, Sequences

Positions(s, p) == {i \in DOMAIN s : s[i] = p}

(* Where a loop over the slice finds p: in one place, or none.             *)
First(s, p) == {i \in Positions(s, p) : \A j \in Positions(s, p) : i <= j}

(* append(s[:i-1], s[i:]...): the elements after i move down one place.    *)
Without(s, i) == [k \in 1 .. Len(s) - 1 |-> IF k < i THEN s[k] ELSE s[k + 1]]

(* The same with the old length: what others see if its header is lost.    *)
MovedDown(s, i) == [k \in 1 .. Len(s) |-> IF k < i \/ k = Len(s) THEN s[k] ELSE s[k + 1]]

(* What the slice may be after a write, raced by another or not.           *)
Appended(s, p, raced) == {Append(s, p)} \cup (IF raced THEN {s} ELSE {})
Removed(s, i, raced) == {Without(s, i)} \cup (IF raced THEN {s, MovedDown(s, i)} ELSE {})

=============================================================================
