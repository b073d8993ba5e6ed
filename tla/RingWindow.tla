------------------------------ MODULE RingWindow ------------------------------
(***************************************************************************)
(* What the rest of the daemon may ask of the network ring: a window over  *)
(* the latest requests, in order, each with its own status or none yet.    *)
(* No pointers, no arrays; EventRing implements it.                        *)
(***************************************************************************)
EXTENDS Integers, Sequences

CONSTANTS Requests, Statuses, RingCap

VARIABLES
    window,     \* the entries a reader sees, oldest first
    lastSeq     \* the number given to the latest event

windowVars == <<window, lastSeq>>

Pending == 0

(* The latest entry of a request, if it is still in the window.            *)
IsLatestOf(k, r) ==
    /\ k \in DOMAIN window /\ window[k].req = r
    /\ \A j \in DOMAIN window : window[j].req = r => j <= k

LastOf(s, n) == IF Len(s) > n THEN SubSeq(s, Len(s) - n + 1, Len(s)) ELSE s

WInit == window = <<>> /\ lastSeq = 0

(* A request is numbered and enters; the oldest may leave.                 *)
Enter(r) ==
    /\ lastSeq' = lastSeq + 1
    /\ window' = LastOf(Append(window, [seq |-> lastSeq', req |-> r, status |-> Pending]),
                        RingCap)

(* A console event takes a number.                                         *)
Number == lastSeq' = lastSeq + 1 /\ UNCHANGED window

(* A response fills in the latest entry of its request, once.              *)
Answer(r, status) ==
    /\ \E k \in DOMAIN window :
           /\ IsLatestOf(k, r) /\ window[k].status = Pending
           /\ window' = [window EXCEPT ![k].status = status]
    /\ UNCHANGED lastSeq

WNext ==
    \/ \E r \in Requests : Enter(r)
    \/ Number
    \/ \E r \in Requests, status \in Statuses : Answer(r, status)

WSpec == WInit /\ [][WNext]_windowVars

=============================================================================
