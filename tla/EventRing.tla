------------------------------ MODULE EventRing ------------------------------
(***************************************************************************)
(* The always-on rings of network requests and console messages (ring.go)  *)
(* as the page listeners fill them (listeners.go) and the handlers that    *)
(* collect evidence of an action read them (dialogs.go:179, actionAnchors).*)
(* Every step below is one critical section of s.mu.                       *)
(*                                                                         *)
(* netRing is a Go slice over a backing array: `cells' is the array up to  *)
(* the end of the slice, `off' the cells the reslice dropped, `size' its   *)
(* capacity.  ringInFlight holds pointers to cells.  An append at full     *)
(* capacity copies the live cells to a new array and leaves the pointers   *)
(* behind in the old one, which nobody reads again.                        *)
(***************************************************************************)
EXTENDS Integers, Sequences, FiniteSets

CONSTANTS
    Requests,     \* CDP request ids
    Statuses,     \* HTTP statuses of responses
    Handlers,     \* HTTP handlers that report evidence
    RingCap,      \* netRingCap
    ConsoleCap,   \* consoleRingCap
    Spares,       \* spare cells growslice may allocate
    MaxEvents     \* bound: events observed

ASSUME CapAssumption ==
    /\ RingCap \in Nat \ {0} /\ ConsoleCap \in Nat \ {0}
    /\ Spares \subseteq Nat /\ MaxEvents \in Nat
    /\ Statuses \subseteq Nat \ {0}

VARIABLES
    eventSeq,     \* s.eventSeq
    cells, off, size,   \* s.netRing
    inFlight,     \* s.ringInFlight: the cell pointed to, Moved, or Absent
    consoleRing,  \* s.consoleRing
    phase,        \* the browser's side of each request
    log,          \* history: what event number i was, and its true status
    handler       \* per handler: its anchor and what it has read

ringVars == <<eventSeq, cells, off, size, inFlight>>
vars == <<ringVars, consoleRing, phase, log, handler>>

Pending == 0
Absent == -1
Moved == 0     \* a pointer into an array append has left

(* s.netRing and s.consoleRing as a reader sees them.                      *)
Window == SubSeq(cells, off + 1, Len(cells))

LastOf(s, n) == IF Len(s) > n THEN SubSeq(s, Len(s) - n + 1, Len(s)) ELSE s

Report(pc, anchor, upto, net, errors) ==
    [pc |-> pc, anchor |-> anchor, upto |-> upto, net |-> net, errors |-> errors]
Fresh == Report("idle", 0, 0, {}, {})

Entries == [seq : Nat, req : Requests, status : Statuses \cup {Pending}]
Events == [kind : {"net"}, req : Requests, status : Statuses \cup {Pending}]
          \cup [kind : {"error", "warn"}]
Reports == [pc : {"idle", "acting", "netRead", "reported"}, anchor : Nat, upto : Nat,
            net : SUBSET Entries, errors : SUBSET Nat]

TypeOK ==
    /\ eventSeq \in Nat
    /\ cells \in Seq(Entries) /\ off \in 0 .. Len(cells) /\ size \in Nat
    /\ Len(cells) <= size
    /\ inFlight \in [Requests -> {Absent, Moved} \cup (1 .. Len(cells))]
    /\ consoleRing \in Seq([seq : Nat, level : {"error", "warn"}])
    /\ phase \in [Requests -> {"new", "open", "answered", "over"}]
    /\ log \in Seq(Events)
    /\ handler \in [Handlers -> Reports]
    /\ \A h \in Handlers : handler[h].anchor <= eventSeq /\ handler[h].upto <= eventSeq

Init ==
    /\ eventSeq = 0
    /\ cells = <<>> /\ off = 0 /\ size = 0
    /\ inFlight = [r \in Requests |-> Absent]
    /\ consoleRing = <<>>
    /\ phase = [r \in Requests |-> "new"]
    /\ log = <<>>
    /\ handler = [h \in Handlers |-> Fresh]

-----------------------------------------------------------------------------
(* The listeners.                                                          *)

NetEvent(r) == [kind |-> "net", req |-> r, status |-> Pending]

(* Mutant: the reslice keeps one cell too few.                             *)
ReslicedShort(cs, from) == IF Len(cs) - from >= RingCap THEN Len(cs) - RingCap + 1 ELSE from

NewEntry(r) == [seq |-> eventSeq + 1, req |-> r, status |-> Pending]

(* Drop the cells before the last RingCap ones: s.netRing[len-cap:].       *)
Resliced(cs, from) == IF Len(cs) - from > RingCap THEN Len(cs) - RingCap ELSE from

(* Mutant: the ring is kept in place by copying it down one cell, under    *)
(* pointers that still name the old cells.                                 *)
PushNetRingCopyDown(r) ==
    /\ eventSeq' = eventSeq + 1
    /\ cells' = LastOf(Append(cells, NewEntry(r)), RingCap)
    /\ off' = 0
    /\ size' = RingCap
    /\ inFlight' = [inFlight EXCEPT ![r] = Len(cells')]

(* pushNetRing and the assignment to ringInFlight: append in place while   *)
(* the array has room, in a new array otherwise; then reslice; the caller  *)
(* keeps a pointer to the last cell.                                       *)
PushInPlace(r) ==
    /\ Len(cells) < size
    /\ cells' = Append(cells, NewEntry(r))
    /\ off' = Resliced(cells', off)
    /\ size' = size
    /\ inFlight' = [inFlight EXCEPT ![r] = Len(cells')]

PushGrown(r) ==
    /\ Len(cells) = size
    /\ cells' = Append(Window, NewEntry(r))
    /\ off' = Resliced(cells', 0)
    /\ \E spare \in Spares : size' = Len(cells') + spare
    /\ inFlight' = [q \in Requests |->
                       IF q = r THEN Len(cells')
                       ELSE IF inFlight[q] = Absent THEN Absent ELSE Moved]

PushNetRing(r) ==
    /\ eventSeq' = eventSeq + 1
    /\ PushInPlace(r) \/ PushGrown(r)

(* NetworkRequestWillBeSent.  A redirect announces the same id again and   *)
(* takes the pointer of the hop before, which never gets a response.       *)
WillBeSent(r) ==
    /\ Len(log) < MaxEvents
    /\ phase[r] \in {"new", "open"}
    /\ phase' = [phase EXCEPT ![r] = "open"]
    /\ PushNetRing(r)
    /\ log' = Append(log, NetEvent(r))
    /\ UNCHANGED <<consoleRing, handler>>

(* A request sent before the page's domain was enabled: its later events   *)
(* arrive, its first one did not.                                          *)
SentUnseen(r) ==
    /\ phase[r] = "new"
    /\ phase' = [phase EXCEPT ![r] = "open"]
    /\ UNCHANGED <<ringVars, consoleRing, log, handler>>

(* The log entry a response of r belongs to: its latest hop.               *)
Hops(r) == {i \in DOMAIN log : log[i].kind = "net" /\ log[i].req = r}
IsLatestHop(i, r) == i \in Hops(r) /\ \A j \in Hops(r) : j <= i

LogAnswer(r, status) ==
    log' = [i \in DOMAIN log |->
               IF IsLatestHop(i, r) THEN [log[i] EXCEPT !.status = status] ELSE log[i]]

(* ringCorrelate: write through the pointer, and forget it.  The write     *)
(* reaches the ring only if the pointer is still into its array.           *)
RingCorrelate(r, status) ==
    /\ cells' = IF inFlight[r] > 0 THEN [cells EXCEPT ![inFlight[r]].status = status] ELSE cells
    /\ inFlight' = [inFlight EXCEPT ![r] = Absent]
    /\ UNCHANGED <<eventSeq, off, size>>

(* NetworkResponseReceived.                                                *)
ResponseReceived(r, status) ==
    /\ phase[r] = "open"
    /\ phase' = [phase EXCEPT ![r] = "answered"]
    /\ RingCorrelate(r, status)
    /\ LogAnswer(r, status)
    /\ UNCHANGED <<consoleRing, handler>>

(* NetworkLoadingFailed, before or after the response: ringDrop.           *)
LoadingFailed(r) ==
    /\ phase[r] \in {"open", "answered"}
    /\ phase' = [phase EXCEPT ![r] = "over"]
    /\ inFlight' = [inFlight EXCEPT ![r] = Absent]
    /\ UNCHANGED <<eventSeq, cells, off, size, consoleRing, log, handler>>

(* Mutant: the console ring numbers its entries for itself.                *)
PushConsoleRingOwnSeq(level) ==
    /\ eventSeq' = eventSeq
    /\ consoleRing' = LastOf(Append(consoleRing,
                                    [seq |-> Len(consoleRing) + 1, level |-> level]), ConsoleCap)

PushConsoleRing(level) ==
    /\ eventSeq' = eventSeq + 1
    /\ consoleRing' = LastOf(Append(consoleRing, [seq |-> eventSeq', level |-> level]),
                             ConsoleCap)

(* RuntimeConsoleAPICalled: the ring takes errors and warnings only.       *)
ConsoleAPICalled(level) ==
    /\ Len(log) < MaxEvents
    /\ PushConsoleRing(level)
    /\ log' = Append(log, [kind |-> level])
    /\ UNCHANGED <<cells, off, size, inFlight, phase, handler>>

-----------------------------------------------------------------------------
(* The readers.  What they find is in the order of its numbers: sets do.   *)

NetRequestsSince(since) == {e \in {Window[k] : k \in DOMAIN Window} : e.seq > since}

ConsoleErrorsSince(since) ==
    {e \in {consoleRing[k] : k \in DOMAIN consoleRing} : e.seq > since /\ e.level = "error"}

(* actionAnchors: the sequence number before the action.                   *)
Anchor(h) ==
    /\ handler[h].pc = "idle"
    /\ handler' = [handler EXCEPT ![h] = Report("acting", eventSeq, 0, {}, {})]
    /\ UNCHANGED <<ringVars, consoleRing, phase, log>>

(* collectEvidence reads the requests, unlocks, then reads the errors.     *)
ReadRequests(h) ==
    /\ handler[h].pc = "acting"
    /\ handler' = [handler EXCEPT ![h] = Report("netRead", @.anchor, eventSeq,
                                                NetRequestsSince(@.anchor), {})]
    /\ UNCHANGED <<ringVars, consoleRing, phase, log>>

ReadErrors(h) ==
    /\ handler[h].pc = "netRead"
    /\ handler' = [handler EXCEPT ![h] = Report("reported", @.anchor, @.upto, @.net,
                                                {e.seq : e \in ConsoleErrorsSince(@.anchor)})]
    /\ UNCHANGED <<ringVars, consoleRing, phase, log>>

Reply(h) ==
    /\ handler[h].pc = "reported"
    /\ handler' = [handler EXCEPT ![h] = Fresh]
    /\ UNCHANGED <<ringVars, consoleRing, phase, log>>

Next ==
    \/ \E r \in Requests :
           \/ WillBeSent(r) \/ SentUnseen(r) \/ LoadingFailed(r)
           \/ \E status \in Statuses : ResponseReceived(r, status)
    \/ \E level \in {"error", "warn"} : ConsoleAPICalled(level)
    \/ \E h \in Handlers : Anchor(h) \/ ReadRequests(h) \/ ReadErrors(h) \/ Reply(h)

Spec == Init /\ [][Next]_vars

-----------------------------------------------------------------------------

(* A status in the ring is the one the browser gave this very hop, or none *)
(* yet, through every move of the array and every redirect of the id.      *)
NoForeignStatus ==
    \A k \in DOMAIN Window : Window[k].status \in {Pending, log[Window[k].seq].status}

(* A report holds the requests observed between its anchor and its read,   *)
(* all of them unless more than RingCap were, and nothing older.           *)
ReportComplete ==
    \A h \in Handlers : handler[h].pc \in {"netRead", "reported"} =>
        LET during == {i \in handler[h].anchor + 1 .. handler[h].upto : log[i].kind = "net"}
            told == {e.seq : e \in handler[h].net}
        IN /\ told \subseteq during
           /\ \A i \in during \ told : /\ Cardinality(told) = RingCap
                                       /\ \A j \in told : i < j

(* The errors of a report are the errors after its anchor; one is missing  *)
(* only when ConsoleCap console events came after it.                      *)
ErrorsReported ==
    \A h \in Handlers : handler[h].pc = "reported" =>
        /\ \A i \in handler[h].errors : i > handler[h].anchor /\ log[i].kind = "error"
        /\ \A i \in handler[h].anchor + 1 .. handler[h].upto :
               log[i].kind = "error" /\ i \notin handler[h].errors
                   => Cardinality({j \in DOMAIN log : j > i /\ log[j].kind # "net"})
                          >= ConsoleCap

(* ring.go:19: "Status is filled in when the response arrives; 0 means no  *)
(* response yet."                                                          *)
StatusFilledIn ==
    \A k \in DOMAIN Window : Window[k].status = log[Window[k].seq].status

(* The pointers and the array behind it are not to be seen: the ring is    *)
(* the abstract window.                                                    *)
Ring == INSTANCE RingWindow WITH window <- Window, lastSeq <- eventSeq
ImplementsWindow == Ring!WSpec

=============================================================================
