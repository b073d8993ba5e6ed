--------------------------- MODULE NetworkCapture ---------------------------
(***************************************************************************)
(* A network capture session from its start to the results of its stop     *)
(* (routes_network.go:33-125) and the listeners that fill it               *)
(* (listeners.go:31-243).  Entries are shared by pointer: the listener     *)
(* loop, one goroutine per response body, and the stop handler that        *)
(* serialises them.  Everything up to the s.mu.Unlock of a handler is one  *)
(* step; the wait for the bodies and the serialisation come after it.      *)
(*                                                                         *)
(* sync.WaitGroup is modelled as the Go runtime implements it: a counter,  *)
(* the waiters, and the Done that reached zero resetting both before it    *)
(* wakes them.  Using it again too early panics: in a handler net/http     *)
(* recovers and the response is lost, in any other goroutine the daemon    *)
(* dies.                                                                   *)
(***************************************************************************)
EXTENDS Integers, Sequences, FiniteSets

CONSTANTS
    Requests,      \* CDP request ids
    Handlers,      \* HTTP handlers of /network/capture/*
    MaxEntries,    \* bound: entries captured
    MaxSessions    \* bound: sessions started

ASSUME CaptureBounds == MaxEntries \in Nat /\ MaxSessions \in Nat

VARIABLES
    session,     \* number of the latest session
    capturing,   \* s.capturing
    bodies,      \* s.captureInclude["response-body"]
    captured,    \* s.capturedReqs, as the ids of the entries
    inFlight,    \* s.inFlightReqs: an entry, or NoEntry
    entries,     \* the heap of entries ever captured
    fetch,       \* per entry: its response-body goroutine
    count,       \* the counter of s.bodyFetchWg
    resetting,   \* the Done that reached zero, before it wakes the waiters
    phase,       \* the browser's side of each request
    pc,          \* per handler
    result,      \* per handler: the entries its stop took
    crashed      \* the daemon died of a panic

captureVars == <<session, capturing, bodies, captured, inFlight>>
wgVars == <<count, resetting>>
handlerVars == <<pc, result>>
vars == <<captureVars, entries, fetch, wgVars, phase, handlerVars, crashed>>

NoEntry == 0
Ids == 1 .. Len(entries)

TypeOK ==
    /\ session \in 0 .. MaxSessions
    /\ capturing \in BOOLEAN /\ bodies \in BOOLEAN
    /\ captured \in Seq(Ids)
    /\ inFlight \in [Requests -> {NoEntry} \cup Ids]
    /\ entries \in Seq([session : 1 .. MaxSessions, response : BOOLEAN,
                        finished : BOOLEAN, body : BOOLEAN])
    /\ fetch \in [Ids -> {"none", "calling", "failed", "written", "resetting", "done"}]
    /\ count \in Nat /\ resetting \in {NoEntry} \cup Ids
    /\ phase \in [Requests -> {"new", "sent", "answered", "over"}]
    /\ pc \in [Handlers -> {"idle", "drain", "waiting", "woken", "format", "panicked"}]
    /\ result \in [Handlers -> Seq(Ids)]
    /\ crashed \in BOOLEAN

Init ==
    /\ session = 0 /\ capturing = FALSE /\ bodies = FALSE
    /\ captured = <<>>
    /\ inFlight = [r \in Requests |-> NoEntry]
    /\ entries = <<>>
    /\ fetch = <<>>
    /\ count = 0 /\ resetting = NoEntry
    /\ phase = [r \in Requests |-> "new"]
    /\ pc = [h \in Handlers |-> "idle"]
    /\ result = [h \in Handlers |-> <<>>]
    /\ crashed = FALSE

-----------------------------------------------------------------------------
(* The wait group.                                                         *)

Waiting == {h \in Handlers : pc[h] = "waiting"}

(* Add(1): a caller that finds waiters and a zero counter has run into a   *)
(* Done that is still resetting the group.                                 *)
WgAdd ==
    /\ count' = count + 1
    /\ crashed' = (resetting # NoEntry)
    /\ UNCHANGED resetting

-----------------------------------------------------------------------------
(* The page listeners.                                                     *)

NewCapture == [session |-> session, response |-> FALSE, finished |-> FALSE, body |-> FALSE]

(* NetworkRequestWillBeSent; a redirect sends the same id again and takes  *)
(* over its place in inFlightReqs.  `matches' is the session's tab filter. *)
WillBeSent(r) ==
    /\ ~crashed /\ phase[r] \in {"new", "sent"}
    /\ phase' = [phase EXCEPT ![r] = "sent"]
    /\ \E matches \in BOOLEAN :
           IF capturing /\ matches
             THEN /\ Len(entries) < MaxEntries
                  /\ entries' = Append(entries, NewCapture)
                  /\ fetch' = Append(fetch, "none")
                  /\ captured' = Append(captured, Len(entries'))
                  /\ inFlight' = [inFlight EXCEPT ![r] = Len(entries')]
             ELSE UNCHANGED <<entries, fetch, captured, inFlight>>
    /\ UNCHANGED <<session, capturing, bodies, wgVars, handlerVars, crashed>>

(* NetworkResponseReceived.                                                *)
ResponseReceived(r) ==
    /\ ~crashed /\ phase[r] = "sent"
    /\ phase' = [phase EXCEPT ![r] = "answered"]
    /\ IF capturing /\ inFlight[r] # NoEntry
         THEN entries' = [entries EXCEPT ![inFlight[r]].response = TRUE]
         ELSE UNCHANGED entries
    /\ UNCHANGED <<captureVars, fetch, wgVars, handlerVars, crashed>>

(* Mutant: the goroutine is started without counting it.                   *)
LoadingFinishedUncounted(r) ==
    /\ ~crashed /\ phase[r] = "answered"
    /\ phase' = [phase EXCEPT ![r] = "over"]
    /\ IF capturing /\ inFlight[r] # NoEntry
         THEN /\ entries' = [entries EXCEPT ![inFlight[r]].finished = TRUE]
              /\ inFlight' = [inFlight EXCEPT ![r] = NoEntry]
              /\ fetch' = IF bodies THEN [fetch EXCEPT ![inFlight[r]] = "calling"] ELSE fetch
         ELSE UNCHANGED <<entries, inFlight, fetch>>
    /\ UNCHANGED <<session, capturing, bodies, captured, wgVars, crashed, handlerVars>>

(* NetworkLoadingFinished: the body's goroutine is counted before s.mu is  *)
(* released.                                                               *)
LoadingFinished(r) ==
    /\ ~crashed /\ phase[r] = "answered"
    /\ phase' = [phase EXCEPT ![r] = "over"]
    /\ IF capturing /\ inFlight[r] # NoEntry
         THEN /\ entries' = [entries EXCEPT ![inFlight[r]].finished = TRUE]
              /\ inFlight' = [inFlight EXCEPT ![r] = NoEntry]
              /\ IF bodies
                   THEN /\ fetch' = [fetch EXCEPT ![inFlight[r]] = "calling"]
                        /\ WgAdd
                   ELSE UNCHANGED <<fetch, wgVars, crashed>>
         ELSE UNCHANGED <<entries, inFlight, fetch, wgVars, crashed>>
    /\ UNCHANGED <<session, capturing, bodies, captured, handlerVars>>

(* NetworkLoadingFailed.                                                   *)
LoadingFailed(r) ==
    /\ ~crashed /\ phase[r] \in {"sent", "answered"}
    /\ phase' = [phase EXCEPT ![r] = "over"]
    /\ inFlight' = [inFlight EXCEPT ![r] = NoEntry]
    /\ UNCHANGED <<session, capturing, bodies, captured, entries, fetch, wgVars,
                   handlerVars, crashed>>

-----------------------------------------------------------------------------
(* The response-body goroutine of entry i.                                 *)

(* NetworkGetResponseBody returns: the body is written under s.mu; an      *)
(* error leaves it empty.                                                  *)
FetchReturns(i) ==
    /\ ~crashed /\ fetch[i] = "calling"
    /\ \/ /\ fetch' = [fetch EXCEPT ![i] = "written"]
          /\ entries' = [entries EXCEPT ![i].body = TRUE]
       \/ /\ fetch' = [fetch EXCEPT ![i] = "failed"]
          /\ UNCHANGED entries
    /\ UNCHANGED <<captureVars, wgVars, phase, handlerVars, crashed>>

(* Mutant: Done only on the path that got a body.                          *)
FetchDoneIfWritten(i) ==
    /\ ~crashed /\ fetch[i] \in {"written", "failed"}
    /\ count' = IF fetch[i] = "written" THEN count - 1 ELSE count
    /\ IF count' = 0 /\ Waiting # {}
         THEN fetch' = [fetch EXCEPT ![i] = "resetting"] /\ resetting' = i
         ELSE fetch' = [fetch EXCEPT ![i] = "done"] /\ UNCHANGED resetting
    /\ UNCHANGED <<captureVars, entries, phase, handlerVars, crashed>>

(* The deferred Done: at zero with waiters it goes on to reset the group.  *)
FetchDone(i) ==
    /\ ~crashed /\ fetch[i] \in {"written", "failed"}
    /\ count' = count - 1
    /\ IF count' = 0 /\ Waiting # {}
         THEN fetch' = [fetch EXCEPT ![i] = "resetting"] /\ resetting' = i
         ELSE fetch' = [fetch EXCEPT ![i] = "done"] /\ UNCHANGED resetting
    /\ UNCHANGED <<captureVars, entries, phase, handlerVars, crashed>>

FetchWake(i) ==
    /\ ~crashed /\ resetting = i
    /\ resetting' = NoEntry
    /\ fetch' = [fetch EXCEPT ![i] = "done"]
    /\ pc' = [h \in Handlers |-> IF h \in Waiting THEN "woken" ELSE pc[h]]
    /\ UNCHANGED <<captureVars, entries, count, phase, result, crashed>>

-----------------------------------------------------------------------------
(* The HTTP handlers.                                                      *)

NoneInFlight == [r \in Requests |-> NoEntry]

(* Mutant: the in-flight requests of the session before stay.              *)
CaptureStartKeepsInFlight(h) ==
    /\ ~crashed /\ pc[h] = "idle" /\ session < MaxSessions
    /\ session' = session + 1
    /\ capturing' = TRUE
    /\ bodies' \in BOOLEAN
    /\ captured' = <<>>
    /\ UNCHANGED <<inFlight, entries, fetch, wgVars, phase, handlerVars, crashed>>

(* handleNetworkCaptureStart: a new session, whether or not one runs.      *)
CaptureStart(h) ==
    /\ ~crashed /\ pc[h] = "idle" /\ session < MaxSessions
    /\ session' = session + 1
    /\ capturing' = TRUE
    /\ bodies' \in BOOLEAN
    /\ captured' = <<>>
    /\ inFlight' = NoneInFlight
    /\ UNCHANGED <<entries, fetch, wgVars, phase, handlerVars, crashed>>

(* Mutant: the entries taken stay in the session.                          *)
CaptureStopKeeps(h) ==
    /\ ~crashed /\ pc[h] = "idle"
    /\ capturing' = FALSE /\ bodies' = FALSE
    /\ result' = [result EXCEPT ![h] = captured]
    /\ inFlight' = NoneInFlight
    /\ pc' = [pc EXCEPT ![h] = "drain"]
    /\ UNCHANGED <<session, captured, entries, fetch, wgVars, phase, crashed>>

(* handleNetworkCaptureStop up to its unlock.                              *)
CaptureStop(h) ==
    /\ ~crashed /\ pc[h] = "idle"
    /\ capturing' = FALSE /\ bodies' = FALSE
    /\ result' = [result EXCEPT ![h] = captured]
    /\ captured' = <<>>
    /\ inFlight' = NoneInFlight
    /\ pc' = [pc EXCEPT ![h] = "drain"]
    /\ UNCHANGED <<session, entries, fetch, wgVars, phase, crashed>>

(* bodyFetchWg.Wait: returns at once at zero, else sleeps until a Done     *)
(* wakes it, and then insists that nobody has used the group again.        *)
DrainStart(h) ==
    /\ ~crashed /\ pc[h] = "drain"
    /\ pc' = [pc EXCEPT ![h] = IF count = 0 THEN "format" ELSE "waiting"]
    /\ UNCHANGED <<captureVars, entries, fetch, wgVars, phase, result, crashed>>

DrainWoken(h) ==
    /\ ~crashed /\ pc[h] = "woken"
    /\ pc' = [pc EXCEPT ![h] = IF count = 0 THEN "format" ELSE "panicked"]
    /\ UNCHANGED <<captureVars, entries, fetch, wgVars, phase, result, crashed>>

(* formatNetworkEntries and the reply; an unknown format or an unwritable  *)
(* path answers 500, the entries being gone either way.                    *)
Reply(h) ==
    /\ ~crashed /\ pc[h] \in {"format", "panicked"}
    /\ pc' = [pc EXCEPT ![h] = "idle"]
    /\ result' = [result EXCEPT ![h] = <<>>]
    /\ UNCHANGED <<captureVars, entries, fetch, wgVars, phase, crashed>>

HandlerStep(h) == DrainStart(h) \/ DrainWoken(h) \/ Reply(h)
FetchStep(i) == FetchReturns(i) \/ FetchDone(i) \/ FetchWake(i)

Next ==
    \/ \E r \in Requests :
           WillBeSent(r) \/ ResponseReceived(r) \/ LoadingFinished(r) \/ LoadingFailed(r)
    \/ \E i \in Ids : FetchStep(i)
    \/ \E h \in Handlers : CaptureStart(h) \/ CaptureStop(h) \/ HandlerStep(h)

Spec == Init /\ [][Next]_vars

(* The scheduler runs every goroutine, and the browser answers, or fails,  *)
(* every NetworkGetResponseBody: rod sets no timeout of its own on it.     *)
FairSpec ==
    /\ Spec
    /\ \A h \in Handlers : WF_vars(HandlerStep(h))
    /\ \A i \in 1 .. MaxEntries : WF_vars(i \in Ids /\ FetchStep(i))

-----------------------------------------------------------------------------

(* A stop serialises its entries when none of their bodies is still being  *)
(* fetched, whatever was started or stopped meanwhile: listeners.go:210    *)
(* takes the trouble of counting before the unlock for this.               *)
Serialising(h) == pc[h] = "format"

ResultComplete ==
    \A h \in Handlers : Serialising(h) =>
        \A k \in DOMAIN result[h] :
            fetch[result[h][k]] \notin {"calling", "written", "failed"}

(* No entry is in the results of two stops, or in a result and still in    *)
(* the session.                                                            *)
In(i, s) == \E k \in DOMAIN s : s[k] = i

TakenOnce ==
    \A i \in Ids :
        /\ \A h, g \in Handlers : h # g => ~(In(i, result[h]) /\ In(i, result[g]))
        /\ \A h \in Handlers : ~(In(i, result[h]) /\ In(i, captured))

(* An entry's response and size are written only during the session that   *)
(* captured it, so a late event of an old request never lands in a result  *)
(* of another session; and nothing is written to an entry that a stop is   *)
(* reading without s.mu.                                                   *)
OnlyOwnSessionWrites ==
    [][\A i \in Ids :
          entries'[i] # entries[i] =>
              /\ \A h \in Handlers : Serialising(h) => ~In(i, result[h])
              /\ entries'[i].body = entries[i].body
                     => capturing /\ entries[i].session = session]_vars

(* A stop always gets to its reply, unless the daemon dies first.          *)
StopReplies == \A h \in Handlers : pc[h] = "drain" ~> (pc[h] = "idle" \/ crashed)

(* server.go:76: bodyFetchWg is there "so that handleNetworkCaptureStop    *)
(* can drain them before serializing results".                             *)
DrainNeverPanics == ~crashed /\ \A h \in Handlers : pc[h] # "panicked"

=============================================================================
