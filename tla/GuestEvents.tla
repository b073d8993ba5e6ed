----------------------------- MODULE GuestEvents -----------------------------
(***************************************************************************)
(* The WASM runtime as a client of the event stream (wasm/runtime.go,      *)
(* wasm/host_exports.go, client/api.go), composed with the daemon's        *)
(* broadcast.  A goroutine appends what the stream carries to eventBuffer; *)
(* the guest has a single thread, so its callbacks run when it calls the   *)
(* host: flushEvents takes the buffer and calls the guest back for each    *)
(* event.  A callback may call the host again, which flushes again, above  *)
(* the flush that is under way.                                            *)
(*                                                                         *)
(* A command that failed, and those for injected scripts, flush nothing    *)
(* and change nothing here.  Run's end cancels the stream: Disconnect.  A  *)
(* guest whose allocate fails, which would lose it an event, is left out.  *)
(***************************************************************************)
EXTENDS SseBroadcast, SequencesExt

CONSTANTS
    Runtime,    \* the runtime's connection, here the only client
    Kind(_),    \* the kind of an event of the stream
    MaxCalls,   \* bound: host calls that flush
    MaxDepth    \* bound: flushes on top of each other

Kinds == {"network_request", "console"}

ASSUME GuestBounds == Clients = {Runtime} /\ MaxCalls \in Nat /\ MaxDepth \in Nat

VARIABLES
    eventBuffer,    \* r.eventBuffer
    enabled,        \* the kinds whose ...CallbacksEnabled is set
    flushes,        \* the flushEvents calls under way, the innermost last
    calls,          \* host calls so far
    called,         \* history: the guest's callbacks, and how deep the flush was
    heard           \* history: events buffered while their kind had a listener

guestVars == <<eventBuffer, enabled, flushes, calls, called, heard>>
allVars == <<vars, guestVars>>

\* A flush: the events it has still to pass on, the kinds that had a
\* listener when it began, whether the guest is in a callback of it, and
\* whether another follows.
Flush(events, kinds, calling, again) ==
    [events |-> events, enabled |-> kinds, calling |-> calling, again |-> again]

GuestInit ==
    /\ Init
    /\ eventBuffer = <<>> /\ enabled = {} /\ flushes = <<>>
    /\ calls = 0 /\ called = <<>> /\ heard = {}

-----------------------------------------------------------------------------

onEvent(e) ==
    /\ eventBuffer' = Append(eventBuffer, e)
    /\ heard' = IF e # Overflow /\ Kind(e) \in enabled THEN heard \cup {e} ELSE heard

\* The daemon's handler writes an event and the subscription's goroutine
\* appends it, overflow warnings as well; nobody sees it in between.
Receive ==
    /\ Deliver(Runtime)
    /\ onEvent(Head(buffer[Runtime]))
    /\ UNCHANGED <<enabled, flushes, calls, called>>

\* The guest's thread is in its main program or in a callback.
GuestRuns == flushes # <<>> => Last(flushes).calling

\* exportRegisterNetworkListener, exportRegisterConsoleListener.
RegisterListener(k) ==
    /\ GuestRuns /\ k \notin enabled
    /\ enabled' = enabled \cup {k}
    /\ heard' = heard \cup {e \in Range(eventBuffer) : e # Overflow /\ Kind(e) = k}
    /\ UNCHANGED <<vars, eventBuffer, flushes, calls, called>>

\* Mutant: the buffer keeps what is being dispatched.
BufferKept == eventBuffer
BufferTaken == <<>>

\* The buffer and the flags are taken under eventMu, and nothing is taken
\* while no listener is registered.
flushEvents(below, again) ==
    IF enabled = {} THEN flushes' = below /\ UNCHANGED eventBuffer
    ELSE /\ flushes' = Append(below, Flush(eventBuffer, enabled, FALSE, again))
         /\ eventBuffer' = BufferTaken

\* exportNavigate, exportClick and exportWaitVisible, once the daemon has
\* answered.
Command == flushEvents(flushes, FALSE)

\* exportWaitIdle, which flushes again when it has slept.
WaitIdle == flushEvents(flushes, TRUE)

\* The guest's program, or one of its callbacks, calls the SDK.
HostCall ==
    /\ GuestRuns /\ Len(flushes) < MaxDepth
    /\ calls < MaxCalls /\ calls' = calls + 1
    /\ Command \/ WaitIdle
    /\ UNCHANGED <<vars, enabled, called, heard>>

-----------------------------------------------------------------------------
\* The loop over the events that were taken.

Top == Last(flushes)
Wanted(e) == e # Overflow /\ Kind(e) \in Top.enabled

Callback ==
    /\ flushes # <<>> /\ ~Top.calling /\ Top.events # <<>> /\ Wanted(Head(Top.events))
    /\ called' = Append(called, [event |-> Head(Top.events), depth |-> Len(flushes)])
    /\ flushes' = [flushes EXCEPT ![Len(flushes)] = Flush(Tail(@.events), @.enabled, TRUE, @.again)]
    /\ UNCHANGED <<vars, eventBuffer, enabled, calls, heard>>

CallbackReturns ==
    /\ flushes # <<>> /\ Top.calling
    /\ flushes' = [flushes EXCEPT ![Len(flushes)] = Flush(@.events, @.enabled, FALSE, @.again)]
    /\ UNCHANGED <<vars, eventBuffer, enabled, calls, called, heard>>

\* continue: another kind of event, or none that the guest listens to.
SkipEvent ==
    /\ flushes # <<>> /\ ~Top.calling /\ Top.events # <<>> /\ ~Wanted(Head(Top.events))
    /\ flushes' = [flushes EXCEPT ![Len(flushes)] = Flush(Tail(@.events), @.enabled, FALSE, @.again)]
    /\ UNCHANGED <<vars, eventBuffer, enabled, calls, called, heard>>

\* Mutant: the buffer is emptied once its events are dispatched.
FlushEndEmpties ==
    /\ flushes # <<>> /\ ~Top.calling /\ Top.events = <<>>
    /\ flushes' = Front(flushes) /\ eventBuffer' = <<>>
    /\ UNCHANGED <<vars, enabled, calls, called, heard>>

FlushEnd ==
    /\ flushes # <<>> /\ ~Top.calling /\ Top.events = <<>>
    /\ IF Top.again THEN flushEvents(Front(flushes), FALSE)
                    ELSE flushes' = Front(flushes) /\ UNCHANGED eventBuffer
    /\ UNCHANGED <<vars, enabled, calls, called, heard>>

GuestStep ==
    \/ Receive \/ Callback \/ CallbackReturns \/ SkipEvent \/ FlushEnd
    \/ HostCall \/ \E k \in Kinds : RegisterListener(k)

GuestNext == GuestStep \/ (DaemonStep /\ UNCHANGED guestVars)

GuestSpec == GuestInit /\ [][GuestNext]_allVars

\* As in FairSpec: a loop inside broadcastEvent and a writer at sseMu run.
GuestFairSpec ==
    /\ GuestSpec
    /\ \A b \in Loops : WF_allVars(BroadcastStep(b) /\ UNCHANGED guestVars)
    /\ \A c \in Clients : WF_allVars((Register(c) \/ Unregister(c)) /\ UNCHANGED guestVars)

-----------------------------------------------------------------------------
\* Properties.

\* No event is passed to the guest twice, and an event overtakes an earlier
\* one of its loop only from a deeper flush: one that a callback's own host
\* call began (runtime.go:118-122).
GuestInOrder ==
    \A i, j \in DOMAIN called :
        i < j /\ called[i].event.by = called[j].event.by
        => \/ called[i].event.n < called[j].event.n
           \/ called[i].event.n > called[j].event.n /\ called[i].depth > called[j].depth

\* An event that was in the buffer while its kind had a listener is still
\* there, waits in a flush, or reached the guest: also when it arrived during
\* a flush, and when the listener came during one (runtime.go:112-122).
GuestMissesNothing ==
    \A e \in heard :
        \/ e \in Range(eventBuffer)
        \/ \E i \in DOMAIN flushes : e \in Range(flushes[i].events)
        \/ \E i \in DOMAIN called : called[i].event = e
=============================================================================
