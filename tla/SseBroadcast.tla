---------------------------- MODULE SseBroadcast ----------------------------
(***************************************************************************)
(* Server-sent events (sse.go, routes_core.go:34-76).  Event loops         *)
(* broadcast to every connected client through a buffered channel each,    *)
(* under the read lock of sseMu, so several of them work on one channel at *)
(* a time; a stream handler drains its own channel; clients come and go    *)
(* under the write lock.  A full channel is handled in three separate      *)
(* channel operations: the failed send, a receive of the oldest item, and  *)
(* the send of a warning, none of which may block.                         *)
(*                                                                         *)
(* sync.RWMutex is modelled with its writer preference: a waiting writer   *)
(* keeps new readers out.                                                  *)
(***************************************************************************)
EXTENDS Integers, Sequences, FiniteSets

CONSTANTS
    Loops,      \* goroutines that broadcast: the page listeners
    Clients,    \* connections to /events/stream
    BufferCap,  \* capacity of a client's channel (5000)
    MaxEvents   \* bound: events per loop

ASSUME SseBounds == BufferCap \in Nat \ {0} /\ MaxEvents \in Nat

VARIABLES
    stream,     \* per client: the phase of its handler
    buffer,     \* per client: the contents of its channel
    todo,       \* per loop: clients its broadcast has still to serve
    at,         \* per loop: its step, and in an overflow the client
    sent,       \* per loop: number of its latest event
    got,        \* history: per client, what its handler wrote out
    owed,       \* history: clients that lost an item and were not told since
    raced       \* history: clients on whose channel another loop stepped in
                \* between the steps of an overflow

vars == <<stream, buffer, todo, at, sent, got, owed, raced>>

Overflow == [type |-> "overflow"]
Event(b) == [type |-> "event", by |-> b, n |-> sent[b]]
Items == {Overflow} \cup [type : {"event"}, by : Loops, n : 1 .. MaxEvents]

Idle == [step |-> "idle"]
Next1 == [step |-> "send"]
Steps == {Idle, Next1} \cup [step : {"drop", "warn"}, client : Clients]

TypeOK ==
    /\ stream \in [Clients -> {"new", "registering", "streaming", "leaving", "closed"}]
    /\ buffer \in [Clients -> Seq(Items)]
    /\ \A c \in Clients : Len(buffer[c]) <= BufferCap
    /\ todo \in [Loops -> SUBSET Clients]
    /\ at \in [Loops -> Steps]
    /\ sent \in [Loops -> 0 .. MaxEvents]
    /\ got \in [Clients -> Seq(Items)]
    /\ owed \in SUBSET Clients /\ raced \in SUBSET Clients

Init ==
    /\ stream = [c \in Clients |-> "new"]
    /\ buffer = [c \in Clients |-> <<>>]
    /\ todo = [b \in Loops |-> {}]
    /\ at = [b \in Loops |-> Idle]
    /\ sent = [b \in Loops |-> 0]
    /\ got = [c \in Clients |-> <<>>]
    /\ owed = {} /\ raced = {}

-----------------------------------------------------------------------------
(* sseMu.                                                                  *)

sseClients == {c \in Clients : stream[c] \in {"streaming", "leaving"}}
Readers == {b \in Loops : at[b] # Idle}
WritersWaiting == \E c \in Clients : stream[c] \in {"registering", "leaving"}

(* Loop b touches the channel of c: another loop there is disturbed.       *)
Touch(b, c) ==
    raced' = IF \E o \in Loops \ {b} : at[o].step \in {"drop", "warn"} /\ at[o].client = c
                THEN raced \cup {c} ELSE raced

-----------------------------------------------------------------------------
(* broadcastEvent.                                                         *)

(* Take the read lock and range over sseClients.                           *)
Broadcast(b) ==
    /\ at[b] = Idle /\ sent[b] < MaxEvents
    /\ ~WritersWaiting
    /\ sent' = [sent EXCEPT ![b] = @ + 1]
    /\ todo' = [todo EXCEPT ![b] = sseClients]
    /\ at' = [at EXCEPT ![b] = Next1]
    /\ UNCHANGED <<stream, buffer, got, owed, raced>>

(* Mutant: the send of the event blocks while the channel is full.         *)
TrySendBlocking(b, c) ==
    /\ at[b] = Next1 /\ c \in todo[b]
    /\ Len(buffer[c]) < BufferCap
    /\ Touch(b, c)
    /\ buffer' = [buffer EXCEPT ![c] = Append(@, Event(b))]
    /\ todo' = [todo EXCEPT ![b] = @ \ {c}]
    /\ UNCHANGED <<stream, at, sent, got, owed>>

(* case ch <- event / default.                                             *)
TrySend(b, c) ==
    /\ at[b] = Next1 /\ c \in todo[b]
    /\ Touch(b, c)
    /\ IF Len(buffer[c]) < BufferCap
         THEN /\ buffer' = [buffer EXCEPT ![c] = Append(@, Event(b))]
              /\ todo' = [todo EXCEPT ![b] = @ \ {c}]
              /\ UNCHANGED <<at, owed>>
         ELSE /\ at' = [at EXCEPT ![b] = [step |-> "drop", client |-> c]]
              /\ owed' = owed \cup {c}
              /\ UNCHANGED <<buffer, todo>>
    /\ UNCHANGED <<stream, sent, got>>

(* Mutant: the oldest item is put back behind the others.                  *)
DropOldestRequeues(b, c) ==
    /\ at[b] = [step |-> "drop", client |-> c]
    /\ Touch(b, c)
    /\ buffer' = [buffer EXCEPT ![c] = IF @ = <<>> THEN @ ELSE Append(Tail(@), Head(@))]
    /\ at' = [at EXCEPT ![b].step = "warn"]
    /\ UNCHANGED <<stream, todo, sent, got, owed>>

(* case <-ch / default.                                                    *)
DropOldest(b, c) ==
    /\ at[b] = [step |-> "drop", client |-> c]
    /\ Touch(b, c)
    /\ buffer' = [buffer EXCEPT ![c] = IF @ = <<>> THEN @ ELSE Tail(@)]
    /\ at' = [at EXCEPT ![b].step = "warn"]
    /\ UNCHANGED <<stream, todo, sent, got, owed>>

(* Mutant: no warning.                                                     *)
TryWarnNever(b, c) ==
    /\ at[b] = [step |-> "warn", client |-> c]
    /\ Touch(b, c)
    /\ todo' = [todo EXCEPT ![b] = @ \ {c}]
    /\ at' = [at EXCEPT ![b] = Next1]
    /\ UNCHANGED <<stream, buffer, sent, got, owed>>

(* case ch <- warning / default.                                           *)
TryWarn(b, c) ==
    /\ at[b] = [step |-> "warn", client |-> c]
    /\ Touch(b, c)
    /\ buffer' = [buffer EXCEPT ![c] =
                     IF Len(@) < BufferCap THEN Append(@, Overflow) ELSE @]
    /\ todo' = [todo EXCEPT ![b] = @ \ {c}]
    /\ at' = [at EXCEPT ![b] = Next1]
    /\ UNCHANGED <<stream, sent, got, owed>>

(* The loop has served everyone: RUnlock.                                  *)
BroadcastEnd(b) ==
    /\ at[b] = Next1 /\ todo[b] = {}
    /\ at' = [at EXCEPT ![b] = Idle]
    /\ UNCHANGED <<stream, buffer, todo, sent, got, owed, raced>>

-----------------------------------------------------------------------------
(* handleEventsStream.                                                     *)

Connect(c) ==
    /\ stream[c] = "new"
    /\ stream' = [stream EXCEPT ![c] = "registering"]
    /\ UNCHANGED <<buffer, todo, at, sent, got, owed, raced>>

Register(c) ==
    /\ stream[c] = "registering" /\ Readers = {}
    /\ stream' = [stream EXCEPT ![c] = "streaming"]
    /\ UNCHANGED <<buffer, todo, at, sent, got, owed, raced>>

(* event := <-clientChan, written out and flushed.                         *)
Deliver(c) ==
    /\ stream[c] = "streaming" /\ buffer[c] # <<>>
    /\ got' = [got EXCEPT ![c] = Append(@, Head(buffer[c]))]
    /\ buffer' = [buffer EXCEPT ![c] = Tail(@)]
    /\ owed' = IF Head(buffer[c]) = Overflow THEN owed \ {c} ELSE owed
    /\ UNCHANGED <<stream, todo, at, sent, raced>>

(* <-ctx.Done(), or a connection that cannot stream.                       *)
Disconnect(c) ==
    /\ stream[c] = "streaming"
    /\ stream' = [stream EXCEPT ![c] = "leaving"]
    /\ UNCHANGED <<buffer, todo, at, sent, got, owed, raced>>

(* Mutant: the channel is closed without the write lock.                   *)
UnregisterUnlocked(c) ==
    /\ stream[c] = "leaving"
    /\ stream' = [stream EXCEPT ![c] = "closed"]
    /\ UNCHANGED <<buffer, todo, at, sent, got, owed, raced>>

(* The deferred delete and close, under the write lock.                    *)
Unregister(c) ==
    /\ stream[c] = "leaving" /\ Readers = {}
    /\ stream' = [stream EXCEPT ![c] = "closed"]
    /\ UNCHANGED <<buffer, todo, at, sent, got, owed, raced>>

BroadcastStep(b) ==
    BroadcastEnd(b) \/ \E c \in Clients : TrySend(b, c) \/ DropOldest(b, c) \/ TryWarn(b, c)

(* All the steps but what the client reads.                                *)
DaemonStep ==
    \/ \E b \in Loops : Broadcast(b) \/ BroadcastStep(b)
    \/ \E c \in Clients : Connect(c) \/ Register(c) \/ Disconnect(c) \/ Unregister(c)

Next == DaemonStep \/ \E c \in Clients : Deliver(c)

Spec == Init /\ [][Next]_vars

(* A loop inside broadcastEvent and a writer at sseMu are runnable and get *)
(* to run.  No fairness for Deliver: a client may stop reading for good.   *)
FairSpec ==
    /\ Spec
    /\ \A b \in Loops : WF_vars(BroadcastStep(b))
    /\ \A c \in Clients : WF_vars(Register(c) \/ Unregister(c))

-----------------------------------------------------------------------------

(* No loop ever sends to, or receives from, a channel that was closed: a   *)
(* send would bring the daemon down.                                       *)
NeverSendsOnClosed ==
    \A b \in Loops : \A c \in todo[b] : stream[c] # "closed"

(* What a client has seen or will see of one loop is in the order the loop *)
(* sent it, nothing twice, however the loops and overflows interleave.     *)
Before(x, y) == x.type = "event" /\ y.type = "event" /\ x.by = y.by => x.n < y.n

InOrder ==
    \A c \in Clients :
        LET all == got[c] \o buffer[c]
        IN \A i, j \in DOMAIN all : i < j => Before(all[i], all[j])

(* A client that lost an item has a warning coming, unless two loops       *)
(* handled its overflow at once or one is about to send it.                *)
Warned(c) ==
    \/ c \notin owed
    \/ \E k \in DOMAIN buffer[c] : buffer[c][k] = Overflow
    \/ \E b \in Loops : at[b].step \in {"drop", "warn"} /\ at[b].client = c

LossAnnounced == \A c \in Clients : Warned(c) \/ c \in raced

(* sse.go:5: when a client's channel is full "the event is dropped and an  *)
(* overflow warning is enqueued for that specific client instead".         *)
LossAlwaysAnnounced == \A c \in Clients : Warned(c)

(* A broadcast ends though no client reads, and a client that leaves or    *)
(* arrives gets the write lock though the loops go on broadcasting.        *)
NobodyBlocks ==
    /\ \A b \in Loops : at[b] # Idle ~> at[b] = Idle
    /\ \A c \in Clients : /\ stream[c] = "registering" ~> stream[c] # "registering"
                          /\ stream[c] = "leaving" ~> stream[c] = "closed"

=============================================================================
