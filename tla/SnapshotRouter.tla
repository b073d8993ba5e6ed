--------------------------- MODULE SnapshotRouter ---------------------------
(***************************************************************************)
(* The snapshot router (routes_snapshot.go, clearSnapshot in               *)
(* routes_record.go): requests of every tab are answered from a recorded   *)
(* HAR.  Loading and clearing take the old router out of the server under  *)
(* s.mu and stop it after the unlock; a load then starts its own router    *)
(* and publishes it under s.mu again.                                      *)
(*                                                                         *)
(* rod's HijackRouter, as it is used: adding a handler turns interception  *)
(* on for the whole browser, Stop ends the router and turns interception   *)
(* off for the whole browser, whoever else has a router running.  Its CDP  *)
(* calls succeed on a live browser.                                        *)
(***************************************************************************)
EXTENDS Integers

CONSTANTS
    Handlers,     \* HTTP handlers
    MaxRouters    \* bound: routers ever installed

VARIABLES
    snapshotRouter,  \* s.snapshotRouter, None if nil
    running,         \* routers that have not been stopped
    intercepting,    \* the browser pauses requests for the routers
    latest,          \* number of the latest router
    step,            \* per handler: its load or clear, with a router in hand
    leaked,          \* history: routers whose only reference was overwritten
    overlapped       \* history: two loads or clears were in progress at once

routerVars == <<snapshotRouter, running, intercepting, latest>>
vars == <<routerVars, step, leaked, overlapped>>

None == 0
Idle == [pc |-> "idle", router |-> None]

Routers == 1 .. latest

TypeOK ==
    /\ latest \in Nat
    /\ snapshotRouter \in Routers \cup {None}
    /\ running \in SUBSET Routers
    /\ intercepting \in BOOLEAN
    /\ step \in [Handlers -> [pc : {"idle", "stopForLoad", "stopForClear", "install", "publish"},
                              router : Routers \cup {None}]]
    /\ leaked \in SUBSET Routers
    /\ overlapped \in BOOLEAN

Init ==
    /\ snapshotRouter = None /\ running = {} /\ intercepting = FALSE /\ latest = 0
    /\ step = [h \in Handlers |-> Idle]
    /\ leaked = {} /\ overlapped = FALSE

Working == {h \in Handlers : step[h] # Idle}

-----------------------------------------------------------------------------

(* Take the old router away, under s.mu.                                   *)
Take(h, next) ==
    /\ step[h] = Idle
    /\ step' = [step EXCEPT ![h] = [pc |-> next, router |-> snapshotRouter]]
    /\ snapshotRouter' = None
    /\ overlapped' = (overlapped \/ Working # {})
    /\ UNCHANGED <<running, intercepting, latest, leaked>>

TakeForLoad(h) == latest < MaxRouters /\ Take(h, "stopForLoad")
TakeForClear(h) == Take(h, "stopForClear")

(* Mutant: the old router is dropped, and runs on.                         *)
StopPrevForgets(h) ==
    /\ step[h].pc \in {"stopForLoad", "stopForClear"}
    /\ step' = [step EXCEPT ![h] = IF step[h].pc = "stopForLoad"
                                     THEN [pc |-> "install", router |-> None] ELSE Idle]
    /\ UNCHANGED <<routerVars, leaked, overlapped>>

(* Stop it, if there was one.                                              *)
StopPrev(h) ==
    /\ step[h].pc \in {"stopForLoad", "stopForClear"}
    /\ running' = running \ {step[h].router}
    /\ intercepting' = (intercepting /\ step[h].router = None)
    /\ step' = [step EXCEPT ![h] = IF step[h].pc = "stopForLoad"
                                     THEN [pc |-> "install", router |-> None] ELSE Idle]
    /\ UNCHANGED <<snapshotRouter, latest, leaked, overlapped>>

(* HijackRequests, MustAdd and go Run.                                     *)
Install(h) ==
    /\ step[h].pc = "install"
    /\ latest' = latest + 1
    /\ running' = running \cup {latest'}
    /\ intercepting' = TRUE
    /\ step' = [step EXCEPT ![h] = [pc |-> "publish", router |-> latest']]
    /\ UNCHANGED <<snapshotRouter, leaked, overlapped>>

(* Store it, over a router another load may have published meanwhile.      *)
Publish(h) ==
    /\ step[h].pc = "publish"
    /\ snapshotRouter' = step[h].router
    /\ leaked' = leaked \cup ({snapshotRouter} \ {None})
    /\ step' = [step EXCEPT ![h] = Idle]
    /\ UNCHANGED <<running, intercepting, latest, overlapped>>

SnapshotStep(h) == StopPrev(h) \/ Install(h) \/ Publish(h)

Next == \E h \in Handlers : TakeForLoad(h) \/ TakeForClear(h) \/ SnapshotStep(h)

Spec == Init /\ [][Next]_vars

-----------------------------------------------------------------------------

(* However loads, clears and replays interleave, a running router is the   *)
(* published one, or in the hands of one handler, or was leaked by a load  *)
(* that published over it: none is lost in another way, stopped while it   *)
(* is published, or held twice.                                            *)
Held == {step[h].router : h \in Handlers} \ {None}

RoutersAccounted ==
    /\ running = ({snapshotRouter} \ {None}) \cup Held \cup leaked
    /\ snapshotRouter \notin Held \cup leaked
    /\ Held \cap leaked = {}
    /\ \A g, h \in Handlers : g # h /\ step[g].router = step[h].router
                                  => step[g].router = None

(* As long as no two loads or clears overlap, what the browser does        *)
(* between them is what snapshotRouter says, also after failed replays.    *)
OneRouter ==
    ~overlapped /\ Working = {} =>
        /\ running = {snapshotRouter} \ {None}
        /\ intercepting = (snapshotRouter # None)

(* server.go:187: snapshotRouter is "the active browser-level hijack       *)
(* router [...] Replaced (old router stopped) on each new load."           *)
OldRouterStopped == Working = {} => running = {snapshotRouter} \ {None}

=============================================================================
