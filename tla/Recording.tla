------------------------------ MODULE Recording ------------------------------
(***************************************************************************)
(* Recording and replay (routes_record.go, recordAction in server.go).     *)
(* recMu guards the recorder's fields in start and stop, but the flag      *)
(* s.recording is read and written without it by every action handler and  *)
(* by replay.  A recording with a HAR drives the daemon's own network      *)
(* capture by HTTP (startHarCapture, stopHarCapture); a replay loads and   *)
(* clears the snapshot router, composed from SnapshotRouter.               *)
(*                                                                         *)
(* The unguarded accesses to the flag are data races; each is taken as one *)
(* atomic step, as the word-sized accesses of the build's targets are.     *)
(* One recording name is modelled: it is what clients that do not know of  *)
(* each other share.                                                       *)
(***************************************************************************)
EXTENDS Integers, Sequences, FiniteSets

CONSTANTS
    Handlers,     \* HTTP handlers at work
    MaxRouters,   \* bound of SnapshotRouter
    MaxActions    \* bound: actions performed

ASSUME RecordingBounds == MaxRouters \in Nat /\ MaxActions \in Nat

VARIABLES
    snapshotRouter, running, intercepting, latest, step, leaked, overlapped, \* SnapshotRouter
    recording,     \* s.recording
    recordEvents,  \* s.recordEvents, as action numbers
    recordHar,     \* s.recordHar
    capture,       \* whose network capture runs: "off", "har" or "own"
    harFile,       \* the HAR beside the recording exists
    file,          \* the recording on disk: "none", "plain", or "har" if it names one
    pc, job,       \* per handler: its step, and its local variables
    actions,       \* history: number of actions performed so far
    wanted,        \* history: what the latest start or stop asked for
    due,           \* history: actions the recording must hold
    disturbed      \* history: a start, stop or replay overlapped another

S == INSTANCE SnapshotRouter

routerVars == <<snapshotRouter, running, intercepting, latest, step, leaked, overlapped>>
recVars == <<recording, recordEvents, recordHar>>
diskVars == <<harFile, file>>
localVars == <<pc, job>>
historyVars == <<actions, wanted, due, disturbed>>
vars == <<routerVars, recVars, capture, diskVars, localVars, historyVars>>

(* What a handler works with: an action's number and whether it must be    *)
(* recorded; a stop's copies; the flag a replay found and the network its  *)
(* steps are to see.                                                       *)
NoJob == [n |-> 0, must |-> FALSE, events |-> <<>>, har |-> FALSE, due |-> {},
          was |-> FALSE, loaded |-> FALSE, net |-> "any"]

Jobs == [n : 0 .. actions, must : BOOLEAN, events : Seq(1 .. actions), har : BOOLEAN,
         due : SUBSET (1 .. actions), was : BOOLEAN, loaded : BOOLEAN,
         net : {"any", "live", "snapshot"}]

ActSteps == {"append"}
StartSteps == {"har1", "har2"}
StopSteps == {"harOff", "harStop", "save"}
DeleteSteps == {"deleteHar"}
ReplaySteps == {"replayRead", "replayPause", "replaying", "replayRestore"}

TypeOK ==
    /\ S!TypeOK
    /\ recording \in BOOLEAN /\ recordHar \in BOOLEAN
    /\ recordEvents \in Seq(1 .. actions)
    /\ capture \in {"off", "har", "own"} /\ harFile \in BOOLEAN
    /\ file \in {"none", "plain", "har"}
    /\ pc \in [Handlers -> {"idle"} \cup ActSteps \cup StartSteps \cup StopSteps
                                   \cup DeleteSteps \cup ReplaySteps]
    /\ actions \in Nat /\ job \in [Handlers -> Jobs]
    /\ \A h \in Handlers : pc[h] = "append" => job[h].n \in 1 .. actions
    /\ \A h \in Handlers : step[h] # S!Idle => pc[h] \in {"idle", "replayRead", "replayRestore"}
    /\ wanted \in BOOLEAN /\ due \subseteq 1 .. actions /\ disturbed \in BOOLEAN

Init ==
    /\ S!Init
    /\ recording = FALSE /\ recordEvents = <<>> /\ recordHar = FALSE
    /\ capture = "off" /\ harFile = FALSE /\ file = "none"
    /\ pc = [h \in Handlers |-> "idle"]
    /\ job = [h \in Handlers |-> NoJob]
    /\ actions = 0 /\ wanted = FALSE /\ due = {} /\ disturbed = FALSE

AtStep(h, s) == pc[h] = s /\ step[h] = S!Idle
Goto(h, s, j) == pc' = [pc EXCEPT ![h] = s] /\ job' = [job EXCEPT ![h] = j]
Finish(h) == Goto(h, "idle", NoJob)

Recorders == {h \in Handlers : pc[h] \notin {"idle"} \cup ActSteps}
Replaying == {h \in Handlers : pc[h] \in ReplaySteps}
Disturb == disturbed' = (disturbed \/ Recorders # {})

-----------------------------------------------------------------------------
(* Actions.                                                                *)

(* An action handler has done its work and reads the flag.                 *)
Act(h) ==
    /\ AtStep(h, "idle") /\ actions < MaxActions
    /\ actions' = actions + 1
    /\ LET must == wanted /\ ~disturbed /\ Replaying = {}
       IN IF recording
            THEN /\ Goto(h, "append", [NoJob EXCEPT !.n = actions', !.must = must])
                 /\ UNCHANGED due
            ELSE /\ due' = IF must THEN due \cup {actions'} ELSE due
                 /\ UNCHANGED localVars
    /\ UNCHANGED <<routerVars, recVars, capture, diskVars, wanted, disturbed>>

(* recordAction, recordInteraction: the append, under recMu, whatever has  *)
(* become of the recording; then the action replies.                       *)
AppendEvent(h) ==
    /\ AtStep(h, "append")
    /\ recordEvents' = Append(recordEvents, job[h].n)
    /\ due' = IF job[h].must /\ wanted THEN due \cup {job[h].n} ELSE due
    /\ Finish(h)
    /\ UNCHANGED <<routerVars, recording, recordHar, capture, diskVars,
                   actions, wanted, disturbed>>

-----------------------------------------------------------------------------
(* /record/start.                                                          *)

RecordStart(h) ==
    /\ AtStep(h, "idle")
    /\ recording' = TRUE /\ recordEvents' = <<>> /\ recordHar' \in BOOLEAN
    /\ pc' = [pc EXCEPT ![h] = IF recordHar' THEN "har1" ELSE "idle"]
    /\ job' = [g \in Handlers |-> [job[g] EXCEPT !.must = FALSE]]
    /\ wanted' = TRUE /\ due' = {}
    /\ disturbed' = (Recorders # {})
    /\ UNCHANGED <<routerVars, capture, diskVars, actions>>

(* startHarCapture: a request to this daemon; one that fails may have been *)
(* served all the same.  The first failure turns the recording off...      *)
StartHar1(h) ==
    /\ AtStep(h, "har1")
    /\ \/ /\ capture' = "har"
          /\ Goto(h, "har2", NoJob)
          /\ UNCHANGED <<recording, wanted>>
       \/ /\ capture' \in {capture, "har"}
          /\ recording' = FALSE /\ wanted' = FALSE
          /\ Finish(h)
    /\ UNCHANGED <<routerVars, recordEvents, recordHar, diskVars,
                   actions, due, disturbed>>

(* ... the second one answers 500 and leaves it on.                        *)
StartHar2(h) ==
    /\ AtStep(h, "har2")
    /\ capture' \in {capture, "har"}
    /\ Finish(h)
    /\ UNCHANGED <<routerVars, recVars, diskVars, historyVars>>

-----------------------------------------------------------------------------
(* /record/stop.                                                           *)

(* Mutant: the events are reset before they are copied.                    *)
RecordStopResetsFirst(h) ==
    /\ AtStep(h, "idle")
    /\ recording' = FALSE /\ recordHar' = FALSE /\ recordEvents' = <<>>
    /\ Goto(h, IF recordHar THEN "harOff" ELSE "save",
            [NoJob EXCEPT !.events = <<>>, !.har = recordHar, !.due = due])
    /\ wanted' = FALSE /\ Disturb
    /\ UNCHANGED <<routerVars, capture, diskVars, actions, due>>

(* The events stay: a second stop would save them again, without the HAR.  *)
RecordStop(h) ==
    /\ AtStep(h, "idle")
    /\ recording' = FALSE /\ recordHar' = FALSE
    /\ Goto(h, IF recordHar THEN "harOff" ELSE "save",
            [NoJob EXCEPT !.events = recordEvents, !.har = recordHar, !.due = due])
    /\ wanted' = FALSE /\ Disturb
    /\ UNCHANGED <<routerVars, recordEvents, capture, diskVars, actions, due>>

(* stopHarCapture turns the flag off once more...                          *)
HarOff(h) ==
    /\ AtStep(h, "harOff")
    /\ recording' = FALSE
    /\ Goto(h, "harStop", job[h])
    /\ UNCHANGED <<routerVars, recordEvents, recordHar, capture, diskVars, historyVars>>

(* ... and stops whatever capture runs.  postLocal cancels its context     *)
(* before the body is read, so the answer may be lost though the stop was  *)
(* served; without an answer, or without a HAR file, nothing is saved.     *)
HarStop(h) ==
    /\ AtStep(h, "harStop")
    /\ \/ /\ capture' = "off"
          /\ harFile' \in {harFile, harFile \/ capture = "har"}
       \/ UNCHANGED <<capture, harFile>>
    /\ \/ capture' = "off" /\ harFile' /\ Goto(h, "save", job[h])
       \/ Finish(h)
    /\ UNCHANGED <<routerVars, recVars, file, historyVars>>

(* The file is written, or cannot be.                                      *)
Save(h) ==
    /\ AtStep(h, "save")
    /\ file' \in {file, IF job[h].har THEN "har" ELSE "plain"}
    /\ Finish(h)
    /\ UNCHANGED <<routerVars, recVars, capture, harFile, historyVars>>

-----------------------------------------------------------------------------
(* /record/delete, and a client's own captures (NetworkCapture).           *)

RecordDelete(h) ==
    /\ AtStep(h, "idle") /\ file # "none"
    /\ file' = "none"
    /\ Goto(h, "deleteHar", NoJob)
    /\ Disturb
    /\ UNCHANGED <<routerVars, recVars, capture, harFile, actions, wanted, due>>

DeleteHar(h) ==
    /\ AtStep(h, "deleteHar")
    /\ harFile' = FALSE
    /\ Finish(h)
    /\ UNCHANGED <<routerVars, recVars, capture, file, historyVars>>

OwnCapture(h) ==
    /\ AtStep(h, "idle")
    /\ \/ capture' = "own" /\ UNCHANGED harFile
       \/ capture' = "off" /\ harFile' = (harFile \/ capture = "har")
    /\ UNCHANGED <<routerVars, recVars, file, localVars, historyVars>>

-----------------------------------------------------------------------------
(* The snapshot router.                                                    *)

(* Handler h goes on to step s; the replays of others can no longer count  *)
(* on the network they set up.                                             *)
TakeOver(h, s, j) ==
    /\ pc' = [pc EXCEPT ![h] = s]
    /\ job' = [g \in Handlers |-> IF g = h THEN j ELSE [job[g] EXCEPT !.net = "any"]]

SnapshotRequest(h) ==
    /\ AtStep(h, "idle")
    /\ S!TakeForLoad(h) \/ S!TakeForClear(h)
    /\ TakeOver(h, "idle", NoJob)
    /\ UNCHANGED <<recVars, capture, diskVars, historyVars>>

SnapshotStep(h) ==
    /\ S!SnapshotStep(h)
    /\ UNCHANGED <<recVars, capture, diskVars, localVars, historyVars>>

-----------------------------------------------------------------------------
(* /record/replay.                                                         *)

(* Mutant: a live replay leaves the snapshot of an earlier one in place.   *)
ReplayLiveKeepsSnapshot(h) ==
    /\ AtStep(h, "idle") /\ file # "none"
    /\ Goto(h, "replayRead", [NoJob EXCEPT !.net = "live"])
    /\ Disturb
    /\ UNCHANGED <<routerVars, recVars, capture, diskVars, actions, wanted, due>>

(* Live: the snapshot an earlier replay left behind is cleared.            *)
ReplayLive(h) ==
    /\ AtStep(h, "idle") /\ file # "none"
    /\ S!TakeForClear(h)
    /\ TakeOver(h, "replayRead", [NoJob EXCEPT !.net = "live"])
    /\ Disturb
    /\ UNCHANGED <<recVars, capture, diskVars, actions, wanted, due>>

(* From the HAR, if the recording names one and it is there.               *)
ReplayRecorded(h) ==
    /\ AtStep(h, "idle") /\ file # "none"
    /\ IF file = "har" /\ harFile
         THEN /\ S!TakeForLoad(h)
              /\ TakeOver(h, "replayRead", [NoJob EXCEPT !.net = "snapshot", !.loaded = TRUE])
         ELSE Goto(h, "replayRead", NoJob) /\ UNCHANGED routerVars
    /\ Disturb
    /\ UNCHANGED <<recVars, capture, diskVars, actions, wanted, due>>

(* Mutant: the snapshot is loaded in the background.                       *)
ReplayReadUnwaited(h) ==
    /\ pc[h] = "replayRead"
    /\ Goto(h, "replayPause", [job[h] EXCEPT !.was = recording])
    /\ UNCHANGED <<routerVars, recVars, capture, diskVars, historyVars>>

(* wasRecording := s.recording                                             *)
ReplayRead(h) ==
    /\ AtStep(h, "replayRead")
    /\ Goto(h, "replayPause", [job[h] EXCEPT !.was = recording])
    /\ UNCHANGED <<routerVars, recVars, capture, diskVars, historyVars>>

(* s.recording = false                                                     *)
ReplayPause(h) ==
    /\ AtStep(h, "replayPause")
    /\ recording' = FALSE
    /\ Goto(h, "replaying", job[h])
    /\ UNCHANGED <<routerVars, recordEvents, recordHar, capture, diskVars, historyVars>>

(* Mutant: the flag is restored on the way of success only.                *)
ReplayStepFailsUnrestored(h) ==
    /\ AtStep(h, "replaying")
    /\ Finish(h)
    /\ UNCHANGED <<routerVars, recVars, capture, diskVars, historyVars>>

(* A step fails: the replay returns, its snapshot stays loaded.            *)
ReplayStepFails(h) ==
    /\ AtStep(h, "replaying")
    /\ Goto(h, "replayRestore", job[h])
    /\ UNCHANGED <<routerVars, recVars, capture, diskVars, historyVars>>

(* All steps done: a snapshot this replay loaded is cleared.               *)
ReplaySucceeds(h) ==
    /\ AtStep(h, "replaying")
    /\ IF job[h].loaded
         THEN S!TakeForClear(h) /\ TakeOver(h, "replayRestore", job[h])
         ELSE Goto(h, "replayRestore", job[h]) /\ UNCHANGED routerVars
    /\ UNCHANGED <<recVars, capture, diskVars, historyVars>>

(* The deferred s.recording = wasRecording.                                *)
ReplayRestore(h) ==
    /\ AtStep(h, "replayRestore")
    /\ recording' = job[h].was
    /\ Finish(h)
    /\ UNCHANGED <<routerVars, recordEvents, recordHar, capture, diskVars, historyVars>>

Next ==
    \E h \in Handlers :
        \/ Act(h) \/ AppendEvent(h)
        \/ RecordStart(h) \/ StartHar1(h) \/ StartHar2(h)
        \/ RecordStop(h) \/ HarOff(h) \/ HarStop(h) \/ Save(h)
        \/ RecordDelete(h) \/ DeleteHar(h) \/ OwnCapture(h)
        \/ SnapshotRequest(h) \/ SnapshotStep(h)
        \/ ReplayLive(h) \/ ReplayRecorded(h) \/ ReplayRead(h) \/ ReplayPause(h)
        \/ ReplayStepFails(h) \/ ReplaySucceeds(h) \/ ReplayRestore(h)

Spec == Init /\ [][Next]_vars

-----------------------------------------------------------------------------

(* The flag is what the latest start or stop asked for, and off while a    *)
(* replay takes its steps, through failed starts, failed stops and failed  *)
(* replays; unless two of them overlapped since the last undisturbed start.*)
FlagFollowsRequests ==
    ~disturbed =>
        /\ Replaying = {} => recording = wanted
        /\ (\E h \in Handlers : pc[h] = "replaying") => ~recording

(* Every action performed and answered during a recording, with none of    *)
(* its starts, stops and replays overlapping another, is among its events  *)
(* and among what a stop saves, whichever handlers append meanwhile.       *)
In(n, s) == \E k \in DOMAIN s : s[k] = n

NothingLost ==
    /\ \A n \in due : In(n, recordEvents)
    /\ \A h \in Handlers : pc[h] \in StopSteps => \A n \in job[h].due : In(n, job[h].events)

(* While nobody else loads or clears a snapshot and none ever overlapped, *)
(* the steps of a live replay see no snapshot, whatever earlier replays    *)
(* left behind, and those of a recorded one see a snapshot.                *)
ReplayNetwork ==
    \A h \in Handlers :
        pc[h] = "replaying" /\ ~overlapped =>
            /\ job[h].net = "live" => ~intercepting
            /\ job[h].net = "snapshot" => intercepting /\ snapshotRouter \in running

(* The routers under replays as under requests (SnapshotRouter).           *)
RoutersAccounted == S!RoutersAccounted
OneRouter == S!OneRouter

(* server.go:187: snapshotRouter is "the active browser-level hijack       *)
(* router [...] Replaced (old router stopped) on each new load."           *)
OldRouterStopped == S!OldRouterStopped

=============================================================================
