-------------------------- MODULE RecordingProofs --------------------------
(* Proofs about Recording, the snapshot router it composes and the         *)
(* checkpoints of Replay, for any set of handlers, any number of routers,  *)
(* any page and any bounds.                                                *)
EXTENDS Recording, Replay, SequenceTheorems, FiniteSetTheorems, WellFoundedInduction, TLAPS

(* The router by itself.                                                   *)
LEMMA InitRouterTypes == S!Init => S!TypeOK
<1> SUFFICES ASSUME S!Init PROVE S!TypeOK
  OBVIOUS
<1>1. S!Idle \in [pc : {"idle", "stopForLoad", "stopForClear", "install", "publish"},
                router : S!Routers \cup {S!None}]
  BY DEF S!Idle
<1>2. step \in [Handlers -> [pc : {"idle", "stopForLoad", "stopForClear", "install", "publish"},
                             router : S!Routers \cup {S!None}]]
  BY <1>1 DEF S!Init
<1>3. QED
  BY <1>2 DEF S!Init, S!TypeOK

(* Routers keep their numbers and handlers their steps.                    *)
THEOREM RouterTypeCorrect == S!Spec => []S!TypeOK
<1>1. S!Init => S!TypeOK
  BY InitRouterTypes
<1>2. S!TypeOK /\ [S!Next]_(S!vars) => S!TypeOK'
  <2> SUFFICES ASSUME S!TypeOK, [S!Next]_(S!vars) PROVE S!TypeOK'
    OBVIOUS
  <2> USE DEF S!TypeOK, S!Routers, S!Idle
  <2>1. ASSUME NEW h \in Handlers, S!TakeForLoad(h) PROVE S!TypeOK'
    BY <2>1 DEF S!TakeForLoad, S!Take
  <2>2. ASSUME NEW h \in Handlers, S!TakeForClear(h) PROVE S!TypeOK'
    BY <2>2 DEF S!TakeForClear, S!Take
  <2>3. ASSUME NEW h \in Handlers, S!StopPrev(h) PROVE S!TypeOK'
    <3>1. intercepting' \in BOOLEAN
      BY <2>3 DEF S!StopPrev
    <3>2. QED
      BY <2>3, <3>1 DEF S!StopPrev, S!None
  <2>4. ASSUME NEW h \in Handlers, S!Install(h) PROVE S!TypeOK'
    BY <2>4 DEF S!Install
  <2>5. ASSUME NEW h \in Handlers, S!Publish(h) PROVE S!TypeOK'
    BY <2>5 DEF S!Publish
  <2>6. CASE UNCHANGED S!vars
    BY <2>6 DEF S!vars, S!routerVars
  <2>7. QED
    BY <2>1, <2>2, <2>3, <2>4, <2>5, <2>6 DEF S!Next, S!SnapshotStep
<1>3. QED
  BY <1>1, <1>2, PTL DEF S!Spec

-----------------------------------------------------------------------------

(* RoutersAccounted per router, with the sets spelled out: what the steps  *)
(* can be followed through.                                                *)
Accounting ==
    /\ \A r \in 1 .. latest : r \in running <=>
           \/ r = snapshotRouter
           \/ \E h \in Handlers : step[h].router = r
           \/ r \in leaked
    /\ \A r \in 1 .. latest : r = snapshotRouter => r \notin leaked
    /\ \A h \in Handlers : step[h].router # S!None =>
           step[h].router # snapshotRouter /\ step[h].router \notin leaked
    /\ \A g, h \in Handlers : g # h /\ step[g].router = step[h].router
                                  => step[g].router = S!None

(* Only a handler that has taken or installed a router holds one.          *)
EmptyHanded ==
    \A h \in Handlers : step[h].pc \in {"idle", "install"} => step[h].router = S!None

RouterIInv == S!TypeOK /\ EmptyHanded /\ Accounting

LEMMA InitRouterIInv == S!Init => RouterIInv
<1> SUFFICES ASSUME S!Init PROVE RouterIInv
  OBVIOUS
<1>1. EmptyHanded
  BY DEF S!Init, EmptyHanded, S!Idle
<1>2. Accounting
  BY DEF S!Init, Accounting, S!Idle, S!None
<1>3. QED
  BY <1>1, <1>2, InitRouterTypes DEF RouterIInv

(* A router changes hands from the server to the handler that takes it.    *)
LEMMA TakeIInv ==
  ASSUME RouterIInv, S!TypeOK', NEW h \in Handlers, NEW next \in {"stopForLoad", "stopForClear"},
         S!Take(h, next)
  PROVE  RouterIInv'
<1> USE DEF RouterIInv, S!TypeOK, S!Routers, S!None
<1>1. EmptyHanded'
  BY DEF EmptyHanded, S!Take
<1>2. Accounting'
  BY DEF Accounting, S!Take, S!Idle
<1>3. QED
  BY <1>1, <1>2

(* It is stopped by the one handler that holds it.                         *)
LEMMA StopPrevIInv ==
  ASSUME RouterIInv, S!TypeOK', NEW h \in Handlers, S!StopPrev(h)
  PROVE  RouterIInv'
<1> USE DEF RouterIInv, S!TypeOK, S!Routers, S!None
<1>1. EmptyHanded'
  BY DEF EmptyHanded, S!StopPrev, S!Idle
<1>2. Accounting'
  BY DEF Accounting, S!StopPrev, S!Idle
<1>3. QED
  BY <1>1, <1>2

(* A new one has a number nobody holds.                                    *)
LEMMA InstallIInv ==
  ASSUME RouterIInv, S!TypeOK', NEW h \in Handlers, S!Install(h)
  PROVE  RouterIInv'
<1> USE DEF RouterIInv, S!TypeOK, S!Routers, S!None
<1>1. EmptyHanded'
  BY DEF EmptyHanded, S!Install
<1>2. Accounting'
  BY DEF Accounting, S!Install, EmptyHanded
<1>3. QED
  BY <1>1, <1>2

(* Publishing leaks what it overwrites and nothing else.                   *)
LEMMA PublishIInv ==
  ASSUME RouterIInv, S!TypeOK', NEW h \in Handlers, S!Publish(h)
  PROVE  RouterIInv'
<1> USE DEF RouterIInv, S!TypeOK, S!Routers, S!None
<1>1. EmptyHanded'
  BY DEF EmptyHanded, S!Publish, S!Idle
<1>2. Accounting'
  BY DEF Accounting, S!Publish, S!Idle
<1>3. QED
  BY <1>1, <1>2

LEMMA NextRouterIInv == RouterIInv /\ S!TypeOK' /\ [S!Next]_(S!vars) => RouterIInv'
<1> SUFFICES ASSUME RouterIInv, S!TypeOK', [S!Next]_(S!vars) PROVE RouterIInv'
  OBVIOUS
<1>1. CASE UNCHANGED S!vars
  BY <1>1 DEF RouterIInv, S!vars, S!routerVars, EmptyHanded, Accounting
<1>2. ASSUME NEW h \in Handlers, S!TakeForLoad(h) \/ S!TakeForClear(h) PROVE RouterIInv'
  BY <1>2, TakeIInv DEF S!TakeForLoad, S!TakeForClear
<1>3. ASSUME NEW h \in Handlers, S!SnapshotStep(h) PROVE RouterIInv'
  BY <1>3, StopPrevIInv, InstallIInv, PublishIInv DEF S!SnapshotStep
<1>4. QED
  BY <1>1, <1>2, <1>3 DEF S!Next

LEMMA RouterIInvAccounts == RouterIInv => S!RoutersAccounted
<1> SUFFICES ASSUME RouterIInv PROVE S!RoutersAccounted
  OBVIOUS
<1> USE DEF RouterIInv, S!TypeOK, S!Routers, S!None, Accounting, S!Held
<1>1. ASSUME NEW h \in Handlers PROVE step[h].router \in (1 .. latest) \cup {0}
  OBVIOUS
<1>2. running = ({snapshotRouter} \ {S!None}) \cup S!Held \cup leaked
  <2>1. ASSUME NEW r \in running
        PROVE  r \in ({snapshotRouter} \ {S!None}) \cup S!Held \cup leaked
    <3>1. r \in 1 .. latest /\ r # 0
      OBVIOUS
    <3>2. r = snapshotRouter \/ (\E h \in Handlers : step[h].router = r) \/ r \in leaked
      BY <3>1
    <3>3. QED
      BY <3>1, <3>2
  <2>2. ASSUME NEW r \in ({snapshotRouter} \ {S!None}) \cup S!Held \cup leaked
        PROVE  r \in running
    <3>1. CASE r \in S!Held
      <4>1. PICK h \in Handlers : step[h].router = r
        BY <3>1
      <4>2. r \in 1 .. latest
        BY <1>1, <3>1, <4>1
      <4>3. QED
        BY <4>1, <4>2
    <3>2. CASE r \in leaked
      BY <3>2
    <3>3. CASE r = snapshotRouter /\ r # S!None
      BY <3>3
    <3>4. QED
      BY <2>2, <3>1, <3>2, <3>3
  <2>3. QED
    BY <2>1, <2>2
<1>3. snapshotRouter \notin S!Held \cup leaked
  OBVIOUS
<1>4. S!Held \cap leaked = {}
  OBVIOUS
<1>5. QED
  BY <1>2, <1>3, <1>4 DEF S!RoutersAccounted

(* However loads and clears interleave, every running router is published, *)
(* in one handler's hands, or leaked by a publish over it (RoutersAccounted*)
(* of routes_snapshot.go:125-153).                                         *)
THEOREM RouterAccounts == S!Spec => []S!RoutersAccounted
<1>1. S!Spec => []RouterIInv
  BY InitRouterIInv, NextRouterIInv, RouterTypeCorrect, PTL DEF S!Spec
<1>2. QED
  BY <1>1, RouterIInvAccounts, PTL

-----------------------------------------------------------------------------

(* A load or clear that nobody overlaps works alone, on a server that      *)
(* stores no router, and knows whether the browser intercepts.             *)
Alone ==
    ~overlapped =>
        /\ leaked = {}
        /\ \A g, h \in S!Working : g = h
        /\ S!Working = {} => intercepting = (snapshotRouter # S!None)
        /\ \A h \in S!Working :
               /\ snapshotRouter = S!None
               /\ step[h].pc \in {"stopForLoad", "stopForClear"}
                      => intercepting = (step[h].router # S!None)
               /\ step[h].pc = "install" => ~intercepting
               /\ step[h].pc = "publish" => intercepting /\ step[h].router # S!None
               /\ step[h].pc # "idle"

LEMMA InitAlone == S!Init => Alone
BY DEF S!Init, Alone, S!Working, S!None

LEMMA NextAlone == RouterIInv /\ Alone /\ [S!Next]_(S!vars) => Alone'
<1> SUFFICES ASSUME RouterIInv, Alone, [S!Next]_(S!vars) PROVE Alone'
  OBVIOUS
<1> USE DEF RouterIInv, S!TypeOK, S!Routers, S!None, S!Idle, S!Working
<1>1. ASSUME NEW h \in Handlers, NEW next \in {"stopForLoad", "stopForClear"}, S!Take(h, next)
      PROVE  Alone'
  <2> SUFFICES ASSUME ~overlapped' PROVE Alone'
    BY DEF Alone
  <2>1. ~overlapped /\ S!Working = {}
    BY <1>1 DEF S!Take
  <2>2. S!Working' = {h}
    BY <1>1, <2>1 DEF S!Take
  <2>3. leaked' = {} /\ snapshotRouter' = S!None /\ intercepting' = (step'[h].router # S!None)
        /\ step'[h].pc = next
    BY <1>1, <2>1 DEF S!Take, Alone
  <2>4. QED
    BY <2>2, <2>3 DEF Alone
<1>2. ASSUME NEW h \in Handlers, S!StopPrev(h) PROVE Alone'
  BY <1>2 DEF S!StopPrev, Alone
<1>3. ASSUME NEW h \in Handlers, S!Install(h) PROVE Alone'
  <2> SUFFICES ASSUME ~overlapped' PROVE Alone'
    BY DEF Alone
  <2>1. ~overlapped /\ h \in S!Working /\ step[h].pc = "install"
    BY <1>3 DEF S!Install
  <2>2. step'[h].pc = "publish" /\ step'[h].router # S!None
    BY <1>3 DEF S!Install
  <2>3. S!Working' = {h}
    BY <1>3, <2>1, <2>2 DEF S!Install, Alone
  <2>4. leaked' = {} /\ intercepting' /\ snapshotRouter' = S!None
    BY <1>3, <2>1 DEF S!Install, Alone
  <2>5. QED
    BY <2>2, <2>3, <2>4 DEF Alone
<1>4. ASSUME NEW h \in Handlers, S!Publish(h) PROVE Alone'
  <2> SUFFICES ASSUME ~overlapped' PROVE Alone'
    BY DEF Alone
  <2>1. ~overlapped /\ h \in S!Working /\ step[h].pc = "publish"
    BY <1>4 DEF S!Publish
  <2>2. S!Working' = {}
    BY <1>4, <2>1 DEF S!Publish, Alone
  <2>3. leaked' = {} /\ intercepting' /\ snapshotRouter' # S!None
    BY <1>4, <2>1 DEF S!Publish, Alone
  <2>4. QED
    BY <2>2, <2>3 DEF Alone
<1>5. CASE UNCHANGED S!vars
  BY <1>5 DEF S!vars, S!routerVars, Alone
<1>6. QED
  BY <1>1, <1>2, <1>3, <1>4, <1>5 DEF S!Next, S!SnapshotStep, S!TakeForLoad, S!TakeForClear

(* As long as no two loads or clears overlap, the browser runs exactly the *)
(* published router, and intercepts exactly when there is one.             *)
THEOREM RouterAlone == S!Spec => []S!OneRouter
<1>1. RouterIInv /\ Alone => S!OneRouter
  <2> SUFFICES ASSUME RouterIInv, Alone, ~overlapped, S!Working = {} PROVE
          /\ running = {snapshotRouter} \ {S!None}
          /\ intercepting = (snapshotRouter # S!None)
    BY DEF S!OneRouter
  <2>1. leaked = {} /\ intercepting = (snapshotRouter # S!None)
    BY DEF Alone
  <2>2. S!Held = {}
    BY DEF S!Working, S!Idle, S!Held
  <2>3. S!RoutersAccounted
    BY RouterIInvAccounts
  <2>4. QED
    BY <2>1, <2>2, <2>3 DEF S!RoutersAccounted
<1>2. S!Spec => []RouterIInv
  BY InitRouterIInv, NextRouterIInv, RouterTypeCorrect, PTL DEF S!Spec
<1>3. S!Spec => []Alone
  BY <1>2, InitAlone, NextAlone, PTL DEF S!Spec
<1>4. QED
  BY <1>1, <1>2, <1>3, PTL

-----------------------------------------------------------------------------
(* The steps that leave the snapshot router alone.                         *)
LEMMA StepQuiet ==
  ASSUME NEW h \in Handlers,
         \/ Act(h) \/ AppendEvent(h)
         \/ RecordStart(h) \/ StartHar1(h) \/ StartHar2(h)
         \/ RecordStop(h) \/ HarOff(h) \/ HarStop(h) \/ Save(h)
         \/ RecordDelete(h) \/ DeleteHar(h) \/ OwnCapture(h)
         \/ ReplayRead(h) \/ ReplayPause(h) \/ ReplayStepFails(h) \/ ReplayRestore(h)
  PROVE  UNCHANGED routerVars /\ step' = step
BY DEF Act, AppendEvent, RecordStart, StartHar1, StartHar2, RecordStop, HarOff,
       HarStop, Save, RecordDelete, DeleteHar, OwnCapture, ReplayRead, ReplayPause,
       ReplayStepFails, ReplayRestore, routerVars

(* What a step of the recorder does to the snapshot router is a step of    *)
(* SnapshotRouter, or nothing.                                             *)
LEMMA StepImplements == [Next]_vars => [S!Next]_(S!vars)
<1> SUFFICES ASSUME [Next]_vars PROVE [S!Next]_(S!vars)
  OBVIOUS
<1>1. ASSUME NEW h \in Handlers, S!TakeForLoad(h) \/ S!TakeForClear(h) \/ S!SnapshotStep(h)
      PROVE  S!Next
  BY <1>1 DEF S!Next
<1>2. ASSUME NEW h \in Handlers,
             \/ Act(h) \/ AppendEvent(h)
             \/ RecordStart(h) \/ StartHar1(h) \/ StartHar2(h)
             \/ RecordStop(h) \/ HarOff(h) \/ HarStop(h) \/ Save(h)
             \/ RecordDelete(h) \/ DeleteHar(h) \/ OwnCapture(h)
             \/ ReplayRead(h) \/ ReplayPause(h) \/ ReplayStepFails(h) \/ ReplayRestore(h)
      PROVE  UNCHANGED routerVars
  BY <1>2, StepQuiet
<1>3. ASSUME NEW h \in Handlers,
             \/ SnapshotRequest(h) \/ SnapshotStep(h)
             \/ ReplayLive(h) \/ ReplayRecorded(h) \/ ReplaySucceeds(h)
      PROVE  \/ UNCHANGED routerVars
             \/ S!TakeForLoad(h) \/ S!TakeForClear(h) \/ S!SnapshotStep(h)
  BY <1>3 DEF SnapshotRequest, SnapshotStep, ReplayLive, ReplayRecorded, ReplaySucceeds
<1>4. CASE UNCHANGED vars
  BY <1>4 DEF vars, routerVars, S!vars, S!routerVars
<1>5. QED
  BY <1>1, <1>2, <1>3, <1>4 DEF Next, routerVars, S!vars, S!routerVars

(* The recorder drives the snapshot router as handlers of SnapshotRouter   *)
(* do: Recording implements it.                                            *)
THEOREM ImplementsRouter == Spec => S!Spec
<1>1. Init => S!Init
  BY DEF Init
<1>2. QED
  BY <1>1, StepImplements, PTL DEF Spec, S!Spec

(* Under replays, too, every running router is published, in one handler's *)
(* hands, or leaked by a publish over it (routes_snapshot.go:125-153).     *)
THEOREM RoutersAccountedHolds == Spec => []RoutersAccounted
<1>1. S!RoutersAccounted => RoutersAccounted
  BY DEF RoutersAccounted
<1>2. QED
  BY <1>1, RouterAccounts, ImplementsRouter, PTL

(* Unless two loads or clears overlapped, exactly the published router     *)
(* runs between them, also after failed replays.                           *)
THEOREM OneRouterHolds == Spec => []OneRouter
<1>1. S!OneRouter => OneRouter
  BY DEF OneRouter
<1>2. QED
  BY <1>1, RouterAlone, ImplementsRouter, PTL

-----------------------------------------------------------------------------
(* Type correctness of the recorder's own variables.                       *)

Steps == {"idle"} \cup ActSteps \cup StartSteps \cup StopSteps \cup DeleteSteps \cup ReplaySteps

LocalOK ==
    /\ actions \in Nat
    /\ pc \in [Handlers -> Steps]
    /\ job \in [Handlers -> Jobs]
    /\ \A h \in Handlers : pc[h] = "append" => job[h].n \in 1 .. actions

RecTypeOK ==
    /\ LocalOK
    /\ recording \in BOOLEAN /\ recordHar \in BOOLEAN
    /\ recordEvents \in Seq(1 .. actions)
    /\ capture \in {"off", "har", "own"} /\ harFile \in BOOLEAN
    /\ file \in {"none", "plain", "har"}
    /\ wanted \in BOOLEAN /\ due \subseteq 1 .. actions /\ disturbed \in BOOLEAN

(* What handlers may hold grows with the number of actions.                *)
LEMMA MoreActions ==
  ASSUME NEW a \in Nat, NEW s \in Seq(1 .. a)
  PROVE  s \in Seq(1 .. a + 1)
OBVIOUS

LEMMA MoreJobs ==
  ASSUME actions \in Nat, actions' = actions + 1, NEW j \in Jobs
  PROVE  j \in Jobs'
<1>1. j.events \in Seq(1 .. actions + 1)
  BY MoreActions DEF Jobs
<1>2. QED
  BY <1>1 DEF Jobs

LEMMA NoJobIsJob == actions \in Nat => NoJob \in Jobs
BY DEF NoJob, Jobs

(* A handler goes from step to step with a job of the right shape.         *)
LEMMA GotoKeeps ==
  ASSUME LocalOK, actions' = actions, NEW h \in Handlers, NEW s \in Steps, NEW j \in Jobs,
         s = "append" => j.n \in 1 .. actions, Goto(h, s, j)
  PROVE  LocalOK'
<1>1. Jobs' = Jobs
  BY DEF Jobs
<1>2. QED
  BY <1>1 DEF LocalOK, Goto

LEMMA FinishKeeps ==
  ASSUME LocalOK, actions' = actions, NEW h \in Handlers, Finish(h)
  PROVE  LocalOK'
<1>1. "idle" \in Steps /\ NoJob \in Jobs
  BY NoJobIsJob DEF Steps, LocalOK
<1>2. QED
  BY <1>1, GotoKeeps DEF Finish

LEMMA TakeOverKeeps ==
  ASSUME LocalOK, actions' = actions, NEW h \in Handlers, NEW s \in Steps \ {"append"},
         NEW j \in Jobs, TakeOver(h, s, j)
  PROVE  LocalOK'
<1>1. Jobs' = Jobs
  BY DEF Jobs
<1>2. ASSUME NEW g \in Handlers
      PROVE  [job[g] EXCEPT !.net = "any"] \in Jobs /\ [job[g] EXCEPT !.net = "any"].n = job[g].n
  BY DEF LocalOK, Jobs
<1>3. QED
  BY <1>1, <1>2 DEF LocalOK, TakeOver

LEMMA SameLocals == LocalOK /\ actions' = actions /\ UNCHANGED localVars => LocalOK'
<1>1. actions' = actions => Jobs' = Jobs
  BY DEF Jobs
<1>2. QED
  BY <1>1 DEF LocalOK, localVars

LEMMA InitRecTypeOK == Init => RecTypeOK
<1> SUFFICES ASSUME Init PROVE RecTypeOK
  OBVIOUS
<1>1. job \in [Handlers -> Jobs] /\ pc \in [Handlers -> Steps]
  BY NoJobIsJob DEF Init, Steps
<1>2. LocalOK
  BY <1>1 DEF Init, LocalOK
<1>3. recordEvents \in Seq(1 .. actions)
  BY DEF Init
<1>4. QED
  BY <1>2, <1>3 DEF Init, RecTypeOK

LEMMA NextRecTypeOK == RecTypeOK /\ [Next]_vars => RecTypeOK'
<1> SUFFICES ASSUME RecTypeOK, [Next]_vars PROVE RecTypeOK'
  OBVIOUS
<1>0. LocalOK /\ NoJob \in Jobs /\ \A h \in Handlers : job[h] \in Jobs
  BY NoJobIsJob DEF RecTypeOK, LocalOK
<1> USE DEF Steps, ActSteps, StartSteps, StopSteps, DeleteSteps, ReplaySteps,
            recVars, diskVars, historyVars
<1>1. ASSUME NEW h \in Handlers, Act(h) PROVE RecTypeOK'
  <2>1. actions \in Nat /\ actions' = actions + 1
    BY <1>1 DEF Act, RecTypeOK, LocalOK
  <2>2. recordEvents' \in Seq(1 .. actions')
    BY <1>1, <2>1, MoreActions DEF Act, RecTypeOK
  <2>3. \A j \in Jobs : j \in Jobs'
    BY <2>1, MoreJobs
  <2>4. LocalOK'
    <3> DEFINE must == wanted /\ ~disturbed /\ Replaying = {}
               J(b) == [NoJob EXCEPT !.n = actions', !.must = b]
    <3>1. ASSUME NEW b \in BOOLEAN PROVE J(b) \in Jobs' /\ J(b).n = actions'
      <4>1. NoJob \in Jobs'
        BY <1>0, <2>3
      <4>2. J(b) \in Jobs'
        <5>1. actions' \in 0 .. actions'
          BY <2>1
        <5>2. \A j \in Jobs', n \in 0 .. actions' : [j EXCEPT !.n = n, !.must = b] \in Jobs'
          BY DEF Jobs
        <5>3. QED
          BY <4>1, <5>1, <5>2
      <4>3. J(b).n = actions'
        BY DEF NoJob
      <4>4. QED
        BY <4>2, <4>3
    <3>2. must \in BOOLEAN
      OBVIOUS
    <3>3. J(must) \in Jobs' /\ J(must).n = actions'
      BY <3>1, <3>2
    <3>4. CASE Goto(h, "append", J(must))
      <4> HIDE DEF J, must
      <4>1. QED
        BY <1>0, <2>1, <2>3, <3>3, <3>4 DEF LocalOK, Goto
    <3>5. CASE UNCHANGED localVars
      BY <1>0, <2>1, <2>3, <3>5 DEF LocalOK, localVars
    <3>6. QED
      BY <1>1, <3>4, <3>5 DEF Act
  <2>5. due' \subseteq 1 .. actions'
    BY <1>1, <2>1 DEF Act, RecTypeOK
  <2>6. QED
    BY <1>1, <2>2, <2>4, <2>5 DEF Act, RecTypeOK
<1>2. ASSUME NEW h \in Handlers, AppendEvent(h) PROVE RecTypeOK'
  <2>1. LocalOK'
    BY <1>0, <1>2, FinishKeeps DEF AppendEvent
  <2>2. job[h].n \in 1 .. actions
    BY <1>0, <1>2 DEF AppendEvent, AtStep, LocalOK
  <2>3. recordEvents' \in Seq(1 .. actions')
    BY <1>2, <2>2 DEF AppendEvent, RecTypeOK
  <2>4. due' \subseteq 1 .. actions'
    BY <1>2, <2>2 DEF AppendEvent, RecTypeOK
  <2>5. QED
    BY <1>2, <2>1, <2>3, <2>4 DEF AppendEvent, RecTypeOK
<1>3. ASSUME NEW h \in Handlers, RecordStart(h) PROVE RecTypeOK'
  <2>1. Jobs' = Jobs /\ actions \in Nat /\ actions' = actions
    BY <1>0, <1>3 DEF RecordStart, Jobs, LocalOK
  <2>2. ASSUME NEW g \in Handlers
        PROVE  /\ [job[g] EXCEPT !.must = FALSE] \in Jobs
               /\ [job[g] EXCEPT !.must = FALSE].n = job[g].n
    BY <1>0 DEF LocalOK, Jobs
  <2>3. pc' \in [Handlers -> Steps] /\ \A g \in Handlers : pc'[g] = "append" => pc[g] = "append"
    BY <1>0, <1>3 DEF RecordStart, LocalOK, AtStep
  <2>4. LocalOK'
    BY <1>0, <1>3, <2>1, <2>2, <2>3 DEF RecordStart, LocalOK
  <2>5. recordEvents' \in Seq(1 .. actions') /\ disturbed' \in BOOLEAN
    BY <1>3 DEF RecordStart
  <2>6. QED
    BY <1>3, <2>4, <2>5 DEF RecordStart, RecTypeOK
<1>4. ASSUME NEW h \in Handlers, StartHar1(h) \/ StartHar2(h) PROVE RecTypeOK'
  <2>1. LocalOK'
    BY <1>0, <1>4, FinishKeeps, GotoKeeps DEF StartHar1, StartHar2
  <2>2. QED
    BY <1>4, <2>1 DEF StartHar1, StartHar2, RecTypeOK
<1>5. ASSUME NEW h \in Handlers, RecordStop(h) PROVE RecTypeOK'
  <2>1. [NoJob EXCEPT !.events = recordEvents, !.har = recordHar, !.due = due] \in Jobs
    BY <1>0 DEF RecTypeOK, Jobs
  <2>2. LocalOK'
    BY <1>0, <1>5, <2>1, GotoKeeps DEF RecordStop
  <2>3. QED
    BY <1>5, <2>2 DEF RecordStop, RecTypeOK, Disturb
<1>6. ASSUME NEW h \in Handlers, HarOff(h) \/ HarStop(h) \/ Save(h) PROVE RecTypeOK'
  <2>1. LocalOK'
    BY <1>0, <1>6, FinishKeeps, GotoKeeps DEF HarOff, HarStop, Save
  <2>2. harFile' \in BOOLEAN
    BY <1>6 DEF HarOff, HarStop, Save, RecTypeOK
  <2>3. QED
    BY <1>6, <2>1, <2>2 DEF HarOff, HarStop, Save, RecTypeOK
<1>7. ASSUME NEW h \in Handlers, RecordDelete(h) \/ DeleteHar(h) \/ OwnCapture(h)
      PROVE  RecTypeOK'
  <2>1. LocalOK'
    BY <1>0, <1>7, FinishKeeps, GotoKeeps, SameLocals DEF RecordDelete, DeleteHar, OwnCapture
  <2>2. harFile' \in BOOLEAN
    BY <1>7 DEF RecordDelete, DeleteHar, OwnCapture, RecTypeOK
  <2>3. QED
    BY <1>7, <2>1, <2>2 DEF RecordDelete, DeleteHar, OwnCapture, RecTypeOK, Disturb
<1>8. ASSUME NEW h \in Handlers, SnapshotRequest(h) \/ SnapshotStep(h) PROVE RecTypeOK'
  <2>1. LocalOK'
    BY <1>0, <1>8, TakeOverKeeps, SameLocals DEF SnapshotRequest, SnapshotStep
  <2>2. QED
    BY <1>8, <2>1 DEF SnapshotRequest, SnapshotStep, RecTypeOK
<1>9. ASSUME NEW h \in Handlers, ReplayLive(h) \/ ReplayRecorded(h) PROVE RecTypeOK'
  <2>1. /\ [NoJob EXCEPT !.net = "live"] \in Jobs
        /\ [NoJob EXCEPT !.net = "snapshot", !.loaded = TRUE] \in Jobs
    BY <1>0 DEF NoJob, Jobs
  <2>2. LocalOK'
    BY <1>0, <1>9, <2>1, TakeOverKeeps, GotoKeeps DEF ReplayLive, ReplayRecorded
  <2>3. QED
    BY <1>9, <2>2 DEF ReplayLive, ReplayRecorded, RecTypeOK, Disturb
<1>10. ASSUME NEW h \in Handlers, ReplayRead(h) \/ ReplayPause(h) PROVE RecTypeOK'
  <2>1. [job[h] EXCEPT !.was = recording] \in Jobs
    BY <1>0 DEF RecTypeOK, Jobs
  <2>2. LocalOK'
    BY <1>0, <1>10, <2>1, GotoKeeps DEF ReplayRead, ReplayPause
  <2>3. QED
    BY <1>10, <2>2 DEF ReplayRead, ReplayPause, RecTypeOK
<1>11. ASSUME NEW h \in Handlers, ReplayStepFails(h) \/ ReplaySucceeds(h) \/ ReplayRestore(h)
       PROVE  RecTypeOK'
  <2>1. job[h].was \in BOOLEAN
    BY <1>0 DEF Jobs
  <2>2. LocalOK'
    BY <1>0, <1>11, TakeOverKeeps, GotoKeeps, FinishKeeps
       DEF ReplayStepFails, ReplaySucceeds, ReplayRestore
  <2>3. QED
    BY <1>11, <2>1, <2>2 DEF ReplayStepFails, ReplaySucceeds, ReplayRestore, RecTypeOK
<1>12. CASE UNCHANGED vars
  <2>1. LocalOK'
    BY <1>0, <1>12, SameLocals DEF vars
  <2>2. QED
    BY <1>12, <2>1 DEF vars, RecTypeOK
<1>13. QED
  BY <1>1, <1>2, <1>3, <1>4, <1>5, <1>6, <1>7, <1>8, <1>9, <1>10, <1>11, <1>12 DEF Next

-----------------------------------------------------------------------------
(* A handler in the middle of a load or clear takes no other step.         *)

BusyWaits == \A h \in Handlers : step[h] # S!Idle => pc[h] \in {"idle", "replayRead", "replayRestore"}

LEMMA NextBusyWaits == RecTypeOK /\ S!TypeOK /\ BusyWaits /\ [Next]_vars => BusyWaits'
<1> SUFFICES ASSUME RecTypeOK, S!TypeOK, BusyWaits, [Next]_vars PROVE BusyWaits'
  OBVIOUS
<1> USE DEF BusyWaits, S!Idle, S!None, AtStep, Goto, Finish, TakeOver, localVars, historyVars
<1>0. pc \in [Handlers -> Steps] /\ DOMAIN step = Handlers
  BY DEF RecTypeOK, LocalOK, S!TypeOK
<1>1. ASSUME NEW h \in Handlers,
             \/ Act(h) \/ AppendEvent(h)
             \/ RecordStart(h) \/ StartHar1(h) \/ StartHar2(h)
             \/ RecordStop(h) \/ HarOff(h) \/ HarStop(h) \/ Save(h)
             \/ RecordDelete(h) \/ DeleteHar(h) \/ OwnCapture(h)
             \/ ReplayRead(h) \/ ReplayPause(h) \/ ReplayStepFails(h) \/ ReplayRestore(h)
      PROVE  BusyWaits'
  <2>1. step' = step
    BY <1>1, StepQuiet
  <2>2. step[h] = S!Idle /\ \A g \in Handlers \ {h} : pc'[g] = pc[g]
    BY <1>0, <1>1 DEF Act, AppendEvent, RecordStart, StartHar1, StartHar2, RecordStop, HarOff,
              HarStop, Save, RecordDelete, DeleteHar, OwnCapture, ReplayRead, ReplayPause,
              ReplayStepFails, ReplayRestore
  <2>3. QED
    BY <2>1, <2>2
<1>2. ASSUME NEW h \in Handlers,
             SnapshotRequest(h) \/ ReplayLive(h) \/ ReplayRecorded(h) \/ ReplaySucceeds(h)
      PROVE  BusyWaits'
  <2>1. \A g \in Handlers \ {h} : pc'[g] = pc[g] /\ step'[g] = step[g]
    BY <1>0, <1>2 DEF SnapshotRequest, ReplayLive, ReplayRecorded, ReplaySucceeds,
                      S!TakeForLoad, S!TakeForClear, S!Take, routerVars
  <2>2. pc'[h] \in {"idle", "replayRead", "replayRestore"}
    BY <1>0, <1>2 DEF SnapshotRequest, ReplayLive, ReplayRecorded, ReplaySucceeds
  <2>3. QED
    BY <2>1, <2>2
<1>3. ASSUME NEW h \in Handlers, SnapshotStep(h) PROVE BusyWaits'
  <2>1. step[h] # S!Idle /\ \A g \in Handlers \ {h} : step'[g] = step[g]
    BY <1>0, <1>3 DEF SnapshotStep, S!SnapshotStep, S!StopPrev, S!Install, S!Publish
  <2>2. pc' = pc
    BY <1>3 DEF SnapshotStep
  <2>3. QED
    BY <2>1, <2>2
<1>4. CASE UNCHANGED vars
  BY <1>4 DEF vars, routerVars
<1>5. QED
  BY <1>1, <1>2, <1>3, <1>4 DEF Next

(* Every variable keeps its type, whatever fails and overlaps.             *)
THEOREM TypeCorrect == Spec => []TypeOK
<1>1. Spec => []S!TypeOK
  BY RouterTypeCorrect, ImplementsRouter, PTL
<1>2. Init => BusyWaits
  BY DEF Init, S!Init, BusyWaits
<1>3. Spec => []RecTypeOK
  BY InitRecTypeOK, NextRecTypeOK, PTL DEF Spec
<1>4. Spec => []BusyWaits
  BY <1>1, <1>2, <1>3, NextBusyWaits, PTL DEF Spec
<1>5. RecTypeOK /\ S!TypeOK /\ BusyWaits => TypeOK
  BY DEF RecTypeOK, LocalOK, Steps, BusyWaits, TypeOK
<1>6. QED
  BY <1>1, <1>3, <1>4, <1>5, PTL

-----------------------------------------------------------------------------
(* While starts, stops, deletes and replays do not overlap, at most one    *)
(* handler is at one; the flag is what was asked for, except between a     *)
(* replay's pause and its restore, and what the replay restores is that.   *)

Paused == {h \in Handlers : pc[h] \in {"replaying", "replayRestore"}}

FlagInv ==
    ~disturbed =>
        /\ \A g, h \in Recorders : g = h
        /\ \A h \in Handlers :
               pc[h] \in {"replayPause", "replaying", "replayRestore"} => (job[h].was <=> wanted)
        /\ \A h \in Handlers : pc[h] = "replaying" => ~recording
        /\ Paused = {} => (recording <=> wanted)
        /\ \A h \in Handlers : pc[h] \in {"harOff", "harStop", "save"} => ~wanted

LEMMA InitFlagInv == Init => FlagInv
BY DEF Init, FlagInv, Recorders, Paused

LEMMA NextFlagInv == RecTypeOK /\ FlagInv /\ [Next]_vars => FlagInv'
<1> SUFFICES ASSUME RecTypeOK, FlagInv, [Next]_vars, ~disturbed' PROVE FlagInv'
  BY DEF FlagInv
<1>0. /\ pc \in [Handlers -> Steps] /\ job \in [Handlers -> Jobs]
      /\ recording \in BOOLEAN /\ wanted \in BOOLEAN
      /\ \A h \in Handlers : job[h].was \in BOOLEAN
  BY DEF RecTypeOK, LocalOK, Jobs
<1> USE DEF FlagInv, Recorders, Paused, ActSteps, StartSteps, StopSteps, DeleteSteps,
            ReplaySteps, AtStep, Goto, Finish, Disturb, TakeOver, recVars, localVars, historyVars
<1>1. ASSUME NEW h \in Handlers, Act(h) \/ AppendEvent(h) PROVE FlagInv'
  BY <1>0, <1>1 DEF Act, AppendEvent
<1>2. ASSUME NEW h \in Handlers, RecordStart(h) PROVE FlagInv'
  BY <1>0, <1>2 DEF RecordStart
<1>3. ASSUME NEW h \in Handlers, StartHar1(h) \/ StartHar2(h) PROVE FlagInv'
  BY <1>0, <1>3 DEF StartHar1, StartHar2
<1>4. ASSUME NEW h \in Handlers, RecordStop(h) PROVE FlagInv'
  BY <1>0, <1>4 DEF RecordStop
<1>5. ASSUME NEW h \in Handlers, HarOff(h) \/ HarStop(h) \/ Save(h) PROVE FlagInv'
  BY <1>0, <1>5 DEF HarOff, HarStop, Save
<1>6. ASSUME NEW h \in Handlers, RecordDelete(h) \/ DeleteHar(h) \/ OwnCapture(h)
      PROVE  FlagInv'
  <2>1. CASE RecordDelete(h)
    BY <1>0, <2>1 DEF RecordDelete
  <2>2. CASE DeleteHar(h)
    BY <1>0, <2>2 DEF DeleteHar
  <2>3. CASE OwnCapture(h)
    BY <1>0, <2>3 DEF OwnCapture
  <2>4. QED
    BY <1>6, <2>1, <2>2, <2>3
<1>7. ASSUME NEW h \in Handlers, SnapshotRequest(h) \/ SnapshotStep(h) PROVE FlagInv'
  <2>1. CASE SnapshotRequest(h)
    <3>1. pc' = pc /\ UNCHANGED <<recording, wanted, disturbed>>
      BY <1>0, <2>1 DEF SnapshotRequest
    <3>2. ASSUME NEW g \in Handlers,
                 pc[g] \in {"replayPause", "replaying", "replayRestore"}
          PROVE  job'[g].was = job[g].was
      <4>1. g # h
        BY <2>1, <3>2 DEF SnapshotRequest
      <4>2. job[g] \in Jobs
        BY <1>0
      <4>3. job'[g] = [job[g] EXCEPT !.net = "any"]
        BY <1>0, <2>1, <4>1 DEF SnapshotRequest
      <4>4. QED
        BY <4>2, <4>3 DEF Jobs
    <3>3. QED
      BY <3>1, <3>2
  <2>2. CASE SnapshotStep(h)
    BY <2>2 DEF SnapshotStep
  <2>3. QED
    BY <1>7, <2>1, <2>2
<1>8. ASSUME NEW h \in Handlers, ReplayLive(h) \/ ReplayRecorded(h) PROVE FlagInv'
  BY <1>0, <1>8 DEF ReplayLive, ReplayRecorded
<1>9. ASSUME NEW h \in Handlers, ReplayRead(h) \/ ReplayPause(h) PROVE FlagInv'
  <2>1. pc[h] \in {"replayRead", "replayPause"} /\ Recorders = {h} /\ Paused = {}
    BY <1>0, <1>9 DEF ReplayRead, ReplayPause
  <2>2. CASE ReplayRead(h)
    <3>1. job'[h].was <=> recording
      BY <1>0, <2>2 DEF ReplayRead, Jobs
    <3>2. \A g \in Handlers \ {h} : pc'[g] = pc[g]
      BY <1>0, <2>2 DEF ReplayRead
    <3>3. pc'[h] = "replayPause" /\ UNCHANGED <<recording, wanted, disturbed>>
      BY <1>0, <2>2 DEF ReplayRead
    <3>4. QED
      BY <1>0, <2>1, <3>1, <3>2, <3>3
  <2>3. CASE ReplayPause(h)
    BY <1>0, <2>1, <2>3 DEF ReplayPause
  <2>4. QED
    BY <1>9, <2>2, <2>3
<1>10. ASSUME NEW h \in Handlers, ReplayStepFails(h) \/ ReplaySucceeds(h) \/ ReplayRestore(h)
       PROVE  FlagInv'
  BY <1>0, <1>10 DEF ReplayStepFails, ReplaySucceeds, ReplayRestore
<1>11. CASE UNCHANGED vars
  BY <1>11 DEF vars
<1>12. QED
  BY <1>1, <1>2, <1>3, <1>4, <1>5, <1>6, <1>7, <1>8, <1>9, <1>10, <1>11 DEF Next

(* Through failed starts, stops and replays the flag is what was asked for *)
(* last, and off while a replay takes its steps (routes_record.go:289-291, *)
(* 56-65), unless two of them overlapped.                                  *)
THEOREM FlagFollowsRequestsHolds == Spec => []FlagFollowsRequests
<1>1. RecTypeOK /\ FlagInv => FlagFollowsRequests
  <2> SUFFICES ASSUME RecTypeOK, FlagInv, ~disturbed
               PROVE  /\ Replaying = {} => recording = wanted
                      /\ (\E h \in Handlers : pc[h] = "replaying") => ~recording
    BY DEF FlagFollowsRequests
  <2>1. recording \in BOOLEAN /\ wanted \in BOOLEAN
    BY DEF RecTypeOK
  <2>2. Replaying = {} => Paused = {}
    BY DEF Replaying, Paused, ReplaySteps
  <2>3. Paused = {} => (recording <=> wanted)
    BY DEF FlagInv
  <2>4. (\E h \in Handlers : pc[h] = "replaying") => ~recording
    BY DEF FlagInv
  <2>5. QED
    BY <2>1, <2>2, <2>3, <2>4
<1>2. Spec => []RecTypeOK
  BY InitRecTypeOK, NextRecTypeOK, PTL DEF Spec
<1>3. Spec => []FlagInv
  BY <1>2, InitFlagInv, NextFlagInv, PTL DEF Spec
<1>4. QED
  BY <1>1, <1>2, <1>3, PTL

-----------------------------------------------------------------------------
(* What must be recorded is: appends only add to the events, only a start  *)
(* takes them away, and an action that finds the flag off outside a replay *)
(* was not asked for.                                                      *)

LEMMA AppendKeeps ==
  ASSUME NEW A, NEW s \in Seq(A), NEW n \in A
  PROVE  In(n, Append(s, n)) /\ \A m : In(m, s) => In(m, Append(s, n))
<1>1. Append(s, n)[Len(s) + 1] = n /\ Len(s) + 1 \in DOMAIN Append(s, n)
  OBVIOUS
<1>2. \A k \in DOMAIN s : k \in DOMAIN Append(s, n) /\ Append(s, n)[k] = s[k]
  OBVIOUS
<1>3. QED
  BY <1>1, <1>2 DEF In

LEMMA NextNothingLost == RecTypeOK /\ FlagInv /\ NothingLost /\ [Next]_vars => NothingLost'
<1> SUFFICES ASSUME RecTypeOK, FlagInv, NothingLost, [Next]_vars PROVE NothingLost'
  OBVIOUS
<1>0. /\ pc \in [Handlers -> Steps] /\ job \in [Handlers -> Jobs]
      /\ recordEvents \in Seq(1 .. actions)
      /\ recording \in BOOLEAN /\ wanted \in BOOLEAN
  BY DEF RecTypeOK, LocalOK
<1> USE DEF NothingLost, StopSteps, AtStep, Goto, Finish, TakeOver, recVars, localVars, historyVars
<1>1. ASSUME NEW h \in Handlers, Act(h) PROVE NothingLost'
  <2>1. due' = due
    <3>1. CASE recording
      BY <1>1, <3>1 DEF Act
    <3>2. CASE ~recording
      <4>1. ~(wanted /\ ~disturbed /\ Replaying = {})
        BY <1>0, <3>2 DEF FlagInv, Paused, Replaying, ReplaySteps
      <4>2. QED
        BY <1>1, <3>2, <4>1 DEF Act
    <3>3. QED
      BY <3>1, <3>2
  <2>2. \A g \in Handlers : pc'[g] \in StopSteps => pc[g] = pc'[g] /\ job'[g] = job[g]
    BY <1>0, <1>1 DEF Act
  <2>3. QED
    BY <1>1, <2>1, <2>2 DEF Act
<1>2. ASSUME NEW h \in Handlers, AppendEvent(h) PROVE NothingLost'
  <2>1. job[h].n \in 1 .. actions
    BY <1>0, <1>2 DEF AppendEvent, RecTypeOK, LocalOK
  <2>2. \A n \in due' : In(n, recordEvents')
    BY <1>0, <1>2, <2>1, AppendKeeps DEF AppendEvent
  <2>3. \A g \in Handlers : pc'[g] \in StopSteps => pc[g] = pc'[g] /\ job'[g] = job[g]
    BY <1>0, <1>2 DEF AppendEvent
  <2>4. QED
    BY <2>2, <2>3
<1>3. ASSUME NEW h \in Handlers, RecordStart(h) PROVE NothingLost'
  <2>1. due' = {}
    BY <1>3 DEF RecordStart
  <2>2. ASSUME NEW g \in Handlers, pc'[g] \in StopSteps
        PROVE  pc[g] = pc'[g] /\ job'[g].due = job[g].due /\ job'[g].events = job[g].events
    <3>1. pc[g] = pc'[g] /\ job'[g] = [job[g] EXCEPT !.must = FALSE] /\ job[g] \in Jobs
      BY <1>0, <1>3, <2>2 DEF RecordStart
    <3>2. QED
      BY <3>1 DEF Jobs
  <2>3. QED
    BY <2>1, <2>2
<1>4. ASSUME NEW h \in Handlers, RecordStop(h) PROVE NothingLost'
  <2>1. job'[h].due = due /\ job'[h].events = recordEvents /\ due' = due
        /\ recordEvents' = recordEvents
    BY <1>0, <1>4 DEF RecordStop, NoJob
  <2>2. \A g \in Handlers \ {h} : pc'[g] = pc[g] /\ job'[g] = job[g]
    BY <1>0, <1>4 DEF RecordStop
  <2>3. QED
    BY <2>1, <2>2
<1>5. ASSUME NEW h \in Handlers, UNCHANGED <<recordEvents, due>>,
             pc'[h] \in StopSteps => pc[h] \in StopSteps /\ job'[h] = job[h],
             \A g \in Handlers \ {h} : pc'[g] = pc[g] /\ job'[g] = job[g]
      PROVE  NothingLost'
  BY <1>5
<1>6. ASSUME NEW h \in Handlers,
             \/ StartHar1(h) \/ StartHar2(h) \/ HarOff(h) \/ HarStop(h) \/ Save(h)
             \/ RecordDelete(h) \/ DeleteHar(h) \/ OwnCapture(h) \/ SnapshotStep(h)
             \/ ReplayRead(h) \/ ReplayPause(h) \/ ReplayStepFails(h) \/ ReplayRestore(h)
      PROVE  NothingLost'
  <2>1. UNCHANGED <<recordEvents, due>>
    BY <1>6 DEF StartHar1, StartHar2, HarOff, HarStop, Save, RecordDelete, DeleteHar,
           OwnCapture, SnapshotStep, ReplayRead, ReplayPause, ReplayStepFails, ReplayRestore
  <2>2. pc'[h] \in StopSteps => pc[h] \in StopSteps /\ job'[h] = job[h]
    BY <1>0, <1>6 DEF StartHar1, StartHar2, HarOff, HarStop, Save, RecordDelete, DeleteHar,
           OwnCapture, SnapshotStep, ReplayRead, ReplayPause, ReplayStepFails, ReplayRestore
  <2>3. \A g \in Handlers \ {h} : pc'[g] = pc[g] /\ job'[g] = job[g]
    BY <1>0, <1>6 DEF StartHar1, StartHar2, HarOff, HarStop, Save, RecordDelete, DeleteHar,
           OwnCapture, SnapshotStep, ReplayRead, ReplayPause, ReplayStepFails, ReplayRestore
  <2>4. QED
    BY <1>5, <2>1, <2>2, <2>3
<1>7. ASSUME NEW h \in Handlers,
             \/ SnapshotRequest(h) \/ ReplayLive(h) \/ ReplayRecorded(h) \/ ReplaySucceeds(h)
      PROVE  NothingLost'
  <2>1. UNCHANGED <<recordEvents, due>>
    BY <1>7 DEF SnapshotRequest, ReplayLive, ReplayRecorded, ReplaySucceeds
  <2>2. pc'[h] \notin StopSteps
    BY <1>0, <1>7 DEF SnapshotRequest, ReplayLive, ReplayRecorded, ReplaySucceeds
  <2>3. ASSUME NEW g \in Handlers \ {h}
        PROVE  pc'[g] = pc[g] /\ job'[g].due = job[g].due /\ job'[g].events = job[g].events
    <3>1. pc[g] = pc'[g] /\ job'[g] \in {job[g], [job[g] EXCEPT !.net = "any"]} /\ job[g] \in Jobs
      BY <1>0, <1>7 DEF SnapshotRequest, ReplayLive, ReplayRecorded, ReplaySucceeds
    <3>2. QED
      BY <3>1 DEF Jobs
  <2>4. QED
    BY <2>1, <2>2, <2>3
<1>8. CASE UNCHANGED vars
  BY <1>8 DEF vars
<1>9. QED
  BY <1>1, <1>2, <1>3, <1>4, <1>6, <1>7, <1>8 DEF Next

(* No action performed during an undisturbed recording is lost, from the   *)
(* events or from what a stop saves, however handlers interleave           *)
(* (server.go:210-243, routes_record.go:89-101).                           *)
THEOREM NothingLostHolds == Spec => []NothingLost
<1>1. Init => NothingLost
  BY DEF Init, NothingLost, StopSteps
<1>2. Spec => []RecTypeOK
  BY InitRecTypeOK, NextRecTypeOK, PTL DEF Spec
<1>3. Spec => []FlagInv
  BY <1>2, InitFlagInv, NextFlagInv, PTL DEF Spec
<1>4. QED
  BY <1>1, <1>2, <1>3, NextNothingLost, PTL DEF Spec

-----------------------------------------------------------------------------
(* A replay that set up the network for its steps, and has not been taken  *)
(* over by another load or clear, is the only one at the router, unless    *)
(* two overlapped; its clear or load is under way, or has left no router   *)
(* or one.                                                                 *)

Provided == {h \in Handlers : /\ pc[h] \in {"replayRead", "replayPause", "replaying"}
                              /\ job[h].net # "any"}

NetOf(h) ==
    /\ S!Working \subseteq {h}
    /\ job[h].net = "live" =>
           /\ step[h] = S!Idle \/ step[h].pc = "stopForClear"
           /\ snapshotRouter = S!None
    /\ job[h].net = "snapshot" =>
           \/ step[h] = S!Idle /\ snapshotRouter # S!None
           \/ step[h].pc \in {"stopForLoad", "install"}
           \/ step[h].pc = "publish" /\ step[h].router # S!None

NetInv == ~overlapped => \A h \in Provided : NetOf(h)

(* Steps that leave the router alone, and make no replay provided for.     *)
LEMMA QuietNet ==
  ASSUME NetInv, UNCHANGED routerVars, Provided' \subseteq Provided,
         \A h \in Provided' : job'[h].net = job[h].net
  PROVE  NetInv'
BY DEF NetInv, NetOf, routerVars, S!Working, S!Idle, S!None

(* A take by h: only h can be provided for, if nothing overlapped.         *)
LEMMA TakeNet ==
  ASSUME RecTypeOK, S!TypeOK, NEW h \in Handlers, NEW s, NEW j \in Jobs,
         S!TakeForLoad(h) \/ S!TakeForClear(h), TakeOver(h, s, j),
         s \in {"replayRead", "replayPause", "replaying"} =>
             \/ j.net = "live" /\ S!TakeForClear(h)
             \/ j.net = "snapshot" /\ S!TakeForLoad(h)
  PROVE  NetInv'
<1> SUFFICES ASSUME ~overlapped', NEW g \in Provided' PROVE NetOf(g)'
  BY DEF NetInv
<1>0. /\ pc \in [Handlers -> Steps] /\ job \in [Handlers -> Jobs] /\ DOMAIN step = Handlers
  BY DEF RecTypeOK, LocalOK, S!TypeOK
<1>1. g = h
  <2> SUFFICES ASSUME g # h PROVE FALSE
    OBVIOUS
  <2>1. g \in Handlers /\ job[g] \in Jobs /\ job'[g] = [job[g] EXCEPT !.net = "any"]
    BY <1>0 DEF TakeOver, Provided
  <2>2. job'[g].net = "any"
    BY <2>1 DEF Jobs
  <2>3. QED
    BY <2>2 DEF Provided
<1>2. pc'[h] = s /\ job'[h] = j
  BY <1>0 DEF TakeOver
<1>3. /\ \A k \in Handlers \ {h} : step[k] = S!Idle /\ step'[k] = S!Idle
      /\ snapshotRouter' = S!None
      /\ S!TakeForClear(h) => step'[h].pc = "stopForClear"
      /\ S!TakeForLoad(h) => step'[h].pc = "stopForLoad"
  <2>1. \E next \in {"stopForLoad", "stopForClear"} : S!Take(h, next)
    BY DEF S!TakeForLoad, S!TakeForClear
  <2>2. PICK next \in {"stopForLoad", "stopForClear"} : S!Take(h, next)
    BY <2>1
  <2>3. S!Working = {} /\ step[h] = S!Idle
    BY <2>2 DEF S!Take
  <2>4. \A k \in Handlers \ {h} : step[k] = S!Idle /\ step'[k] = step[k]
    BY <1>0, <2>2, <2>3 DEF S!Take, S!Working
  <2>5. /\ S!TakeForClear(h) => step'[h].pc = "stopForClear"
        /\ S!TakeForLoad(h) => step'[h].pc = "stopForLoad"
    BY <1>0 DEF S!TakeForLoad, S!TakeForClear, S!Take
  <2>6. QED
    BY <2>2, <2>4, <2>5 DEF S!Take
<1>4. S!Working' \subseteq {h}
  BY <1>3 DEF S!Working, S!Idle, S!None
<1>5. \/ j.net = "live" /\ S!TakeForClear(h)
      \/ j.net = "snapshot" /\ S!TakeForLoad(h)
  BY <1>1, <1>2 DEF Provided
<1>6. QED
  BY <1>1, <1>2, <1>3, <1>4, <1>5 DEF NetOf, S!None

LEMMA NextNetInv == RecTypeOK /\ S!TypeOK /\ BusyWaits /\ NetInv /\ [Next]_vars => NetInv'
<1> SUFFICES ASSUME RecTypeOK, S!TypeOK, BusyWaits, NetInv, [Next]_vars PROVE NetInv'
  OBVIOUS
<1>0. /\ pc \in [Handlers -> Steps] /\ job \in [Handlers -> Jobs] /\ DOMAIN step = Handlers
      /\ latest \in Nat /\ NoJob \in Jobs /\ NoJob.net = "any"
  BY NoJobIsJob DEF RecTypeOK, LocalOK, S!TypeOK, NoJob
<1>1. ASSUME NEW h \in Handlers,
             \/ Act(h) \/ AppendEvent(h) \/ StartHar1(h) \/ StartHar2(h)
             \/ RecordStop(h) \/ HarOff(h) \/ HarStop(h) \/ Save(h)
             \/ RecordDelete(h) \/ DeleteHar(h) \/ OwnCapture(h)
             \/ ReplayStepFails(h) \/ ReplayRestore(h)
      PROVE  NetInv'
  <2>1. UNCHANGED routerVars
    BY <1>1, StepQuiet
  <2>2. /\ \A g \in Handlers \ {h} : pc'[g] = pc[g] /\ job'[g] = job[g]
        /\ \/ pc'[h] = pc[h] /\ job'[h] = job[h]
           \/ pc'[h] \notin {"replayRead", "replayPause", "replaying"}
    BY <1>0, <1>1 DEF Act, AppendEvent, StartHar1, StartHar2, RecordStop, HarOff, HarStop, Save,
           RecordDelete, DeleteHar, OwnCapture, ReplayStepFails, ReplayRestore, Goto, Finish, AtStep,
           localVars
  <2>3. Provided' \subseteq Provided /\ \A g \in Provided' : job'[g].net = job[g].net
    BY <2>2 DEF Provided
  <2>4. QED
    BY <2>1, <2>3, QuietNet
<1>2. ASSUME NEW h \in Handlers, RecordStart(h) PROVE NetInv'
  <2>1. UNCHANGED routerVars
    BY <1>2, StepQuiet
  <2>2. ASSUME NEW g \in Handlers
        PROVE  job'[g].net = job[g].net /\ (pc'[g] = pc[g] \/ pc'[g] \in {"har1", "idle"})
    <3>1. job[g] \in Jobs /\ job'[g] = [job[g] EXCEPT !.must = FALSE]
      BY <1>0, <1>2 DEF RecordStart
    <3>2. pc'[g] = pc[g] \/ pc'[g] \in {"har1", "idle"}
      BY <1>0, <1>2 DEF RecordStart
    <3>3. QED
      BY <3>1, <3>2 DEF Jobs
  <2>3. Provided' \subseteq Provided /\ \A g \in Provided' : job'[g].net = job[g].net
    BY <2>2 DEF Provided
  <2>4. QED
    BY <2>1, <2>3, QuietNet
<1>3. ASSUME NEW h \in Handlers, ReplayRead(h) \/ ReplayPause(h) PROVE NetInv'
  <2>1. UNCHANGED routerVars
    BY <1>3, StepQuiet
  <2>2. /\ \A g \in Handlers \ {h} : pc'[g] = pc[g] /\ job'[g] = job[g]
        /\ pc[h] \in {"replayRead", "replayPause"}
        /\ job'[h] \in {job[h], [job[h] EXCEPT !.was = recording]}
    BY <1>0, <1>3 DEF ReplayRead, ReplayPause, Goto, AtStep
  <2>3. job'[h].net = job[h].net
    <3>1. job[h] \in Jobs
      BY <1>0
    <3>2. QED
      BY <2>2, <3>1 DEF Jobs
  <2>4. Provided' \subseteq Provided /\ \A g \in Provided' : job'[g].net = job[g].net
    BY <2>2, <2>3 DEF Provided
  <2>5. QED
    BY <2>1, <2>4, QuietNet
<1>4. ASSUME NEW h \in Handlers, SnapshotRequest(h) PROVE NetInv'
  BY <1>0, <1>4, TakeNet DEF SnapshotRequest
<1>5. ASSUME NEW h \in Handlers, ReplayLive(h) PROVE NetInv'
  <2>1. [NoJob EXCEPT !.net = "live"] \in Jobs /\ [NoJob EXCEPT !.net = "live"].net = "live"
    BY <1>0 DEF NoJob, Jobs
  <2>2. QED
    BY <1>5, <2>1, TakeNet DEF ReplayLive
<1>6. ASSUME NEW h \in Handlers, ReplayRecorded(h) PROVE NetInv'
  <2> DEFINE J == [NoJob EXCEPT !.net = "snapshot", !.loaded = TRUE]
  <2>1. J \in Jobs /\ J.net = "snapshot"
    BY <1>0 DEF NoJob, Jobs
  <2>2. CASE S!TakeForLoad(h) /\ TakeOver(h, "replayRead", J)
    <3> HIDE DEF J
    <3>1. QED
      BY <2>1, <2>2, TakeNet
  <2>3. CASE Goto(h, "replayRead", NoJob) /\ UNCHANGED routerVars
    <3>1. /\ \A g \in Handlers \ {h} : pc'[g] = pc[g] /\ job'[g] = job[g]
          /\ job'[h].net = "any"
      BY <1>0, <2>3 DEF Goto
    <3>2. Provided' \subseteq Provided /\ \A g \in Provided' : job'[g].net = job[g].net
      BY <3>1 DEF Provided
    <3>3. QED
      BY <2>3, <3>2, QuietNet
  <2>4. QED
    BY <1>6, <2>2, <2>3 DEF ReplayRecorded
<1>7. ASSUME NEW h \in Handlers, ReplaySucceeds(h) PROVE NetInv'
  <2>1. job[h] \in Jobs
    BY <1>0
  <2>2. CASE S!TakeForClear(h) /\ TakeOver(h, "replayRestore", job[h])
    BY <2>1, <2>2, TakeNet
  <2>3. CASE Goto(h, "replayRestore", job[h]) /\ UNCHANGED routerVars
    <3>1. /\ \A g \in Handlers \ {h} : pc'[g] = pc[g] /\ job'[g] = job[g]
          /\ pc'[h] = "replayRestore"
      BY <1>0, <2>3 DEF Goto
    <3>2. Provided' \subseteq Provided /\ \A g \in Provided' : job'[g].net = job[g].net
      BY <3>1 DEF Provided
    <3>3. QED
      BY <2>3, <3>2, QuietNet
  <2>4. QED
    BY <1>7, <2>2, <2>3 DEF ReplaySucceeds
<1>8. ASSUME NEW h \in Handlers, SnapshotStep(h) PROVE NetInv'
  <2> SUFFICES ASSUME ~overlapped', NEW g \in Provided' PROVE NetOf(g)'
    BY DEF NetInv
  <2>1. UNCHANGED localVars /\ ~overlapped /\ S!SnapshotStep(h)
    BY <1>8 DEF SnapshotStep, S!SnapshotStep, S!StopPrev, S!Install, S!Publish
  <2>2. g \in Provided /\ job'[g] = job[g] /\ NetOf(g)
    BY <2>1 DEF NetInv, Provided, localVars
  <2>3. step[h] # S!Idle /\ h = g
    BY <2>1, <2>2 DEF S!SnapshotStep, S!StopPrev, S!Install, S!Publish, S!Idle, NetOf, S!Working
  <2>4. S!Working' \subseteq {g}
    BY <1>0, <2>1, <2>2, <2>3 DEF NetOf, S!Working, S!SnapshotStep, S!StopPrev, S!Install, S!Publish,
                               S!Idle, S!None
  <2>5. job[g].net = "live" =>
            /\ step'[g] = S!Idle \/ step'[g].pc = "stopForClear"
            /\ snapshotRouter' = S!None
    BY <1>0, <2>1, <2>2, <2>3
       DEF NetOf, S!SnapshotStep, S!StopPrev, S!Install, S!Publish, S!Idle, S!None
  <2>6. ASSUME job[g].net = "snapshot"
        PROVE  \/ step'[g] = S!Idle /\ snapshotRouter' # S!None
               \/ step'[g].pc \in {"stopForLoad", "install"}
               \/ step'[g].pc = "publish" /\ step'[g].router # S!None
    <3>1. \/ step[g].pc \in {"stopForLoad", "install"}
          \/ step[g].pc = "publish" /\ step[g].router # S!None
      BY <2>2, <2>3, <2>6 DEF NetOf
    <3>2. CASE S!StopPrev(h)
      BY <1>0, <2>3, <3>1, <3>2 DEF S!StopPrev, S!None
    <3>3. CASE S!Install(h)
      BY <1>0, <2>3, <3>3 DEF S!Install, S!None
    <3>4. CASE S!Publish(h)
      BY <1>0, <2>3, <3>1, <3>4 DEF S!Publish, S!None
    <3>5. QED
      BY <2>1, <3>2, <3>3, <3>4 DEF S!SnapshotStep
  <2>7. QED
    BY <2>2, <2>4, <2>5, <2>6 DEF NetOf, S!Idle, S!None
<1>9. CASE UNCHANGED vars
  BY <1>9, QuietNet DEF vars, localVars, Provided
<1>10. QED
  BY <1>1, <1>2, <1>3, <1>4, <1>5, <1>6, <1>7, <1>8, <1>9 DEF Next

(* The steps of a live replay run without a snapshot and those of a        *)
(* recorded one with it, whatever failed before, while no other load or    *)
(* clear comes in and none ever overlapped (routes_record.go:262-288).     *)
THEOREM ReplayNetworkHolds == Spec => []ReplayNetwork
<1>1. RecTypeOK /\ BusyWaits /\ NetInv /\ OneRouter => ReplayNetwork
  <2> SUFFICES ASSUME RecTypeOK, BusyWaits, NetInv, OneRouter, ~overlapped,
                      NEW h \in Handlers, pc[h] = "replaying"
               PROVE  /\ job[h].net = "live" => ~intercepting
                      /\ job[h].net = "snapshot" => intercepting /\ snapshotRouter \in running
    BY DEF ReplayNetwork
  <2>1. step[h] = S!Idle
    BY DEF BusyWaits
  <2>2. CASE h \notin Provided
    BY <2>2 DEF Provided
  <2>3. CASE h \in Provided
    <3>1. NetOf(h)
      BY <2>3 DEF NetInv
    <3>2. S!Working = {}
      BY <2>1, <3>1 DEF NetOf, S!Working
    <3>3. running = {snapshotRouter} \ {S!None} /\ intercepting = (snapshotRouter # S!None)
      BY <3>2 DEF OneRouter, S!OneRouter
    <3>4. step[h].pc = "idle"
      BY <2>1 DEF S!Idle
    <3>5. /\ job[h].net = "live" => snapshotRouter = S!None
          /\ job[h].net = "snapshot" => snapshotRouter # S!None
      BY <3>1, <3>4 DEF NetOf
    <3>6. snapshotRouter # S!None => snapshotRouter \in running
      BY <3>3
    <3>7. QED
      BY <3>3, <3>5, <3>6
  <2>4. QED
    BY <2>2, <2>3
<1>2. Init => BusyWaits /\ NetInv
  BY DEF Init, S!Init, BusyWaits, NetInv, Provided
<1>3. Spec => []RecTypeOK
  BY InitRecTypeOK, NextRecTypeOK, PTL DEF Spec
<1>4. Spec => []S!TypeOK
  BY TypeCorrect, PTL DEF TypeOK
<1>5. Spec => [](BusyWaits /\ NetInv)
  BY <1>2, <1>3, <1>4, NextBusyWaits, NextNetInv, PTL DEF Spec
<1>6. QED
  BY <1>1, <1>3, <1>5, OneRouterHolds, PTL

-----------------------------------------------------------------------------
(* Replay.                                                                 *)

(* The first of a list that is in F, if one is.                            *)
LEMMA FirstIs ==
  ASSUME NEW order, DOMAIN order \subseteq Int, NEW F, NEW o, NEW i \in DOMAIN order, order[i] \in F,
         \A j \in DOMAIN order : j < i => order[j] \notin F
  PROVE  FirstOf(order, F, o) = order[i]
<1> DEFINE given == {j \in DOMAIN order : order[j] \in F}
<1>1. i \in given /\ (\A j \in given : i <= j) /\ given # {}
  OBVIOUS
<1>2. \A k \in given : (\A j \in given : k <= j) => k = i
  BY <1>1
<1>3. (CHOOSE k \in given : \A j \in given : k <= j) = i
  BY <1>1, <1>2
<1>4. QED
  BY <1>1, <1>3 DEF FirstOf

LEMMA FirstIsNone ==
  ASSUME NEW order, NEW F, NEW o, \A i \in DOMAIN order : order[i] \notin F
  PROVE  FirstOf(order, F, o) = o
BY DEF FirstOf

LEMMA FirstOfOne ==
  ASSUME NEW a, NEW F, NEW o
  PROVE  FirstOf(<<a>>, F, o) = IF a \in F THEN a ELSE o
<1> DEFINE s == <<a>>
<1>1. DOMAIN s = {1} /\ DOMAIN s \subseteq Int /\ s[1] = a
  OBVIOUS
<1> HIDE DEF s
<1>2. CASE a \in F
  BY <1>1, <1>2, FirstIs DEF s
<1>3. CASE a \notin F
  BY <1>1, <1>3, FirstIsNone
<1>4. QED
  BY <1>2, <1>3 DEF s

LEMMA FirstOfFour ==
  ASSUME NEW a, NEW b, NEW c, NEW d, NEW F, NEW o
  PROVE  FirstOf(<<a, b, c, d>>, F, o) =
            IF a \in F THEN a ELSE IF b \in F THEN b ELSE IF c \in F THEN c
            ELSE IF d \in F THEN d ELSE o
<1> DEFINE s == <<a, b, c, d>>
<1>1. /\ DOMAIN s = {1, 2, 3, 4} /\ DOMAIN s \subseteq Int
      /\ s[1] = a /\ s[2] = b /\ s[3] = c /\ s[4] = d
  OBVIOUS
<1> HIDE DEF s
<1>2. ASSUME NEW i \in DOMAIN s, s[i] \in F, \A j \in DOMAIN s : j < i => s[j] \notin F
      PROVE  FirstOf(s, F, o) = s[i]
  BY <1>1, <1>2, FirstIs
<1>3. (\A i \in DOMAIN s : s[i] \notin F) => FirstOf(s, F, o) = o
  BY FirstIsNone
<1>4. QED
  BY <1>1, <1>2, <1>3 DEF s

(* expectDescribe names the condition that expectCondition polls, unless   *)
(* a state or a count is asked of no element (routes_expect.go).           *)
LEMMA DescribedIsPolled ==
  ASSUME NEW F, ~OfNothing(F)
  PROVE  Described(F) = Polled(F)
<1> DEFINE s == <<"text", "textGone", "urlPattern", "value", "checked", "count", "enabled",
                  "hidden">>
           rest == IF HasTarget(F) THEN "visible" ELSE FirstOf(<<"request">>, F, "noConsoleErrors")
           late == FirstOf(<<"checked", "count", "enabled", "hidden">>, F, rest)
<1>1. /\ DOMAIN s = 1 .. 8 /\ DOMAIN s \subseteq Int
      /\ s[1] = "text" /\ s[2] = "textGone" /\ s[3] = "urlPattern" /\ s[4] = "value"
      /\ s[5] = "checked" /\ s[6] = "count" /\ s[7] = "enabled" /\ s[8] = "hidden"
  OBVIOUS
<1>2. Described(F) = FirstOf(s, F, rest)
  BY DEF Described
<1> HIDE DEF s, rest
<1>3. ASSUME NEW i \in DOMAIN s, s[i] \in F, \A j \in DOMAIN s : j < i => s[j] \notin F
      PROVE  FirstOf(s, F, rest) = s[i]
  BY <1>1, <1>3, FirstIs
<1>4. (\A i \in DOMAIN s : s[i] \notin F) => FirstOf(s, F, rest) = rest
  BY FirstIsNone
<1>5. late = IF "checked" \in F THEN "checked" ELSE IF "count" \in F THEN "count"
             ELSE IF "enabled" \in F THEN "enabled" ELSE IF "hidden" \in F THEN "hidden" ELSE rest
  BY FirstOfFour
<1> HIDE DEF late
<1>6. FirstOf(s, F, rest) =
         IF "text" \in F THEN "text" ELSE IF "textGone" \in F THEN "textGone"
         ELSE IF "urlPattern" \in F THEN "urlPattern" ELSE IF "value" \in F THEN "value" ELSE late
  <2>1. CASE F \cap {"text", "textGone", "urlPattern", "value"} # {}
    <3>1. CASE "text" \in F
      BY <1>1, <1>3, <3>1
    <3>2. CASE "text" \notin F /\ "textGone" \in F
      BY <1>1, <1>3, <3>2
    <3>3. CASE "text" \notin F /\ "textGone" \notin F /\ "urlPattern" \in F
      BY <1>1, <1>3, <3>3
    <3>4. CASE "text" \notin F /\ "textGone" \notin F /\ "urlPattern" \notin F /\ "value" \in F
      BY <1>1, <1>3, <3>4
    <3>5. QED
      BY <2>1, <3>1, <3>2, <3>3, <3>4
  <2>2. CASE F \cap {"text", "textGone", "urlPattern", "value"} = {}
    <3>1. \A j \in 1 .. 4 : s[j] \notin F
      BY <1>1, <2>2
    <3>2. CASE "checked" \in F
      BY <1>1, <1>3, <1>5, <2>2, <3>1, <3>2
    <3>3. CASE "checked" \notin F /\ "count" \in F
      BY <1>1, <1>3, <1>5, <2>2, <3>1, <3>3
    <3>4. CASE "checked" \notin F /\ "count" \notin F /\ "enabled" \in F
      BY <1>1, <1>3, <1>5, <2>2, <3>1, <3>4
    <3>5. CASE "checked" \notin F /\ "count" \notin F /\ "enabled" \notin F /\ "hidden" \in F
      BY <1>1, <1>3, <1>5, <2>2, <3>1, <3>5
    <3>6. CASE F \cap {"checked", "count", "enabled", "hidden"} = {}
      BY <1>1, <1>4, <1>5, <2>2, <3>6
    <3>7. QED
      BY <3>2, <3>3, <3>4, <3>5, <3>6
  <2>3. QED
    BY <2>1, <2>2
<1>7. late = IF HasTarget(F)
             THEN FirstOf(<<"checked", "count", "enabled", "hidden">>, F, "visible")
             ELSE FirstOf(<<"request">>, F, "noConsoleErrors")
  <2>1. CASE HasTarget(F)
    BY <2>1 DEF late, rest
  <2>2. CASE ~HasTarget(F)
    BY <1>5, <2>2 DEF rest, OfNothing
  <2>3. QED
    BY <2>1, <2>2
<1>8. Polled(F) = FirstOf(<<"text", "textGone", "urlPattern", "value">>, F, late)
  BY <1>7 DEF Polled
<1>9. QED
  BY <1>2, <1>6, <1>8, FirstOfFour

(* What a recorded checkpoint keeps of its request.                        *)
KeptOf(e) ==
    /\ e.asked \subseteq Fields /\ Accepted(e.asked)
    /\ e.want = RecordedFields(e.asked)
    /\ e.sel = IF "selector" \in e.asked THEN e.at ELSE 0
    /\ ~({"selector", "ref"} \subseteq e.asked)
Reports == [failed : Nat, total : Nat, passed : Nat, healed : SUBSET Nat]

CheckpointInv ==
    /\ events \in Seq(ToSet(events))
    /\ \A i \in DOMAIN events : events[i].op = "expect" => KeptOf(events[i])
    /\ index \in Nat /\ report \in Reports
    /\ phase = "replay" => index \in DOMAIN events

(* Without an element, what is polled is not a state of one.               *)
LEMMA PolledAlone ==
  ASSUME NEW F, ~HasTarget(F), "value" \notin F
  PROVE  Polled(F) \in {"text", "textGone", "urlPattern", "request", "noConsoleErrors"}
<1>1. FirstOf(<<"request">>, F, "noConsoleErrors") \in {"request", "noConsoleErrors"}
  BY FirstOfOne
<1>2. QED
  BY <1>1, FirstOfFour DEF Polled

(* Such a condition holds wherever it is looked for.                       *)
LEMMA ConditionAlone ==
  ASSUME NEW F, ~HasTarget(F), "value" \notin F, NEW p, NEW r, NEW s, NEW t, Condition(p, r, F, s)
  PROVE  Condition(p, r, F, t)
<1>1. Polled(F) \in {"text", "textGone", "urlPattern", "request", "noConsoleErrors"}
  BY PolledAlone
<1>2. CASE Polled(F) = "text"
  BY <1>2 DEF Condition
<1>3. CASE Polled(F) = "textGone"
  BY <1>3 DEF Condition
<1>4. CASE Polled(F) = "urlPattern"
  BY <1>4 DEF Condition
<1>5. CASE Polled(F) = "request"
  BY <1>5 DEF Condition
<1>6. CASE Polled(F) = "noConsoleErrors"
  BY <1>6 DEF Condition
<1>7. QED
  BY <1>1, <1>2, <1>3, <1>4, <1>5, <1>6

(* What a request asks is what its replay looks for, on the element at the *)
(* same selector; of one by ref, what is left without it.                  *)
LEMMA SameCondition ==
  ASSUME NEW e, KeptOf(e), NEW p, NEW r
  PROVE  Condition(p, r, ReplayedFields(e.want), e.sel) <=>
            IF "ref" \in e.asked THEN Condition(p, r, e.asked \ {"ref"}, 0)
            ELSE Condition(p, r, e.asked, e.at)
<1>1. ReplayedFields(e.want) = e.asked \ {"ref"}
  BY DEF KeptOf, RecordedFields, ReplayedFields
<1>2. CASE "ref" \in e.asked
  <2>1. e.sel = 0
    BY <1>2 DEF KeptOf
  <2>2. QED
    BY <1>1, <1>2, <2>1
<1>3. CASE "ref" \notin e.asked
  <2>1. ReplayedFields(e.want) = e.asked
    BY <1>1, <1>3
  <2>2. CASE "selector" \in e.asked
    BY <1>3, <2>1, <2>2 DEF KeptOf
  <2>3. CASE "selector" \notin e.asked
    <3>1. ~HasTarget(e.asked)
      BY <1>3, <2>3 DEF HasTarget
    <3>2. "value" \notin e.asked
      BY <3>1 DEF KeptOf, Accepted
    <3>3. QED
      BY <1>3, <2>1, <3>1, <3>2, ConditionAlone
  <2>4. QED
    BY <2>2, <2>3
<1>4. QED
  BY <1>2, <1>3

LEMMA AppendOne ==
  ASSUME NEW s, s \in Seq(ToSet(s)), NEW e
  PROVE  /\ Append(s, e) \in Seq(ToSet(Append(s, e)))
         /\ \A i \in DOMAIN Append(s, e) :
               Append(s, e)[i] = e \/ (i \in DOMAIN s /\ Append(s, e)[i] = s[i])
<1> DEFINE all == ToSet(s) \cup {e}
<1>1. s \in Seq(all) /\ e \in all
  BY DEF ToSet
<1> HIDE DEF all
<1>2. /\ Append(s, e) \in Seq(all) /\ Len(s) \in Nat /\ DOMAIN s = 1 .. Len(s)
      /\ DOMAIN Append(s, e) = 1 .. Len(s) + 1 /\ Len(Append(s, e)) = Len(s) + 1
  BY <1>1
<1>3. \A i \in 1 .. Len(s) + 1 : Append(s, e)[i] = IF i = Len(s) + 1 THEN e ELSE s[i]
  BY <1>1
<1>4. \A i \in 1 .. Len(s) + 1 : Append(s, e)[i] \in ToSet(Append(s, e))
  BY <1>2 DEF ToSet
<1>5. Append(s, e) \in Seq(ToSet(Append(s, e)))
  BY <1>2, <1>4
<1>6. QED
  BY <1>2, <1>3, <1>5

(* Recording an action, none of which is a checkpoint but those of Expect. *)
LEMMA RecordKeeps ==
  ASSUME CheckpointInv, NEW e, NEW nodes, NEW loses, Record(e, nodes, loses),
         e.op = "expect" => KeptOf(e), phase' = phase, UNCHANGED replayVars,
         phase = "live"
  PROVE  CheckpointInv'
<1>1. events' = Append(events, e) /\ index' = index /\ report' = report /\ phase' # "replay"
  BY DEF Record, replayVars
<1>2. /\ events' \in Seq(ToSet(events'))
      /\ \A i \in DOMAIN events' : events'[i] = e \/ (i \in DOMAIN events /\ events'[i] = events[i])
  BY <1>1, AppendOne DEF CheckpointInv
<1>3. \A i \in DOMAIN events' : events'[i].op = "expect" => KeptOf(events'[i])
  BY <1>2 DEF CheckpointInv
<1>4. QED
  BY <1>1, <1>2, <1>3 DEF CheckpointInv, KeptOf

LEMMA SameKeeps ==
  ASSUME CheckpointInv, UNCHANGED <<events, index, report>>, phase' = "replay" => phase = "replay"
  PROVE  CheckpointInv'
BY DEF CheckpointInv, KeptOf

(* An action on an element is not a checkpoint.                            *)
LEMMA ElementActionKeeps ==
  ASSUME CheckpointInv, NEW op, op # "expect", NEW s, NEW arg, NEW by,
         NEW number, ElementAction(op, s, arg, by, number)
  PROVE  CheckpointInv'
<1> DEFINE e == [Event(op) EXCEPT !.sel = s, !.arg = arg, !.by = by, !.number = number]
           q == Effect(page, s, e)
           own == LiveFingerprint(page, s)
           fp == IF op \in RawOps THEN NoPrint ELSE LiveFingerprint(q, s)
           kept == [e EXCEPT !.by = "value", !.fp = fp, !.idx = LiveIndex(q, s), !.own = own]
           loses == \/ op \in ElementOps /\ (fp # own \/ Mistakable(page, s, kept.idx))
                    \/ op \in RawOps /\ Displaced(page, s)
                    \/ op = "select" /\ Matched("value", arg) # Matched(by, arg)
<1>1. e.op = op
  BY DEF Event
<1>2. kept.op = op
  BY DEF Event
<1>3. phase = "live" /\ phase' = phase /\ UNCHANGED replayVars
  BY DEF ElementAction, Recording
<1>4. CASE Possible(page, s, e)
  <2>1. Record(kept, <<Resolve(page, s)>>, loses)
    BY <1>4 DEF ElementAction
  <2> HIDE DEF kept, loses
  <2>2. QED
    BY <1>2, <1>3, <2>1, RecordKeeps
<1>5. CASE ~Possible(page, s, e)
  <2>1. UNCHANGED events
    BY <1>5 DEF ElementAction
  <2>2. QED
    BY <1>3, <2>1, SameKeeps DEF replayVars
<1>6. QED
  BY <1>4, <1>5

LEMMA FillKeeps ==
  ASSUME CheckpointInv, NEW sels, NEW byRef, NEW submit, Fill(sels, byRef, submit)
  PROVE  CheckpointInv'
<1>1. phase = "live" /\ phase' = phase /\ UNCHANGED replayVars
  BY DEF Fill, Recording
<1>2. PICK kept, nodes, loses : Record([Event("fill") EXCEPT !.fields = kept], nodes, loses)
  BY DEF Fill
<1> DEFINE e == [Event("fill") EXCEPT !.fields = kept]
<1>3. e.op = "fill"
  BY DEF Event
<1>4. Record(e, nodes, loses)
  BY <1>2
<1> HIDE DEF e
<1>5. QED
  BY <1>1, <1>3, <1>4, RecordKeeps

LEMMA PageActionKeeps ==
  ASSUME CheckpointInv, NEW e, e.op # "expect", PageAction(e)
  PROVE  CheckpointInv'
<1>1. phase = "live" /\ phase' = phase /\ UNCHANGED replayVars
  BY DEF PageAction, Recording
<1>2. PICK loses : Record(e, <<>>, loses)
  BY DEF PageAction
<1>3. QED
  BY <1>1, <1>2, RecordKeeps

LEMMA ExpectKeeps ==
  ASSUME CheckpointInv, NEW F \in Asked, NEW s, NEW errors, Expect(F, s, errors)
  PROVE  CheckpointInv'
<1> DEFINE at == IF "selector" \in F THEN s ELSE 0
           e == [Event("expect") EXCEPT !.want = RecordedFields(F), !.asked = F, !.at = s,
                                        !.sel = at]
           loses == "ref" \in F \/ ~Condition(page, ring, F, s) \/ errors # {}
<1>1. phase = "live" /\ phase' = phase /\ UNCHANGED replayVars
  BY DEF Expect, Recording, replayVars
<1>2. /\ e.want = RecordedFields(F) /\ e.asked = F /\ e.at = s
      /\ e.sel = at
  <2> HIDE DEF at
  <2>1. QED
    BY DEF Event
<1>3. F \subseteq Fields /\ Accepted(F) /\ ~({"selector", "ref"} \subseteq F)
  BY ReplayBounds
<1>4. Record(e, <<>>, loses)
  BY DEF Expect
<1>5. KeptOf(e)
  <2> HIDE DEF e
  <2>1. QED
    BY <1>2, <1>3 DEF KeptOf
<1> HIDE DEF e, loses
<1>6. QED
  BY <1>1, <1>4, <1>5, RecordKeeps

LEMMA LiveKeeps ==
  ASSUME CheckpointInv, LiveStep
  PROVE  CheckpointInv'
<1>1. ASSUME NEW s \in Positions, HandleClick(s) PROVE CheckpointInv'
  BY <1>1, ElementActionKeeps DEF HandleClick
<1>2. ASSUME NEW s \in Positions, HandleHover(s) PROVE CheckpointInv'
  BY <1>2, ElementActionKeeps DEF HandleHover
<1>3. ASSUME NEW s \in Positions, HandleType(s) PROVE CheckpointInv'
  BY <1>3, ElementActionKeeps DEF HandleType
<1>4. ASSUME NEW s \in Positions, HandleMouseDoubleclick(s) PROVE CheckpointInv'
  BY <1>4, ElementActionKeeps DEF HandleMouseDoubleclick
<1>5. ASSUME NEW s \in Positions, NEW c \in Specs, HandleSelect(s, c) PROVE CheckpointInv'
  BY <1>5, ElementActionKeeps DEF HandleSelect
<1>6. ASSUME NEW s \in Positions, NEW on \in {"on", "off"}, HandleCheck(s, on)
      PROVE  CheckpointInv'
  BY <1>6, ElementActionKeeps DEF HandleCheck
<1>7. ASSUME NEW s \in Positions, NEW F \in Asked, NEW errors, Expect(F, s, errors)
      PROVE  CheckpointInv'
  BY <1>7, ExpectKeeps
<1>8. ASSUME NEW sels \in Fills, NEW byRef \in BOOLEAN, NEW submit \in BOOLEAN,
             Fill(sels, byRef, submit)
      PROVE  CheckpointInv'
  BY <1>8, FillKeeps
<1>9. ASSUME NEW url \in {Url0, Url1}, HandleNavigate(url) PROVE CheckpointInv'
  <2> DEFINE e == [Event("navigate") EXCEPT !.arg = url]
  <2>1. e.op # "expect"
    BY DEF Event
  <2>2. PageAction(e)
    BY <1>9 DEF HandleNavigate
  <2> HIDE DEF e
  <2>3. QED
    BY <2>1, <2>2, PageActionKeeps
<1>10. ASSUME NEW d \in {"down", "up", "top", "bottom"}, NEW px \in Pixels, HandleScroll(d, px)
       PROVE  CheckpointInv'
  <2> DEFINE e == [Event("scroll") EXCEPT !.by = d, !.px = px]
  <2>1. e.op # "expect"
    BY DEF Event
  <2>2. PageAction(e)
    BY <1>10 DEF HandleScroll
  <2> HIDE DEF e
  <2>3. QED
    BY <2>1, <2>2, PageActionKeeps
<1>11. ASSUME NEW op, op # "expect", PageAction(Event(op)) PROVE CheckpointInv'
  <2>1. Event(op).op # "expect"
    BY <1>11 DEF Event
  <2>2. QED
    BY <1>11, <2>1, PageActionKeeps
<1>12. CASE HandlePress
  BY <1>11, <1>12 DEF HandlePress
<1>13. CASE HandleReload
  BY <1>11, <1>13 DEF HandleReload
<1>14. CASE HandleBack
  BY <1>11, <1>14 DEF HandleBack
<1>15. CASE HandleForward
  BY <1>11, <1>15 DEF HandleForward
<1>16. CASE HandleMouseMove
  BY <1>11, <1>16 DEF HandleMouseMove
<1>17. CASE Unsupported
  BY <1>11, <1>17 DEF Unsupported
<1>18. QED
  BY <1>1, <1>2, <1>3, <1>4, <1>5, <1>6, <1>7, <1>8, <1>9, <1>10,
     <1>12, <1>13, <1>14, <1>15, <1>16, <1>17 DEF LiveStep

LEMMA PassKeeps ==
  ASSUME CheckpointInv, phase = "replay", NEW q, NEW nodes, Pass(q, nodes), report' \in Reports
  PROVE  CheckpointInv'
<1>1. /\ events' = events /\ index' = index + 1
      /\ phase' = IF index = Len(events) THEN "done" ELSE phase
  BY DEF Pass, eventVars
<1>2. events \in Seq(ToSet(events)) /\ index \in DOMAIN events
  BY DEF CheckpointInv
<1>3. Len(events) \in Nat /\ DOMAIN events = 1 .. Len(events)
  BY <1>2
<1>4. phase' = "replay" => index' \in DOMAIN events'
  BY <1>1, <1>2, <1>3
<1>5. index' \in Nat
  BY <1>1, <1>2, <1>3
<1>6. QED
  BY <1>1, <1>4, <1>5 DEF CheckpointInv, KeptOf

LEMMA FailKeeps ==
  ASSUME CheckpointInv, phase = "replay", NEW q, Fail(q)
  PROVE  CheckpointInv' /\ report'.passed = report.passed
<1>1. /\ events' = events /\ index' = index /\ phase' = "done"
      /\ report' = [report EXCEPT !.failed = index,
                                  !.total = IF Cur.op = "expect" THEN @ + 1 ELSE @]
  BY DEF Fail, eventVars
<1>2. report \in Reports /\ index \in Nat
  BY DEF CheckpointInv
<1>3. \A n \in Nat : n + 1 \in Nat
  OBVIOUS
<1>4. report' \in Reports /\ report'.passed = report.passed
  BY <1>1, <1>2, <1>3, Zenon DEF Reports
<1>5. QED
  BY <1>1, <1>4 DEF CheckpointInv, KeptOf

LEMMA ResolveKeeps ==
  ASSUME CheckpointInv, ResolveTarget
  PROVE  CheckpointInv'
<1>1. phase = "replay"
  BY DEF ResolveTarget, NextIs
<1>2. CASE Fail(page)
  BY <1>1, <1>2, FailKeeps
<1>3. CASE ~Fail(page)
  <2>1. PICK to : /\ report' = [report EXCEPT !.healed = IF to = Cur.sel THEN @ ELSE @ \cup {index}]
                  /\ UNCHANGED <<phase, eventVars, index>>
    BY <1>3 DEF ResolveTarget
  <2>2. report \in Reports /\ index \in Nat
    BY DEF CheckpointInv
  <2>3. report' \in Reports
    BY <2>1, <2>2 DEF Reports
  <2>4. events' = events /\ index' = index /\ phase' = phase
    BY <2>1 DEF eventVars
  <2>5. QED
    BY <2>3, <2>4 DEF CheckpointInv, KeptOf
<1>4. QED
  BY <1>2, <1>3

LEMMA PerformKeeps ==
  ASSUME CheckpointInv, phase = "replay", NEW s, PerformAt(s)
  PROVE  CheckpointInv'
<1> DEFINE q == Effect(page, s, Cur)
<1>1. CASE Possible(page, s, Cur)
  <2>1. Pass(q, <<Resolve(page, s)>>) /\ report' = report
    BY <1>1 DEF PerformAt
  <2>2. QED
    BY <2>1, PassKeeps DEF CheckpointInv
<1>2. CASE ~Possible(page, s, Cur)
  BY <1>2, FailKeeps DEF PerformAt
<1>3. QED
  BY <1>1, <1>2

LEMMA ReplayFillKeeps ==
  ASSUME CheckpointInv, ReplayFill
  PROVE  CheckpointInv'
<1>1. phase = "replay"
  BY DEF ReplayFill, NextIs
<1>2. ASSUME NEW q, Fail(q) PROVE CheckpointInv'
  BY <1>1, <1>2, FailKeeps
<1>3. ASSUME NEW q, NEW nodes, Pass(q, nodes), UNCHANGED report PROVE CheckpointInv'
  BY <1>1, <1>3, PassKeeps DEF CheckpointInv
<1>4. \E q, nodes : Fail(q) \/ (Pass(q, nodes) /\ UNCHANGED report)
  BY DEF ReplayFill
<1>5. QED
  BY <1>2, <1>3, <1>4

LEMMA ReplayPageKeeps ==
  ASSUME CheckpointInv, ReplayPage
  PROVE  CheckpointInv'
<1>1. phase = "replay"
  BY DEF ReplayPage, NextIs
<1>2. CASE Fail(page)
  BY <1>1, <1>2, FailKeeps
<1>3. CASE ~Fail(page)
  <2>1. PICK q : Pass(q, <<>>) /\ report' = report
    BY <1>3 DEF ReplayPage
  <2>2. QED
    BY <1>1, <2>1, PassKeeps DEF CheckpointInv
<1>4. QED
  BY <1>2, <1>3

(* A checkpoint passes exactly if what its replay looks for holds.         *)
LEMMA ReplayExpectKeeps ==
  ASSUME CheckpointInv, ReplayExpect
  PROVE  /\ CheckpointInv'
         /\ report'.passed > report.passed
               <=> Condition(page, ring, ReplayedFields(Cur.want), Cur.sel)
<1> DEFINE holds == Condition(page, ring, ReplayedFields(Cur.want), Cur.sel)
<1>1. phase = "replay" /\ report \in Reports
  BY DEF ReplayExpect, NextIs, CheckpointInv
<1>2. report.passed \in Nat /\ ~(report.passed > report.passed) /\ report.passed + 1 > report.passed
  BY <1>1 DEF Reports
<1>3. CASE ~holds /\ Fail(page)
  BY <1>1, <1>2, <1>3, FailKeeps
<1>4. CASE holds /\ Pass(page, <<>>)
           /\ report' = [report EXCEPT !.total = @ + 1, !.passed = @ + 1]
  <2>1. \A n \in Nat : n + 1 \in Nat
    OBVIOUS
  <2>2. report' \in Reports /\ report'.passed = report.passed + 1
    BY <1>1, <1>4, <2>1, Zenon DEF Reports
  <2>3. CheckpointInv'
    BY <1>1, <1>4, <2>2, PassKeeps
  <2>4. QED
    BY <1>2, <1>4, <2>2, <2>3
<1>5. QED
  BY <1>3, <1>4 DEF ReplayExpect

LEMMA StartKeeps ==
  ASSUME CheckpointInv, NEW p, Start(p)
  PROVE  CheckpointInv'
<1>1. events # <<>> /\ events' = events /\ index' = 1 /\ report' = report
  BY DEF Start, eventVars
<1>2. events \in Seq(ToSet(events))
  BY DEF CheckpointInv
<1>3. 1 \in DOMAIN events
  BY <1>1, <1>2
<1>4. QED
  BY <1>1, <1>3 DEF CheckpointInv, KeptOf

LEMMA AppearKeeps ==
  ASSUME CheckpointInv, NEW n, Appear(n)
  PROVE  CheckpointInv' /\ report' = report
<1>1. UNCHANGED <<events, index, report>> /\ phase' = phase
  BY DEF Appear, eventVars
<1>2. QED
  BY <1>1, SameKeeps

LEMMA StepKeeps ==
  ASSUME CheckpointInv, [ReplayNext]_allVars
  PROVE  CheckpointInv'
<1>1. CASE LiveStep
  BY <1>1, LiveKeeps
<1>2. ASSUME NEW p, Start(p) PROVE CheckpointInv'
  BY <1>2, StartKeeps
<1>3. CASE ResolveTarget
  BY <1>3, ResolveKeeps
<1>4. CASE Perform
  BY <1>4, PerformKeeps DEF Perform, NextIs
<1>5. CASE PerformRaw
  BY <1>5, PerformKeeps DEF PerformRaw, NextIs
<1>6. CASE ReplayFill
  BY <1>6, ReplayFillKeeps
<1>7. CASE ReplayPage
  BY <1>7, ReplayPageKeeps
<1>8. CASE ReplayExpect
  BY <1>8, ReplayExpectKeeps
<1>9. ASSUME NEW n \in Late, Appear(n) PROVE CheckpointInv'
  BY <1>9, AppearKeeps
<1>10. CASE LogError
  BY <1>10, SameKeeps DEF LogError, eventVars
<1>11. CASE UNCHANGED allVars
  BY <1>11, SameKeeps DEF allVars, eventVars, replayVars
<1>12. QED
  BY <1>1, <1>2, <1>3, <1>4, <1>5, <1>6, <1>7, <1>8, <1>9, <1>10, <1>11 DEF ReplayNext, ReplayStep

LEMMA InitKeeps ==
  ASSUME ReplayInit
  PROVE  CheckpointInv
<1>1. <<>> \in Seq(ToSet(<<>>)) /\ DOMAIN <<>> = {}
  OBVIOUS
<1>2. NoReport \in Reports
  BY DEF NoReport, Reports
<1>3. QED
  BY <1>1, <1>2 DEF ReplayInit, CheckpointInv

Live == Recording /\ phase' = phase

(* The live steps are those of a recording.                                *)
LEMMA LiveRecords == LiveStep => Live
<1>2. ASSUME NEW e, PageAction(e) PROVE Live
  BY <1>2 DEF Live, PageAction
<1>3. ASSUME NEW s
      PROVE  /\ (HandleClick(s) => Live) /\ (HandleHover(s) => Live)
             /\ (HandleType(s) => Live) /\ (HandleMouseDoubleclick(s) => Live)
             /\ \A c : HandleSelect(s, c) => Live
             /\ \A on : HandleCheck(s, on) => Live
  <2>1. HandleClick(s) => Live
    BY DEF Live, ElementAction, HandleClick
  <2>6. HandleHover(s) => Live
    BY DEF Live, ElementAction, HandleHover
  <2>7. HandleType(s) => Live
    BY DEF Live, ElementAction, HandleType
  <2>2. HandleMouseDoubleclick(s) => Live
    BY DEF Live, ElementAction, HandleMouseDoubleclick
  <2>3. \A c : HandleSelect(s, c) => Live
    BY DEF Live, ElementAction, HandleSelect
  <2>4. \A on : HandleCheck(s, on) => Live
    BY DEF Live, ElementAction, HandleCheck
  <2>5. QED
    BY <2>1, <2>2, <2>3, <2>4, <2>6, <2>7
<1>4. ASSUME NEW F, NEW s, NEW errors, Expect(F, s, errors) PROVE Live
  BY <1>4 DEF Live, Expect
<1>5. ASSUME NEW sels, NEW byRef, NEW submit, Fill(sels, byRef, submit) PROVE Live
  BY <1>5 DEF Live, Fill
<1>6. ASSUME \/ \E url \in {Url0, Url1} : HandleNavigate(url)
             \/ \E d \in {"down", "up", "top", "bottom"}, px \in Pixels : HandleScroll(d, px)
             \/ HandlePress \/ HandleReload \/ HandleBack \/ HandleForward \/ HandleMouseMove
             \/ Unsupported
      PROVE  Live
  <2>1. CASE \E url \in {Url0, Url1} : HandleNavigate(url)
    BY <1>2, <2>1 DEF HandleNavigate
  <2>2. CASE \E d \in {"down", "up", "top", "bottom"}, px \in Pixels : HandleScroll(d, px)
    BY <1>2, <2>2 DEF HandleScroll
  <2>3. CASE HandlePress \/ HandleReload \/ HandleBack \/ HandleForward \/ HandleMouseMove
             \/ Unsupported
    BY <1>2, <2>3 DEF HandlePress, HandleReload, HandleBack, HandleForward, HandleMouseMove,
       Unsupported
  <2>4. QED
    BY <1>6, <2>1, <2>2, <2>3
<1>7. CASE \E s \in Positions :
             \E F \in Asked, errors \in {{}, {"error"}} : (HasTarget(F) \/ s = 1) /\ Expect(F, s, errors)
  BY <1>4, <1>7
<1>8. CASE \E sels \in Fills, byRef, submit \in BOOLEAN : Fill(sels, byRef, submit)
  BY <1>5, <1>8
<1>9. CASE \E s \in Positions : \/ HandleClick(s) \/ HandleHover(s) \/ HandleType(s)
                                \/ HandleMouseDoubleclick(s) \/ \E c \in Specs : HandleSelect(s, c)
                                \/ \E on \in {"on", "off"} : HandleCheck(s, on)
  BY <1>3, <1>9
<1>10. QED
  BY <1>6, <1>7, <1>8, <1>9, Zenon DEF LiveStep

(* No other step takes the replay past a checkpoint.                       *)
LEMMA OnlyExpectPasses ==
  ASSUME CheckpointInv, [ReplayNext]_allVars, phase = "replay", Cur.op = "expect",
         phase' # phase \/ index' # index
  PROVE  report'.passed > report.passed <=> Condition(page, ring, ReplayedFields(Cur.want), Cur.sel)
<1>1. CASE LiveStep
  <2>1. ~Recording
    BY DEF Recording
  <2>2. QED
    BY <1>1, <2>1, LiveRecords DEF Live
<1>2. ASSUME NEW p PROVE ~Start(p)
  BY DEF Start
<1>3. ~ResolveTarget /\ ~Perform /\ ~PerformRaw /\ ~ReplayFill /\ ~ReplayPage
  BY DEF ResolveTarget, Perform, PerformRaw, ReplayFill, ReplayPage, NextIs, ElementOps,
     RawOps, PageOps
<1>4. CASE ReplayExpect
  BY <1>4, ReplayExpectKeeps
<1>5. ASSUME NEW n \in Late PROVE ~Appear(n)
  BY DEF Appear
<1>6. ~LogError
  BY DEF LogError
<1>7. ~UNCHANGED allVars
  BY DEF allVars, replayVars
<1>8. QED
  BY <1>1, <1>2, <1>3, <1>4, <1>5, <1>6, <1>7 DEF ReplayNext, ReplayStep

LEMMA CheckpointStep ==
  ASSUME CheckpointInv, [ReplayNext]_allVars, phase = "replay",
         events[index].op = "expect", phase' # phase \/ index' # index
  PROVE  CheckpointAsserts(events[index], report'.passed > report.passed)
<1> DEFINE e == events[index]
           passed == report'.passed > report.passed
<1>1. KeptOf(e)
  BY DEF CheckpointInv
<1>2. passed <=> Condition(page, ring, ReplayedFields(e.want), e.sel)
  BY OnlyExpectPasses DEF Cur
<1> HIDE DEF e, passed
<1>3. passed <=> IF "ref" \in e.asked THEN Condition(page, ring, e.asked \ {"ref"}, 0)
                 ELSE Condition(page, ring, e.asked, e.at)
  BY <1>1, <1>2, SameCondition
<1>4. ~OfNothing(e.want) => Described(e.want) = Polled(e.want)
  BY DescribedIsPolled
<1>5. CheckpointAsserts(e, passed)
  BY <1>3, <1>4 DEF CheckpointAsserts
<1>6. QED
  BY <1>5 DEF e, passed

(* A replayed checkpoint passes exactly when the condition its recorded    *)
(* request asked for holds, on the element it was about - for a request by *)
(* ref, what is left of it without - and one that fails is reported as the *)
(* condition that was polled (recordExpect, replayExpect, expectDescribe). *)
THEOREM CheckpointsKeptHolds == ReplaySpec => CheckpointsKept
<1>1. ReplayInit => CheckpointInv
  BY InitKeeps
<1>2. CheckpointInv /\ [ReplayNext]_allVars => CheckpointInv'
  BY StepKeeps
<1>3. CheckpointInv /\ [ReplayNext]_allVars
         => [phase = "replay" /\ events[index].op = "expect" /\ <<phase, index>>' # <<phase, index>>
               => CheckpointAsserts(events[index], report'.passed > report.passed)]_allVars
  BY CheckpointStep
<1>4. QED
  BY <1>1, <1>2, <1>3, PTL DEF ReplaySpec, CheckpointsKept

-----------------------------------------------------------------------------

(* A replay reproduces its recording.  A page is compared with the page it  *)
(* becomes once it is rendered: what a handler does commutes with          *)
(* rendering, as long as it finds the same element.  A recording is then   *)
(* remembered as the rendered pages its events were performed on (Trace),  *)
(* and a replay that follows it stands on one of them (AtEvent).           *)

(* A page of the model, and one that is rendered.                          *)
PageFields == {"trail", "here", "base", "order", "out", "val", "focus", "scroll", "sent"}

IsPage(p) ==
    /\ p = [f \in PageFields |-> p[f]]
    /\ p.order \in [Positions -> Nodes] /\ p.base \in [Positions -> Nodes]
    /\ p.out \subseteq Late /\ p.sent \in Nat
    /\ p.val = [n \in Nodes |-> p.val[n]]

Still(p) == IsPage(p) /\ p.out = {}

(* What a handler does to a page does not depend on what is rendered.      *)
Commutes(q, qs, p) == IsPage(q) /\ q.out = p.out /\ Shown(q) = qs

LEMMA ShownStill ==
  ASSUME NEW p, IsPage(p)
  PROVE  /\ Still(Shown(p)) /\ (p.out = {} => Shown(p) = p)
         /\ \A f \in PageFields \ {"out"} : Shown(p)[f] = p[f]
BY DEF IsPage, Still, Shown, PageFields

LEMMA OfShown ==
  ASSUME NEW p, IsPage(p)
  PROVE  /\ Shown(p).val = p.val /\ Shown(p).order = p.order /\ Shown(p).focus = p.focus
         /\ Shown(p).sent = p.sent /\ Shown(p).scroll = p.scroll /\ Shown(p).base = p.base
         /\ Shown(p).trail = p.trail /\ Shown(p).here = p.here
         /\ p = [Shown(p) EXCEPT !.out = p.out]
BY DEF IsPage, Shown, PageFields

LEMMA LoadedPage ==
  ASSUME NEW trail, NEW here, NEW order \in [Positions -> Nodes]
  PROVE  IsPage(Loaded(trail, here, order))
BY PageAssumption DEF IsPage, Loaded, PageFields

LEMMA FocusPage ==
  ASSUME NEW p, IsPage(p), NEW n
  PROVE  /\ Commutes([p EXCEPT !.focus = n], [Shown(p) EXCEPT !.focus = n], p)
         /\ [p EXCEPT !.focus = n].val = p.val /\ [p EXCEPT !.focus = n].order = p.order
         /\ [p EXCEPT !.focus = n].sent = p.sent
BY DEF IsPage, Shown, PageFields, Commutes

LEMMA ValPage ==
  ASSUME NEW p, IsPage(p), NEW n, NEW x
  PROVE  Commutes([p EXCEPT !.val[n] = x], [Shown(p) EXCEPT !.val[n] = x], p)
BY DEF IsPage, Shown, PageFields, Commutes

LEMMA SentPage ==
  ASSUME NEW p, IsPage(p)
  PROVE  Commutes([p EXCEPT !.sent = @ + 1], [Shown(p) EXCEPT !.sent = @ + 1], p)
<1>1. p.sent + 1 \in Nat
  BY DEF IsPage
<1>2. QED
  BY <1>1 DEF IsPage, Shown, PageFields, Commutes

LEMMA OrderPage ==
  ASSUME NEW p, IsPage(p), NEW o \in [Positions -> Nodes]
  PROVE  Commutes([p EXCEPT !.order = o], [Shown(p) EXCEPT !.order = o], p)
BY DEF IsPage, Shown, PageFields, Commutes

LEMMA ScrollPage ==
  ASSUME NEW p, IsPage(p), NEW y
  PROVE  Commutes([p EXCEPT !.scroll = y], [Shown(p) EXCEPT !.scroll = y], p)
BY DEF IsPage, Shown, PageFields, Commutes

(* The order after the first element was moved to the end.                 *)
LEMMA Rotated ==
  ASSUME NEW o \in [Positions -> Nodes], Positions # {}
  PROVE  LET r == Append(Tail(o), Head(o)) IN
         /\ r \in [Positions -> Nodes]
         /\ \A s \in Positions : r[s] = IF s = Len(Order) THEN o[1] ELSE o[s + 1]
<1>1. Positions = 1 .. Len(Order) /\ Len(Order) \in Nat
  <2> DEFINE k == Len(Order)
  <2>1. k \in Nat /\ Order \in [1 .. k -> Nodes]
    BY PageAssumption
  <2> HIDE DEF k
  <2>2. DOMAIN Order = 1 .. k
    BY <2>1
  <2>3. QED
    BY <2>1, <2>2 DEF k, Positions
<1>2. o \in Seq(Nodes) /\ Len(o) = Len(Order) /\ Len(o) >= 1
  <2> DEFINE k == Len(Order)
  <2>1. k \in Nat /\ k >= 1 /\ o \in [1 .. k -> Nodes]
    BY <1>1
  <2> HIDE DEF k
  <2>2. o \in Seq(Nodes) /\ Len(o) = k
    BY <2>1
  <2>3. QED
    BY <2>1, <2>2 DEF k
<1>3. Tail(o) \in Seq(Nodes) /\ Len(Tail(o)) = Len(Order) - 1 /\ Head(o) = o[1] /\ o[1] \in Nodes
  BY <1>1, <1>2
<1>4. \A s \in 1 .. Len(Order) - 1 : Tail(o)[s] = o[s + 1]
  BY <1>1, <1>2
<1> DEFINE k == Len(Order)
           T == Tail(o)
           x == Head(o)
           r == Append(T, x)
<1>5. k \in Nat /\ k >= 1 /\ T \in Seq(Nodes) /\ Len(T) = k - 1 /\ x \in Nodes
  BY <1>1, <1>2, <1>3
<1> HIDE DEF k, T, x
<1>6. r \in Seq(Nodes) /\ Len(r) = k
  BY <1>5, AppendProperties
<1>7. \A s \in 1 .. k : r[s] = IF s = k THEN x ELSE T[s]
  <2>1. r[Len(T) + 1] = x /\ \A s \in 1 .. Len(T) : r[s] = T[s]
    BY <1>5, AppendProperties
  <2>2. QED
    BY <1>5, <2>1
<1>8. r \in [1 .. k -> Nodes]
  <2> HIDE DEF r
  <2>1. QED
    BY <1>5, <1>6
<1>9. r \in [Positions -> Nodes]
  BY <1>1, <1>8 DEF k
<1>10. ASSUME NEW s \in Positions PROVE r[s] = IF s = Len(Order) THEN o[1] ELSE o[s + 1]
  <2>1. s \in 1 .. k /\ k = Len(Order)
    BY <1>1 DEF k
  <2>2. x = o[1] /\ (s # k => T[s] = o[s + 1])
    BY <1>3, <1>4, <2>1, <1>5 DEF T, x
  <2> HIDE DEF r
  <2>3. QED
    BY <1>7, <2>1, <2>2
<1>11. QED
  BY <1>9, <1>10 DEF T, x

LEMMA CommutesTwice ==
  ASSUME NEW p, NEW q, NEW r, NEW qs, NEW rs, Commutes(q, qs, p), Commutes(r, rs, q)
  PROVE  Commutes(r, rs, p)
BY DEF Commutes

LEMMA SamePage == ASSUME NEW p, IsPage(p) PROVE Commutes(p, Shown(p), p)
BY DEF Commutes

LEMMA ClickPage ==
  ASSUME NEW p, IsPage(p), NEW n \in Nodes, Positions # {}
  PROVE  Commutes(Click(p, n), Click(Shown(p), n), p)
<1> DEFINE q == [p EXCEPT !.focus = n]
           qs == [Shown(p) EXCEPT !.focus = n]
<1>1. Commutes(q, qs, p)
  BY FocusPage
<1>2. IsPage(q) /\ Shown(q) = qs
  BY <1>1 DEF Commutes
<1> HIDE DEF q, qs
<1>3. qs.val = q.val /\ qs.order = q.order /\ qs.sent = q.sent
  BY <1>2, OfShown
<1>4. CASE n \in Disabled
  BY <1>4, SamePage DEF Click
<1>5. CASE n \notin Disabled
  <2>1. CASE Kind[n] = "check"
    <3> DEFINE x == IF q.val[n] = "on" THEN "off" ELSE "on"
    <3>1. Click(p, n) = [q EXCEPT !.val[n] = x]
      BY <1>5, <2>1 DEF Click, q
    <3>2. Click(Shown(p), n) = [qs EXCEPT !.val[n] = x]
      BY <1>3, <1>5, <2>1 DEF Click, qs
    <3> HIDE DEF x
    <3>3. Commutes([q EXCEPT !.val[n] = x], [qs EXCEPT !.val[n] = x], q)
      BY <1>2, ValPage
    <3>4. QED
      BY <1>1, <3>1, <3>2, <3>3, CommutesTwice
  <2>2. CASE Kind[n] = "toggle"
    <3> DEFINE x == IF q.val[n] = "up" THEN "down" ELSE "up"
    <3>1. Click(p, n) = [q EXCEPT !.val[n] = x]
      BY <1>5, <2>2 DEF Click, q
    <3>2. Click(Shown(p), n) = [qs EXCEPT !.val[n] = x]
      BY <1>3, <1>5, <2>2 DEF Click, qs
    <3> HIDE DEF x
    <3>3. Commutes([q EXCEPT !.val[n] = x], [qs EXCEPT !.val[n] = x], q)
      BY <1>2, ValPage
    <3>4. QED
      BY <1>1, <3>1, <3>2, <3>3, CommutesTwice
  <2>3. CASE Kind[n] = "sort"
    <3> DEFINE o == Append(Tail(q.order), Head(q.order))
    <3>1. o \in [Positions -> Nodes]
      BY <1>2, Rotated DEF IsPage
    <3>2. Click(p, n) = [q EXCEPT !.order = o]
      BY <1>5, <2>3 DEF Click, q
    <3>3. Click(Shown(p), n) = [qs EXCEPT !.order = o]
      BY <1>3, <1>5, <2>3 DEF Click, qs
    <3> HIDE DEF o
    <3>4. QED
      BY <1>1, <1>2, <3>1, <3>2, <3>3, OrderPage, CommutesTwice
  <2>4. CASE Kind[n] = "submit"
    <3>1. Click(p, n) = [q EXCEPT !.sent = @ + 1]
      BY <1>5, <2>4 DEF Click, q
    <3>2. Click(Shown(p), n) = [qs EXCEPT !.sent = @ + 1]
      BY <1>5, <2>4 DEF Click, qs
    <3>3. QED
      BY <1>1, <1>2, <3>1, <3>2, SentPage, CommutesTwice
  <2>5. CASE Kind[n] \notin {"check", "toggle", "sort", "submit"}
    <3>1. Click(p, n) = q /\ Click(Shown(p), n) = qs
      BY <1>5, <2>5 DEF Click, q, qs
    <3>2. QED
      BY <1>1, <3>1
  <2>6. QED
    BY <2>1, <2>2, <2>3, <2>4, <2>5
<1>6. QED
  BY <1>4, <1>5

LEMMA TwoFieldsPage ==
  ASSUME NEW p, IsPage(p), NEW f, NEW n, NEW x
  PROVE  Commutes([p EXCEPT !.focus = f, !.val[n] = x], [Shown(p) EXCEPT !.focus = f, !.val[n] = x], p)
BY DEF IsPage, Shown, PageFields, Commutes

LEMMA InsertPage ==
  ASSUME NEW p, IsPage(p), NEW n, NEW f, NEW text
  PROVE  Commutes(Insert(p, n, f, text), Insert(Shown(p), n, f, text), p)
<1> DEFINE y == IF f = n THEN text ELSE p.val[f] \o text
<1>1. CASE f # NoNode /\ Kind[f] = "text"
  <2>1. Insert(p, n, f, text) = [p EXCEPT !.val[f] = y]
    BY <1>1 DEF Insert
  <2>2. Insert(Shown(p), n, f, text) = [Shown(p) EXCEPT !.val[f] = y]
    BY <1>1, OfShown DEF Insert
  <2> HIDE DEF y
  <2>3. QED
    BY <2>1, <2>2, ValPage
<1>2. CASE ~(f # NoNode /\ Kind[f] = "text")
  BY <1>2, SamePage DEF Insert
<1>3. QED
  BY <1>1, <1>2

LEMMA TypePage ==
  ASSUME NEW p, IsPage(p), NEW n, NEW text
  PROVE  Commutes(Type(p, n, text), Type(Shown(p), n, text), p)
<1> DEFINE f == IF n \in Disabled THEN p.focus ELSE n
           x == CASE Kind[n] = "text" -> "" [] Kind[n] = "select" -> "none" [] OTHER -> p.val[n]
           q == [p EXCEPT !.focus = f, !.val[n] = x]
           qs == [Shown(p) EXCEPT !.focus = f, !.val[n] = x]
<1>1. Commutes(q, qs, p)
  BY TwoFieldsPage
<1>2. Shown(p).focus = p.focus /\ Shown(p).val = p.val
  BY OfShown
<1>3. Type(p, n, text) = Insert(q, n, f, text)
  BY DEF Type
<1>4. Type(Shown(p), n, text) = Insert(qs, n, f, text)
  BY <1>2 DEF Type
<1> HIDE DEF q, qs, f
<1>5. Commutes(Insert(q, n, f, text), Insert(qs, n, f, text), q)
  BY <1>1, InsertPage DEF Commutes
<1>6. QED
  BY <1>1, <1>3, <1>4, <1>5, CommutesTwice

LEMMA SelectPage ==
  ASSUME NEW p, IsPage(p), NEW s, NEW t, Resolve(p, s) = Resolve(Shown(p), t), NEW by, NEW spec
  PROVE  Commutes(SelectOption(p, s, by, spec), SelectOption(Shown(p), t, by, spec), p)
<1> DEFINE n == Resolve(p, s)
           x == IF Matched(by, spec) = {} THEN "none" ELSE ToString(Max(Matched(by, spec)))
<1>1. CASE IsSelect(p, s)
  <2>1. SelectOption(p, s, by, spec) = [p EXCEPT !.val[n] = x]
    BY <1>1 DEF SelectOption
  <2>2. SelectOption(Shown(p), t, by, spec) = [Shown(p) EXCEPT !.val[n] = x]
    BY <1>1 DEF SelectOption, IsSelect
  <2> HIDE DEF n, x
  <2>3. QED
    BY <2>1, <2>2, ValPage
<1>2. CASE ~IsSelect(p, s)
  BY <1>2, SamePage DEF SelectOption, IsSelect
<1>3. QED
  BY <1>1, <1>2

LEMMA SetPage ==
  ASSUME NEW p, IsPage(p), NEW ns, NEW fs
  PROVE  Commutes(SetNativeValue(p, ns, fs), SetNativeValue(Shown(p), ns, fs), p)
<1> DEFINE given(n) == {i \in DOMAIN ns : ns[i] = n}
           val == [n \in Nodes |-> IF given(n) = {} THEN p.val[n] ELSE fs[Max(given(n))].text]
           focus == IF DOMAIN ns = {} THEN p.focus ELSE ns[Max(DOMAIN ns)]
<1>1. SetNativeValue(p, ns, fs) = [p EXCEPT !.val = val, !.focus = focus]
  BY Zenon DEF SetNativeValue
<1>2. Shown(p).val = p.val /\ Shown(p).focus = p.focus
  BY OfShown
<1>3. SetNativeValue(Shown(p), ns, fs) = [Shown(p) EXCEPT !.val = val, !.focus = focus]
  BY <1>2, Zenon DEF SetNativeValue
<1>4. val = [n \in Nodes |-> val[n]]
  OBVIOUS
<1> HIDE DEF val, focus
<1>5. QED
  BY <1>1, <1>3, <1>4 DEF IsPage, Shown, PageFields, Commutes

(* An element action on the same element of a page and of the rendered one. *)
LEMMA PossibleSame ==
  ASSUME NEW p, IsPage(p), NEW s, NEW t, Resolve(p, s) = Resolve(Shown(p), t), NEW e,
         e.op \in ElementOps \cup RawOps
  PROVE  Possible(p, s, e) <=> Possible(Shown(p), t, e)
<1>1. Shown(p).val = p.val
  BY OfShown
<1>2. FindElement(p, s) = FindElement(Shown(p), t)
  BY DEF FindElement
<1>3. Selects(p, s, e.by, e.arg) <=> Selects(Shown(p), t, e.by, e.arg)
  BY DEF Selects, IsSelect
<1>4. CASE e.op \in {"click", "hover", "type"}
  BY <1>2, <1>4 DEF Possible
<1>5. CASE e.op = "select"
  BY <1>3, <1>5 DEF Possible
<1>6. CASE e.op = "check"
  BY <1>1, <1>2, <1>6 DEF Possible
<1>7. CASE e.op \in RawOps
  BY <1>7 DEF Possible, RawOps
<1>8. QED
  BY <1>4, <1>5, <1>6, <1>7 DEF ElementOps

LEMMA DoublePage ==
  ASSUME NEW p, IsPage(p), NEW n
  PROVE  Commutes(DoubleClick(p, n), DoubleClick(Shown(p), n), p)
<1>1. CASE Kind[n] = "submit" /\ n \notin Disabled
  <2>1. /\ DoubleClick(p, n) = [p EXCEPT !.sent = @ + 1]
        /\ DoubleClick(Shown(p), n) = [Shown(p) EXCEPT !.sent = @ + 1]
    BY <1>1 DEF DoubleClick
  <2>2. QED
    BY <2>1, SentPage
<1>2. CASE ~(Kind[n] = "submit" /\ n \notin Disabled)
  BY <1>2, SamePage DEF DoubleClick
<1>3. QED
  BY <1>1, <1>2

(* An action that is possible has an element of the page.                  *)
LEMMA PossibleElement ==
  ASSUME NEW p, NEW s, NEW e, e.op \in ElementOps \cup RawOps, Possible(p, s, e)
  PROVE  Resolve(p, s) # NoNode
BY DEF Possible, FindElement, Selects, IsSelect, ElementOps, RawOps

LEMMA EffectPage ==
  ASSUME NEW p, IsPage(p), NEW s, NEW t, Resolve(p, s) = Resolve(Shown(p), t), NEW e,
         e.op \in ElementOps \cup RawOps, Resolve(p, s) \in Nodes, Positions # {}
  PROVE  Commutes(Effect(p, s, e), Effect(Shown(p), t, e), p)
<1> DEFINE n == Resolve(p, s)
           w == Shown(p)
<1>1. Possible(p, s, e) <=> Possible(w, t, e)
  BY PossibleSame
<1>2. w.val = p.val /\ Commutes(p, w, p)
  BY OfShown, SamePage
<1>3. Commutes(Click(p, n), Click(w, n), p) /\ Commutes(Type(p, n, e.arg), Type(w, n, e.arg), p)
  <2>1. n \in Nodes
    OBVIOUS
  <2> HIDE DEF n, w
  <2>2. Commutes(Click(p, n), Click(Shown(p), n), p)
    BY <2>1, ClickPage
  <2>3. Commutes(Type(p, n, e.arg), Type(Shown(p), n, e.arg), p)
    BY TypePage
  <2>4. QED
    BY <2>2, <2>3 DEF w
<1>4. CASE e.op = "select"
  <2>1. /\ Effect(p, s, e) = SelectOption(p, s, e.by, e.arg)
        /\ Effect(w, t, e) = SelectOption(w, t, e.by, e.arg)
    BY <1>4 DEF Effect
  <2>2. Commutes(SelectOption(p, s, e.by, e.arg), SelectOption(w, t, e.by, e.arg), p)
    BY SelectPage
  <2>3. QED
    BY <2>1, <2>2
<1>5. CASE e.op # "select" /\ ~Possible(p, s, e)
  BY <1>1, <1>2, <1>5 DEF Effect, RawOps
<1>6. CASE e.op = "click" /\ Possible(p, s, e)
  <2>1. Effect(p, s, e) = Click(p, n) /\ Effect(w, t, e) = Click(w, n)
    BY <1>1, <1>6 DEF Effect, RawOps
  <2>2. QED
    BY <1>3, <2>1
<1>7. CASE e.op = "type" /\ Possible(p, s, e)
  <2>1. Effect(p, s, e) = Type(p, n, e.arg) /\ Effect(w, t, e) = Type(w, n, e.arg)
    BY <1>1, <1>7 DEF Effect, RawOps
  <2>2. QED
    BY <1>3, <2>1
<1>8. CASE e.op = "check" /\ Possible(p, s, e)
  <2>1. /\ Effect(p, s, e) = IF p.val[n] = e.arg THEN p ELSE Click(p, n)
        /\ Effect(w, t, e) = IF p.val[n] = e.arg THEN w ELSE Click(w, n)
    BY <1>1, <1>2, <1>8 DEF Effect, RawOps
  <2>2. QED
    BY <1>2, <1>3, <2>1
<1>9. CASE e.op = "hover" /\ Possible(p, s, e)
  BY <1>1, <1>2, <1>9 DEF Effect, RawOps, RawOps
<1>10. CASE e.op \in RawOps /\ Possible(p, s, e)
  <2>1. Effect(p, s, e) = DoubleClick(p, n) /\ Effect(w, t, e) = DoubleClick(w, n)
    BY <1>1, <1>10 DEF Effect, RawOps, RawOps
  <2>2. QED
    BY <2>1, DoublePage
<1>11. QED
  BY <1>4, <1>5, <1>6, <1>7, <1>8, <1>9, <1>10 DEF ElementOps

(* Actions on the page as a whole.                                         *)
LEMMA PageEffectPage ==
  ASSUME NEW p, IsPage(p), NEW e, e.op = "scroll" => e.by \in {"down", "up", "top", "bottom"}
  PROVE  /\ IsPage(PageEffect(p, e))
         /\ Shown(PageEffect(p, e)) = Shown(PageEffect(Shown(p), e))
         /\ PageEffect(p, e).sent = PageEffect(Shown(p), e).sent
<1> DEFINE w == Shown(p)
<1>1. /\ w.val = p.val /\ w.focus = p.focus /\ w.sent = p.sent /\ w.scroll = p.scroll
      /\ w.base = p.base /\ w.trail = p.trail /\ w.here = p.here /\ IsPage(w)
  BY OfShown, ShownStill DEF Still
<1>2. p.base \in [Positions -> Nodes]
  BY DEF IsPage
<1>3. ASSUME NEW q, NEW r, Commutes(q, r, p)
      PROVE  IsPage(q) /\ Shown(q) = Shown(r) /\ q.sent = r.sent
  BY <1>3, OfShown, ShownStill DEF Commutes, Still
<1>4. CASE e.op = "press"
  <2>1. CASE p.focus # NoNode /\ Kind[p.focus] = "text"
    <3>1. /\ PageEffect(p, e) = [p EXCEPT !.sent = @ + 1]
          /\ PageEffect(w, e) = [w EXCEPT !.sent = @ + 1]
      BY <1>1, <1>4, <2>1 DEF PageEffect, PressEnter
    <3>2. QED
      BY <1>3, <3>1, SentPage
  <2>2. CASE ~(p.focus # NoNode /\ Kind[p.focus] = "text")
    <3>1. PageEffect(p, e) = p /\ PageEffect(w, e) = w
      BY <1>1, <1>4, <2>2 DEF PageEffect, PressEnter
    <3>2. QED
      BY <1>3, <3>1, SamePage
  <2>3. QED
    BY <2>1, <2>2
<1>5. CASE e.op = "navigate"
  <2>1. PageEffect(p, e) = Navigate(p, e.arg) /\ PageEffect(w, e) = Navigate(p, e.arg)
    BY <1>1, <1>5 DEF PageEffect, Navigate, Reload, Url
  <2>2. QED
    BY <1>2, <2>1, LoadedPage DEF Navigate, Reload
<1>6. CASE e.op = "reload"
  <2>1. PageEffect(p, e) = Reload(p) /\ PageEffect(w, e) = Reload(p)
    BY <1>1, <1>6 DEF PageEffect, Reload
  <2>2. QED
    BY <1>2, <2>1, LoadedPage DEF Reload
<1>7. ASSUME NEW by, PageEffect(p, e) = Traverse(p, by), PageEffect(w, e) = Traverse(w, by)
      PROVE  /\ IsPage(PageEffect(p, e)) /\ Shown(PageEffect(p, e)) = Shown(PageEffect(w, e))
             /\ PageEffect(p, e).sent = PageEffect(w, e).sent
  <2>1. CASE p.here + by \in DOMAIN p.trail
    <3>1. /\ PageEffect(p, e) = Loaded(p.trail, p.here + by, p.base)
          /\ PageEffect(w, e) = Loaded(p.trail, p.here + by, p.base)
      BY <1>1, <1>7, <2>1 DEF Traverse
    <3>2. QED
      BY <1>2, <3>1, LoadedPage
  <2>2. CASE p.here + by \notin DOMAIN p.trail
    <3>1. PageEffect(p, e) = p /\ PageEffect(w, e) = w
      BY <1>1, <1>7, <2>2 DEF Traverse
    <3>2. QED
      BY <1>3, <3>1, SamePage
  <2>3. QED
    BY <2>1, <2>2
<1>8. CASE e.op \in {"back", "forward"}
  BY <1>7, <1>8 DEF PageEffect
<1>9. CASE e.op = "scroll"
  <2>1. ASSUME NEW y, PageEffect(p, e) = ScrollTo(p, y), PageEffect(w, e) = ScrollTo(w, y)
        PROVE  /\ IsPage(PageEffect(p, e)) /\ Shown(PageEffect(p, e)) = Shown(PageEffect(w, e))
               /\ PageEffect(p, e).sent = PageEffect(w, e).sent
    <3> DEFINE z == Max({0, Min({y, Bottom})})
    <3>1. PageEffect(p, e) = [p EXCEPT !.scroll = z] /\ PageEffect(w, e) = [w EXCEPT !.scroll = z]
      BY <2>1 DEF ScrollTo
    <3> HIDE DEF z
    <3>2. Commutes(PageEffect(p, e), PageEffect(w, e), p)
      BY <3>1, ScrollPage
    <3>3. QED
      BY <1>3, <3>2
  <2>2. PageEffect(p, e) = Scroll(p, e.by, e.px) /\ PageEffect(w, e) = Scroll(w, e.by, e.px)
    BY <1>9 DEF PageEffect
  <2>3. CASE e.by = "down"
    BY <1>1, <2>1, <2>2, <2>3 DEF Scroll
  <2>4. CASE e.by = "up"
    BY <1>1, <2>1, <2>2, <2>4 DEF Scroll
  <2>5. CASE e.by = "top"
    BY <1>1, <2>1, <2>2, <2>5 DEF Scroll
  <2>6. CASE e.by = "bottom"
    BY <1>1, <2>1, <2>2, <2>6 DEF Scroll
  <2>7. QED
    BY <1>9, <2>3, <2>4, <2>5, <2>6
<1>10. CASE e.op \notin {"press", "navigate", "reload", "back", "forward", "scroll"}
  <2>1. PageEffect(p, e) = p /\ PageEffect(w, e) = w
    BY <1>10 DEF PageEffect
  <2>2. QED
    BY <1>3, <2>1, SamePage
<1>11. QED
  BY <1>4, <1>5, <1>6, <1>8, <1>9, <1>10

LEMMA PrintOfNode ==
  ASSUME NEW p, NEW n \in Nodes
  PROVE  Ident(p, n) # NoPrint /\ Ident(p, n)[1] = Kind[n] /\ Kind[n] # "" /\ n # NoNode
<1>1. Kind[n] \in Kinds /\ NoNode \notin Nodes
  BY PageAssumption
<1>2. Kind[n] # ""
  BY <1>1 DEF Kinds
<1>3. Ident(p, n)[1] = Kind[n]
  BY DEF Ident
<1>4. NoPrint[1] = ""
  BY DEF NoPrint
<1>5. QED
  BY <1>1, <1>2, <1>3, <1>4

(* What resolveRecordedTarget settles for is the recorded element, if no   *)
(* twin can be mistaken for it.                                            *)
LEMMA Relocates ==
  ASSUME NEW p, IsPage(p), NEW s, NEW idx, NEW n \in Nodes, n = Resolve(Shown(p), s),
         ~Mistakable(Shown(p), s, idx), NEW to, to = Relocated(p, s, Ident(Shown(p), n), idx),
         to # 0
  PROVE  Resolve(p, to) = n /\ to \in DOMAIN At(p)
<1> DEFINE w == Shown(p)
           fp == Ident(w, n)
<1>1. fp # NoPrint /\ n # NoNode
  BY PrintOfNode
<1>2. LiveFingerprint(w, s) = fp
  BY <1>1 DEF LiveFingerprint
<1>3. \A m : Ident(p, m) = Ident(w, m)
  BY OfShown DEF Ident
<1>4. p.out \in SUBSET Late /\ p = [w EXCEPT !.out = p.out]
  BY OfShown DEF IsPage
<1>5. \A t \in Twins(p, fp) : (t = s \/ LiveIndex(p, t) = idx) => At(p)[t] = n
  BY <1>2, <1>4 DEF Mistakable
<1>6. CASE LiveFingerprint(p, s) = fp
  <2>1. to = s
    BY <1>6 DEF Relocated
  <2>2. Resolve(p, s) # NoNode /\ Ident(p, Resolve(p, s)) = fp
    BY <1>1, <1>6 DEF LiveFingerprint
  <2>3. s \in DOMAIN At(p) /\ Resolve(p, s) = At(p)[s]
    BY <2>2 DEF Resolve
  <2>4. s \in Twins(p, fp)
    BY <2>2, <2>3 DEF Twins
  <2>5. QED
    BY <1>5, <2>1, <2>3, <2>4
<1>7. CASE LiveFingerprint(p, s) # fp
  <2>1. to = FindByFingerprint(p, fp, idx)
    BY <1>1, <1>7 DEF Relocated
  <2>2. to \in Twins(p, fp) /\ LiveIndex(p, to) = idx
    <3> DEFINE at == {t \in Twins(p, fp) : LiveIndex(p, t) = idx}
    <3>1. to = IF at = {} THEN 0 ELSE CHOOSE t \in at : TRUE
      BY <2>1 DEF FindByFingerprint
    <3>2. to \in at
      <4> HIDE DEF at
      <4>1. QED
        BY <3>1
    <3>3. QED
      BY <3>2
  <2>3. to \in DOMAIN At(p)
    BY <2>2 DEF Twins
  <2>4. QED
    BY <1>5, <2>2, <2>3 DEF Resolve
<1>8. QED
  BY <1>6, <1>7

(* On a page that is rendered it is the recorded selector.                 *)
LEMMA RelocatesStill ==
  ASSUME NEW p, NEW s, NEW idx, NEW n \in Nodes, n = Resolve(p, s)
  PROVE  Relocated(p, s, Ident(p, n), idx) = s
<1>1. n # NoNode
  BY PrintOfNode
<1>2. LiveFingerprint(p, s) = Ident(p, n)
  BY <1>1 DEF LiveFingerprint
<1>3. QED
  BY <1>2 DEF Relocated

-----------------------------------------------------------------------------
(* What is known of an event e that acted on the elements h, by its kind:  *)
(* it led from the rendered page p, with r in the rings, to q and t.       *)

OnElement(e, h, p, r, q, t) ==
    LET n == Resolve(p, e.sel) IN
    /\ e.op \in ElementOps /\ e.by = "value" /\ e.sel \in Positions /\ Possible(p, e.sel, e)
    /\ n \in Nodes /\ h = <<n>> /\ e.fp = Ident(p, n) /\ ~Mistakable(p, e.sel, e.idx)
    /\ (\A a, b \in Twins(p, e.fp) : a = b) => e.idx = 0
    /\ q = Effect(p, e.sel, e) /\ t = r \cup Heard(p, q, e, e.sel)

Raw(e, h, p, r, q, t) ==
    /\ e.op \in RawOps /\ e.sel \in Positions /\ ~Displaced(p, e.sel) /\ Possible(p, e.sel, e)
    /\ h = <<Resolve(p, e.sel)>>
    /\ q = Effect(p, e.sel, e) /\ t = r \cup Heard(p, q, e, e.sel)

FieldOn(f, n, p) ==
    /\ f = [sel |-> f.sel, text |-> f.text, fp |-> f.fp, idx |-> f.idx]
    /\ n = Resolve(p, f.sel) /\ n \in Nodes /\ Kind[n] = "text" /\ f.sel \in Positions
    /\ f.fp = Ident(p, n) /\ ~Mistakable(p, f.sel, f.idx) /\ ~Shifts(p, f.sel)

OnFields(e, h, p, r, q, t) ==
    /\ e.op = "fill" /\ \A i \in DOMAIN e.fields : FieldOn(e.fields[i], h[i], p)
    /\ h = [i \in DOMAIN e.fields |-> Resolve(p, e.fields[i].sel)]
    /\ q = SetNativeValue(p, h, e.fields) /\ t = r

OnPage(e, h, p, r, q, t) ==
    /\ e.op \in PageOps \ {"cookies"} /\ h = <<>>
    /\ {"op", "arg", "by", "px"} \subseteq DOMAIN e
    /\ e.op = "scroll" => /\ e.by \in {"down", "up", "top", "bottom"}
                          /\ e.by \in {"down", "up"} => e.px > 0
    /\ q = Shown(PageEffect(p, e)) /\ t = r \cup Heard(p, PageEffect(p, e), e, 0)

OnCondition(e, h, p, r, q, t) ==
    /\ e.op = "expect" /\ h = <<>> /\ q = p /\ t = r
    /\ e.want \subseteq Fields \ {"ref"} /\ Accepted(e.want)
    /\ Condition(p, r, ReplayedFields(e.want), e.sel)

Recorded(e, h, p, r, q, t) ==
    \/ OnElement(e, h, p, r, q, t) \/ Raw(e, h, p, r, q, t) \/ OnFields(e, h, p, r, q, t)
    \/ OnPage(e, h, p, r, q, t) \/ OnCondition(e, h, p, r, q, t)

-----------------------------------------------------------------------------
(* The replay of such an event, on a page of which part may be late.       *)

(* The pixels of a scroll matter in two directions only.                   *)
LEMMA ReplayedPixels ==
  ASSUME NEW e, NEW h, NEW p, NEW r, NEW q, NEW t, OnPage(e, h, p, r, q, t), NEW g
  PROVE  PageEffect(g, Scrolled(e)) = PageEffect(g, e)
<1> DEFINE x == IF e.px > 0 THEN e.px ELSE DefaultPixels
           f == [e EXCEPT !.px = x]
<1>1. f.op = e.op /\ f.arg = e.arg /\ f.by = e.by /\ f.px = x
  BY DEF OnPage
<1> SUFFICES ASSUME e.op = "scroll" PROVE PageEffect(g, f) = PageEffect(g, e)
  BY DEF Scrolled
<1> HIDE DEF x, f
<1>2. CASE e.op # "scroll"
  BY <1>1, <1>2 DEF PageEffect
<1>3. CASE e.op = "scroll"
  <2>1. PageEffect(g, f) = Scroll(g, e.by, x) /\ PageEffect(g, e) = Scroll(g, e.by, e.px)
    BY <1>1, <1>3 DEF PageEffect
  <2>2. CASE e.by \in {"down", "up"}
    <3>1. x = e.px
      BY <1>3, <2>2 DEF OnPage, x
    <3>2. QED
      BY <2>1, <3>1
  <2>3. CASE e.by = "top"
    <3>1. Scroll(g, e.by, x) = ScrollTo(g, 0) /\ Scroll(g, e.by, e.px) = ScrollTo(g, 0)
      BY <2>3 DEF Scroll
    <3>2. QED
      BY <2>1, <3>1
  <2>4. CASE e.by = "bottom"
    <3>1. Scroll(g, e.by, x) = ScrollTo(g, Bottom) /\ Scroll(g, e.by, e.px) = ScrollTo(g, Bottom)
      BY <2>4 DEF Scroll
    <3>2. QED
      BY <2>1, <3>1
  <2>5. QED
    BY <1>3, <2>2, <2>3, <2>4 DEF OnPage
<1>4. QED
  BY <1>2, <1>3

(* A set of indices has a last one.                                        *)
LEMMA MaxTaken ==
  ASSUME NEW k \in Nat, NEW T, T \subseteq 1 .. k, T # {}
  PROVE  Max(T) \in T
<1> DEFINE U == {k - x : x \in T}
<1>1. U \subseteq Nat /\ U # {}
  <2>1. \A x \in T : x \in Nat /\ x <= k /\ k - x \in Nat
    OBVIOUS
  <2>2. PICK x \in T : TRUE
    OBVIOUS
  <2>3. QED
    BY <2>1, <2>2
<1>2. PICK u \in U : \A y \in U : ~(y < u)
  <2> HIDE DEF U
  <2>1. PICK u \in U : \A y \in U : <<y, u>> \notin OpToRel(<, Nat)
    BY <1>1, WFMin, NatLessThanWellFounded, Zenon
  <2>2. \A y \in U : ~(y < u)
    BY <1>1, <2>1, Zenon DEF OpToRel
  <2>3. QED
    BY <2>2
<1>3. PICK x \in T : u = k - x
  OBVIOUS
<1>4. \A y \in T : x >= y
  <2> TAKE y \in T
  <2>1. k - y \in U /\ k - y \in Nat /\ u \in Nat
    BY <1>1
  <2>2. ~(k - y < u)
    BY <1>2, <2>1
  <2>3. QED
    BY <1>3, <2>2
<1>5. QED
  BY <1>4 DEF Max

(* On a rendered page every position has its element.                      *)
LEMMA StillAt ==
  ASSUME NEW p, Still(p)
  PROVE  /\ At(p) = p.order /\ DOMAIN At(p) = Positions
         /\ \A s \in Positions : Resolve(p, s) = p.order[s] /\ Resolve(p, s) \in Nodes
<1>1. At(p) = p.order /\ p.order \in [Positions -> Nodes]
  BY DEF At, Settled, Still, IsPage
<1>2. QED
  BY <1>1 DEF Resolve

LEMMA PositionsNat ==
  \A s \in Positions :
     /\ s \in Nat /\ s >= 1 /\ s <= Len(Order)
     /\ 1 \in Positions /\ Len(Order) \in Positions
     /\ s < Len(Order) => s + 1 \in Positions
<1> DEFINE k == Len(Order)
<1>1. k \in Nat /\ Order \in [1 .. k -> Nodes]
  BY PageAssumption
<1>2. \A s \in 1 .. k : s \in Nat /\ s >= 1 /\ s <= k /\ 1 \in 1 .. k
                        /\ (s < k => s + 1 \in 1 .. k) /\ k \in 1 .. k
  <2> HIDE DEF k
  <2>1. QED
    BY <1>1
<1>3. Positions = 1 .. k
  <2> HIDE DEF k
  <2>1. QED
    BY <1>1 DEF Positions
<1>4. QED
  BY <1>2, <1>3

(* An action changes the identity of no other element, and reorders the    *)
(* page only where it changes none.                                        *)
LEMMA InsertIdents ==
  ASSUME NEW p, IsPage(p), NEW n, NEW f, NEW text, NEW m \in Nodes
  PROVE  /\ Insert(p, n, f, text).order = p.order
         /\ Ident(Insert(p, n, f, text), m) = Ident(p, m)
<1>1. CASE f # NoNode /\ Kind[f] = "text"
  <2> DEFINE y == IF f = n THEN text ELSE p.val[f] \o text
  <2>1. Insert(p, n, f, text) = [p EXCEPT !.val[f] = y]
    BY <1>1 DEF Insert
  <2> HIDE DEF y
  <2>2. /\ [p EXCEPT !.val[f] = y].order = p.order
        /\ [p EXCEPT !.val[f] = y].val = [p.val EXCEPT ![f] = y]
    BY DEF IsPage, PageFields
  <2>3. m # f => [p.val EXCEPT ![f] = y][m] = p.val[m]
    BY DEF IsPage
  <2>4. QED
    BY <1>1, <2>1, <2>2, <2>3 DEF Ident
<1>2. CASE ~(f # NoNode /\ Kind[f] = "text")
  BY <1>2 DEF Insert
<1>3. QED
  BY <1>1, <1>2

LEMMA TypeIdents ==
  ASSUME NEW p, IsPage(p), NEW n, NEW text, NEW m \in Nodes
  PROVE  Type(p, n, text).order = p.order /\ Ident(Type(p, n, text), m) = Ident(p, m)
<1> DEFINE f == IF n \in Disabled THEN p.focus ELSE n
           x == CASE Kind[n] = "text" -> "" [] Kind[n] = "select" -> "none" [] OTHER -> p.val[n]
           q == [p EXCEPT !.focus = f, !.val[n] = x]
<1>1. Type(p, n, text) = Insert(q, n, f, text)
  BY DEF Type
<1>2. Kind[n] = "toggle" => x = p.val[n]
  OBVIOUS
<1> HIDE DEF f, x
<1>3. IsPage(q)
  BY TwoFieldsPage DEF Commutes
<1>4. q.order = p.order /\ q.val = [p.val EXCEPT ![n] = x]
  BY DEF IsPage, PageFields
<1>5. Kind[m] = "toggle" => q.val[m] = p.val[m]
  BY <1>2, <1>4 DEF IsPage
<1>6. Ident(q, m) = Ident(p, m)
  BY <1>5 DEF Ident
<1> HIDE DEF q
<1>7. QED
  BY <1>1, <1>3, <1>4, <1>6, InsertIdents

LEMMA SelectIdents ==
  ASSUME NEW p, IsPage(p), NEW s, NEW by, NEW spec, NEW m \in Nodes
  PROVE  /\ SelectOption(p, s, by, spec).order = p.order
         /\ Ident(SelectOption(p, s, by, spec), m) = Ident(p, m)
<1> DEFINE n == Resolve(p, s)
           x == IF Matched(by, spec) = {} THEN "none" ELSE ToString(Max(Matched(by, spec)))
<1>1. CASE IsSelect(p, s)
  <2>1. SelectOption(p, s, by, spec) = [p EXCEPT !.val[n] = x] /\ Kind[n] = "select"
    BY <1>1 DEF SelectOption, IsSelect
  <2> HIDE DEF n, x
  <2>2. /\ [p EXCEPT !.val[n] = x].order = p.order
        /\ [p EXCEPT !.val[n] = x].val = [p.val EXCEPT ![n] = x]
    BY DEF IsPage, PageFields
  <2>3. m # n => [p.val EXCEPT ![n] = x][m] = p.val[m]
    BY DEF IsPage
  <2>4. QED
    BY <2>1, <2>2, <2>3 DEF Ident
<1>2. CASE ~IsSelect(p, s)
  BY <1>2 DEF SelectOption
<1>3. QED
  BY <1>1, <1>2

LEMMA ClickIdents ==
  ASSUME NEW p, IsPage(p), NEW n \in Nodes, NEW m \in Nodes, Positions # {}
  PROVE  /\ m # n => Ident(Click(p, n), m) = Ident(p, m)
         /\ Click(p, n).order # p.order =>
              /\ Click(p, n).order = Append(Tail(p.order), Head(p.order))
              /\ Ident(Click(p, n), m) = Ident(p, m)
<1> DEFINE q == [p EXCEPT !.focus = n]
<1>1. IsPage(q) /\ q.val = p.val /\ q.order = p.order /\ q.sent = p.sent
  BY FocusPage DEF Commutes
<1> HIDE DEF q
<1>2. Ident(q, m) = Ident(p, m)
  BY <1>1 DEF Ident
<1>3. CASE n \in Disabled
  BY <1>3 DEF Click
<1>4. ASSUME NEW x, Click(p, n) = [q EXCEPT !.val[n] = x]
      PROVE  Click(p, n).order = p.order /\ (m # n => Ident(Click(p, n), m) = Ident(p, m))
  <2>1. Click(p, n).order = q.order /\ Click(p, n).val = [q.val EXCEPT ![n] = x]
    BY <1>1, <1>4 DEF IsPage, PageFields
  <2>2. m # n => Click(p, n).val[m] = p.val[m]
    BY <1>1, <2>1 DEF IsPage
  <2>3. QED
    BY <1>1, <2>1, <2>2 DEF Ident
<1>5. CASE n \notin Disabled /\ Kind[n] = "check"
  <2>1. Click(p, n) = [q EXCEPT !.val[n] = IF q.val[n] = "on" THEN "off" ELSE "on"]
    BY <1>5 DEF Click, q
  <2>2. QED
    BY <1>4, <2>1
<1>6. CASE n \notin Disabled /\ Kind[n] = "toggle"
  <2>1. Click(p, n) = [q EXCEPT !.val[n] = IF q.val[n] = "up" THEN "down" ELSE "up"]
    BY <1>6 DEF Click, q
  <2>2. QED
    BY <1>4, <2>1
<1>7. CASE n \notin Disabled /\ Kind[n] = "sort"
  <2> DEFINE o == Append(Tail(q.order), Head(q.order))
  <2>1. Click(p, n) = [q EXCEPT !.order = o]
    BY <1>7 DEF Click, q
  <2>2. o = Append(Tail(p.order), Head(p.order))
    BY <1>1
  <2> HIDE DEF o
  <2>3. Click(p, n).order = o /\ Click(p, n).val = p.val
    BY <1>1, <2>1 DEF IsPage, PageFields
  <2>4. QED
    BY <2>2, <2>3 DEF Ident
<1>8. CASE n \notin Disabled /\ Kind[n] = "submit"
  <2>1. Click(p, n) = [q EXCEPT !.sent = @ + 1]
    BY <1>8 DEF Click, q
  <2>2. Click(p, n).order = p.order /\ Click(p, n).val = p.val
    BY <1>1, <2>1 DEF IsPage, PageFields
  <2>3. QED
    BY <2>2 DEF Ident
<1>9. CASE n \notin Disabled /\ Kind[n] \notin {"check", "toggle", "sort", "submit"}
  <2>1. Click(p, n) = q
    BY <1>9 DEF Click, q
  <2>2. QED
    BY <1>1, <1>2, <2>1
<1>10. QED
  BY <1>3, <1>5, <1>6, <1>7, <1>8, <1>9

LEMMA EffectIdents ==
  ASSUME NEW p, IsPage(p), NEW s, NEW e, e.op \in ElementOps, Resolve(p, s) \in Nodes,
         NEW m \in Nodes, Positions # {}
  PROVE  LET q == Effect(p, s, e) IN
         /\ m # Resolve(p, s) => Ident(q, m) = Ident(p, m)
         /\ q.order # p.order => /\ q.order = Append(Tail(p.order), Head(p.order))
                                 /\ Ident(q, m) = Ident(p, m)
<1> DEFINE q == Effect(p, s, e)
           n == Resolve(p, s)
<1>1. q \in {p, Click(p, n), Type(p, n, e.arg), SelectOption(p, s, e.by, e.arg)}
  <2>1. CASE e.op = "select"
    BY <2>1 DEF Effect, RawOps
  <2>2. CASE e.op # "select" /\ ~Possible(p, s, e)
    BY <2>2 DEF Effect, RawOps
  <2>3. CASE e.op = "click" /\ Possible(p, s, e)
    BY <2>3 DEF Effect, RawOps
  <2>4. CASE e.op = "type" /\ Possible(p, s, e)
    BY <2>4 DEF Effect, RawOps
  <2>5. CASE e.op = "check" /\ Possible(p, s, e)
    BY <2>5 DEF Effect, RawOps
  <2>6. CASE e.op = "hover" /\ Possible(p, s, e)
    BY <2>6 DEF Effect, RawOps
  <2>7. QED
    BY <2>1, <2>2, <2>3, <2>4, <2>5, <2>6 DEF ElementOps
<1>2. /\ m # n => Ident(Click(p, n), m) = Ident(p, m)
      /\ Click(p, n).order # p.order =>
           /\ Click(p, n).order = Append(Tail(p.order), Head(p.order))
           /\ Ident(Click(p, n), m) = Ident(p, m)
  <2>1. n \in Nodes
    OBVIOUS
  <2> HIDE DEF n
  <2>2. QED
    BY <2>1, ClickIdents
<1>3. Type(p, n, e.arg).order = p.order /\ Ident(Type(p, n, e.arg), m) = Ident(p, m)
  <2> HIDE DEF n
  <2>1. QED
    BY TypeIdents
<1>4. /\ SelectOption(p, s, e.by, e.arg).order = p.order
      /\ Ident(SelectOption(p, s, e.by, e.arg), m) = Ident(p, m)
  BY SelectIdents
<1> HIDE DEF q
<1>5. /\ m # n => Ident(q, m) = Ident(p, m)
      /\ q.order # p.order => /\ q.order = Append(Tail(p.order), Head(p.order))
                              /\ Ident(q, m) = Ident(p, m)
  BY <1>1, <1>2, <1>3, <1>4
<1>6. QED
  BY <1>5 DEF q

(* An element that has no twin, and looks the same after the action, is    *)
(* still the first of its kind.                                            *)
LEMMA AloneIsFirst ==
  ASSUME NEW p, Still(p), NEW s \in Positions, NEW e, e.op \in ElementOps,
         LiveFingerprint(Effect(p, s, e), s) = LiveFingerprint(p, s),
         \A a, b \in Twins(p, Ident(p, Resolve(p, s))) : a = b
  PROVE  LiveIndex(Effect(p, s, e), s) = 0
<1> DEFINE q == Effect(p, s, e)
           n == Resolve(p, s)
           fp == Ident(p, n)
<1>1. n \in Nodes /\ n = p.order[s] /\ n # NoNode
  BY StillAt, PrintOfNode
<1>2. IsPage(p) /\ Shown(p) = p /\ p.out = {} /\ Positions # {}
  BY ShownStill DEF Still
<1>3. Still(q)
  BY <1>1, <1>2, EffectPage DEF Commutes, Still
<1>4. At(q) = q.order /\ At(p) = p.order /\ DOMAIN At(q) = Positions /\ DOMAIN At(p) = Positions
  BY <1>3, StillAt
<1>5. LiveFingerprint(q, s) = fp
  BY <1>1 DEF LiveFingerprint
<1>6. \A r \in Positions : q.order[r] \in Nodes /\ p.order[r] \in Nodes
  BY <1>2, <1>3 DEF IsPage, Still
<1>7. \A m \in Nodes :
         /\ m # n => Ident(q, m) = Ident(p, m)
         /\ q.order # p.order => /\ q.order = Append(Tail(p.order), Head(p.order))
                                 /\ Ident(q, m) = Ident(p, m)
  BY <1>1, <1>2, EffectIdents
<1>8. s \in Twins(p, fp)
  BY <1>4 DEF Twins, Resolve
<1>9. Ident(q, q.order[s]) = fp
  BY <1>3, <1>5, StillAt, PrintOfNode DEF LiveFingerprint
<1> HIDE DEF q, fp
<1>10. ASSUME NEW r \in Twins(q, fp), r < s PROVE FALSE
  <2>1. r \in Positions /\ Ident(q, q.order[r]) = fp
    BY <1>4, <1>10 DEF Twins
  <2> DEFINE k == Len(Order)
  <2>2. /\ r \in Nat /\ r >= 1 /\ r <= k /\ 1 \in Positions /\ (r < k => r + 1 \in Positions)
        /\ k \in Nat
    BY <2>1, PositionsNat, PageAssumption
  <2>3. s \in Nat /\ s <= k /\ (s < k => s + 1 \in Positions)
    BY PositionsNat
  <2> HIDE DEF k
  <2>4. CASE q.order = p.order
    <3>1. Ident(p, p.order[r]) = fp
      BY <1>6, <1>7, <2>1, <2>4 DEF fp
    <3>2. r \in Twins(p, fp)
      BY <1>4, <2>1, <3>1 DEF Twins
    <3>3. r # s
      BY <1>10, <2>2, <2>3
    <3>4. QED
      BY <1>8, <3>2, <3>3 DEF fp
  <2>5. CASE q.order # p.order
    <3>1. \A t \in Positions : q.order[t] = IF t = k THEN p.order[1] ELSE p.order[t + 1]
      <4>1. q.order = Append(Tail(p.order), Head(p.order)) /\ p.order \in [Positions -> Nodes]
        BY <1>1, <1>2, <1>7, <2>5 DEF IsPage
      <4>2. QED
        BY <1>2, <4>1, Rotated DEF k
    <3>2. /\ r \in Nat /\ s \in Nat /\ r >= 1 /\ s <= k /\ k \in Nat
          /\ 1 \in Positions /\ r + 1 \in Positions /\ (s < k => s + 1 \in Positions)
      BY <1>10, <2>2, <2>3
    <3>3. r + 1 \in Twins(p, fp)
      <4>1. q.order[r] = p.order[r + 1]
        BY <1>10, <2>1, <3>1, <3>2
      <4>2. Ident(p, p.order[r + 1]) = fp
        BY <1>6, <1>7, <2>1, <2>5, <4>1
      <4>3. QED
        BY <1>4, <3>2, <4>2 DEF Twins
    <3>4. r + 1 = s
      BY <1>8, <3>3 DEF fp
    <3> DEFINE t == IF s = k THEN 1 ELSE s + 1
    <3>5. t \in Positions /\ q.order[s] = p.order[t] /\ t # s
      BY <1>10, <3>1, <3>2, <3>4
    <3>6. Ident(p, p.order[t]) = fp
      BY <1>6, <1>7, <1>9, <2>5, <3>5
    <3>7. t \in Twins(p, fp)
      <4> HIDE DEF t
      <4>1. QED
        BY <1>4, <3>5, <3>6 DEF Twins
    <3>8. QED
      BY <1>8, <3>5, <3>7 DEF fp
  <2>6. QED
    BY <2>4, <2>5
<1>11. {r \in Twins(q, fp) : r < s} = {}
  BY <1>10
<1>12. LiveIndex(q, s) = 0
  BY <1>5, <1>11, FS_EmptySet DEF LiveIndex
<1>13. QED
  BY <1>12 DEF q

(* The recording as pages remember it: the page and the rings each event   *)
(* was performed on, and those the last one left.                          *)
Trace(w, v) ==
    /\ w[1] = Shown(Loaded(<<Url0>>, 1, Order)) /\ v[1] = {}
    /\ \A i \in 1 .. Len(events) + 1 : Still(w[i])
    /\ \A i \in 1 .. Len(events) : Recorded(events[i], hits[i], w[i], v[i], w[i + 1], v[i + 1])

(* Where the session is in them.                                           *)
AtEvent(w, v) ==
    /\ IsPage(page) /\ Shown(page) = w[index] /\ ring = v[index]
    /\ Len(rhits) = index - 1 /\ \A j \in 1 .. index - 1 : rhits[j] = hits[j]
    /\ report.failed = 0
    /\ target # 0 => /\ events[index].op \in ElementOps
                     /\ Resolve(page, target) = Resolve(w[index], events[index].sel)

Place(w, v) ==
    LET last == Len(events) + 1 IN
    /\ phase = "live" => IsPage(page) /\ Shown(page) = w[last] /\ ring = v[last]
    /\ phase # "live" => Shown(livePage) = w[last]
    /\ phase = "replay" /\ ~moved /\ ~slipped => AtEvent(w, v)
    /\ phase = "done" /\ ~moved /\ ~slipped =>
          report.failed = 0 /\ rhits = hits /\ Shown(page) = w[last]

ReproInv ==
    /\ hits \in Seq(ToSet(hits)) /\ rhits \in Seq(ToSet(rhits)) /\ Len(hits) = Len(events)
    /\ phase \in {"live", "replay", "done"}
    /\ phase = "live" => report = NoReport /\ rhits = <<>> /\ target = 0
    /\ ~lossy /\ ~early => \E w, v : Trace(w, v) /\ Place(w, v)

LEMMA ReproInvReproduces == ReproInv => ReplayReproduces
BY DEF ReproInv, Place, ReplayReproduces

LEMMA InitRepro == ReplayInit => ReproInv
<1> SUFFICES ASSUME ReplayInit PROVE ReproInv
  OBVIOUS
<1> DEFINE p == Loaded(<<Url0>>, 1, Order)
<1>1. events = <<>> /\ hits = <<>> /\ rhits = <<>> /\ phase = "live" /\ page = p /\ ring = {}
      /\ report = NoReport /\ target = 0
  BY DEF ReplayInit
<1>2. IsPage(p)
  <2>1. Order \in [Positions -> Nodes]
    BY PageAssumption DEF Positions
  <2>2. QED
    BY <2>1, LoadedPage
<1>3. Still(Shown(p))
  BY <1>2, ShownStill
<1> HIDE DEF p
<1>4. PICK w, v : w = <<Shown(p)>> /\ v = <<{}>>
  OBVIOUS
<1>5. w[1] = Shown(p) /\ v[1] = {}
  BY <1>4
<1>6. Len(events) = 0 /\ Len(hits) = 0
  BY <1>1
<1>7. Trace(w, v)
  BY <1>3, <1>5, <1>6 DEF Trace, p
<1>8. Place(w, v)
  BY <1>1, <1>2, <1>5, <1>6 DEF Place
<1>9. <<>> \in Seq(ToSet(<<>>))
  OBVIOUS
<1>10. QED
  BY <1>1, <1>6, <1>7, <1>8, <1>9 DEF ReproInv

(* What an action recorded from a page that can be remembered adds.        *)
LEMMA RecordExtends ==
  ASSUME CheckpointInv, ReproInv, phase = "live", phase' = phase, UNCHANGED replayVars,
         NEW e, NEW nodes, NEW loses, Record(e, nodes, loses),
         /\ ~loses /\ IsPage(page) /\ (Settled(page) \/ (nodes = <<>> /\ e.op # "expect"))
         => IsPage(page') /\ Recorded(e, nodes, Shown(page), ring, Shown(page'), ring')
  PROVE  ReproInv'
<1>1. /\ events' = Append(events, e) /\ hits' = Append(hits, nodes)
      /\ ~lossy' => ~lossy /\ ~loses
      /\ ~early' => ~early /\ (Settled(page) \/ (nodes = <<>> /\ e.op # "expect"))
  BY Zenon DEF Record
<1>2. rhits' = rhits /\ report' = report /\ target' = target
  BY DEF replayVars
<1>3. hits' \in Seq(ToSet(hits')) /\ events \in Seq(ToSet(events)) /\ hits \in Seq(ToSet(hits))
      /\ Len(hits) = Len(events)
  BY <1>1, AppendOne DEF ReproInv, CheckpointInv
<1>4. PICK n, q, r : n = Len(events) /\ q = page' /\ r = ring'
  OBVIOUS
<1>5. /\ n \in Nat /\ Len(events') = n + 1 /\ Len(hits') = n + 1
      /\ events'[n + 1] = e /\ hits'[n + 1] = nodes
      /\ \A i \in 1 .. n : events'[i] = events[i] /\ hits'[i] = hits[i]
  BY <1>1, <1>3, <1>4
<1>6. ASSUME ~lossy', ~early' PROVE \E w, v : Trace(w, v)' /\ Place(w, v)'
  <2>1. PICK w, v : Trace(w, v) /\ Place(w, v)
    BY <1>1, <1>6 DEF ReproInv
  <2>2. IsPage(page) /\ Shown(page) = w[n + 1] /\ ring = v[n + 1]
    BY <1>4, <2>1 DEF Place
  <2>3. IsPage(q) /\ Recorded(e, nodes, w[n + 1], v[n + 1], Shown(q), r)
    BY <1>1, <1>4, <1>6, <2>2
  <2>4. PICK x, y : /\ x = [i \in 1 .. n + 2 |-> IF i = n + 2 THEN Shown(q) ELSE w[i]]
                    /\ y = [i \in 1 .. n + 2 |-> IF i = n + 2 THEN r ELSE v[i]]
    OBVIOUS
  <2>5. /\ x[n + 2] = Shown(q) /\ y[n + 2] = r
        /\ \A i \in 1 .. n + 1 : x[i] = w[i] /\ y[i] = v[i]
    BY <1>5, <2>4
  <2>6. Trace(x, y)'
    <3>1. x[1] = Shown(Loaded(<<Url0>>, 1, Order)) /\ y[1] = {}
      BY <1>5, <2>1, <2>5 DEF Trace
    <3>2. \A i \in 1 .. n + 2 : Still(x[i])
      <4>1. Still(Shown(q))
        BY <2>3, ShownStill
      <4>2. \A i \in 1 .. n + 1 : Still(w[i])
        BY <1>4, <2>1 DEF Trace
      <4>3. \A i \in 1 .. n + 2 : i = n + 2 \/ i \in 1 .. n + 1
        BY <1>5
      <4>4. QED
        BY <2>5, <4>1, <4>2, <4>3
    <3>3. \A i \in 1 .. n + 1 : Recorded(events'[i], hits'[i], x[i], y[i], x[i + 1], y[i + 1])
      <4> SUFFICES ASSUME NEW i \in 1 .. n + 1
                   PROVE  Recorded(events'[i], hits'[i], x[i], y[i], x[i + 1], y[i + 1])
        OBVIOUS
      <4>1. CASE i = n + 1
        <5>1. /\ x[i] = w[n + 1] /\ y[i] = v[n + 1] /\ x[i + 1] = Shown(q) /\ y[i + 1] = r
              /\ events'[i] = e /\ hits'[i] = nodes
          BY <1>5, <2>5, <4>1
        <5>2. QED
          BY <2>3, <5>1
      <4>2. CASE i # n + 1
        <5>1. i \in 1 .. n /\ i + 1 \in 1 .. n + 1 /\ i \in 1 .. n + 1
          BY <1>5, <4>2
        <5>2. /\ x[i] = w[i] /\ y[i] = v[i] /\ x[i + 1] = w[i + 1] /\ y[i + 1] = v[i + 1]
              /\ events'[i] = events[i] /\ hits'[i] = hits[i]
          BY <1>5, <2>5, <5>1
        <5>3. Recorded(events[i], hits[i], w[i], v[i], w[i + 1], v[i + 1])
          BY <1>4, <2>1, <5>1 DEF Trace
        <5>4. QED
          BY <5>2, <5>3
      <4>3. QED
        BY <4>1, <4>2
    <3>4. n + 1 + 1 = n + 2
      BY <1>5
    <3>5. QED
      BY <1>5, <3>1, <3>2, <3>3, <3>4 DEF Trace
  <2>7. Place(x, y)'
    <3>1. Len(events') + 1 = n + 2
      BY <1>5
    <3>2. QED
      BY <1>4, <2>3, <2>5, <3>1 DEF Place
  <2>8. QED
    BY <2>6, <2>7
<1>7. QED
  BY <1>2, <1>3, <1>5, <1>6 DEF ReproInv

LEMMA SameRepro ==
  ASSUME ReproInv, phase = "live", phase' = phase, UNCHANGED <<events, hits, early, replayVars>>,
         ~lossy' => ~lossy,
         ~lossy' /\ IsPage(page) => IsPage(page') /\ Shown(page') = Shown(page) /\ ring' = ring
  PROVE  ReproInv'
<1>1. rhits' = rhits /\ report' = report /\ target' = target
  BY DEF replayVars
<1>2. ASSUME ~lossy', ~early' PROVE \E w, v : Trace(w, v)' /\ Place(w, v)'
  <2>1. PICK w, v : Trace(w, v) /\ Place(w, v)
    BY <1>2 DEF ReproInv
  <2>2. Trace(w, v)'
    BY <2>1 DEF Trace
  <2>3. Place(w, v)'
    BY <1>2, <2>1 DEF Place
  <2>4. QED
    BY <2>2, <2>3
<1>3. QED
  BY <1>1, <1>2 DEF ReproInv

(* The kept event does what the request did.                               *)
LEMMA KeptDoes ==
  ASSUME NEW p, NEW s, NEW e, NEW k, k.op = e.op, k.arg = e.arg, k.by = "value",
         e.op \in ElementOps \cup RawOps,
         e.op = "select" => Matched("value", e.arg) = Matched(e.by, e.arg)
  PROVE  (Possible(p, s, e) <=> Possible(p, s, k)) /\ Effect(p, s, k) = Effect(p, s, e)
<1>1. Possible(p, s, e) <=> Possible(p, s, k)
  <2>1. CASE e.op = "select"
    BY <2>1 DEF Possible, Selects
  <2>2. CASE e.op = "click"
    BY <2>2 DEF Possible
  <2>3. CASE e.op \in {"hover", "type"}
    BY <2>3 DEF Possible
  <2>4. CASE e.op = "check"
    BY <2>4 DEF Possible
  <2>5. CASE e.op \in RawOps
    BY <2>5 DEF Possible, RawOps
  <2>6. QED
    BY <2>1, <2>2, <2>3, <2>4, <2>5 DEF ElementOps
<1>2. CASE e.op = "select"
  <2>1. Effect(p, s, e) = SelectOption(p, s, e.by, e.arg)
    BY <1>2 DEF Effect
  <2>2. Effect(p, s, k) = SelectOption(p, s, "value", e.arg)
    BY <1>2 DEF Effect
  <2>3. Matched("value", e.arg) = Matched(e.by, e.arg)
    BY <1>2
  <2>4. QED
    BY <1>1, <2>1, <2>2, <2>3 DEF SelectOption
<1>3. CASE e.op # "select"
  <2>1. CASE ~Possible(p, s, e)
    BY <1>1, <1>3, <2>1 DEF Effect
  <2>2. CASE Possible(p, s, e) /\ e.op \in RawOps
    BY <1>1, <1>3, <2>2 DEF Effect, RawOps
  <2>3. CASE Possible(p, s, e) /\ e.op \in {"click", "type", "check", "hover"}
    BY <1>1, <1>3, <2>3 DEF Effect, RawOps
  <2>4. QED
    BY <1>3, <2>1, <2>2, <2>3 DEF ElementOps
<1>4. QED
  BY <1>1, <1>2, <1>3

LEMMA ElementRecorded ==
  ASSUME NEW p, Still(p), NEW s \in Positions, NEW r, NEW e, e.op \in ElementOps, Possible(p, s, e),
         NEW q, q = Effect(p, s, e), LiveFingerprint(q, s) = LiveFingerprint(p, s),
         NEW k, k.op = e.op, k.arg = e.arg, k.by = "value", k.sel = s,
         k.fp = LiveFingerprint(p, s), k.idx = LiveIndex(q, s),
         ~Mistakable(p, s, k.idx),
         e.op = "select" => Matched("value", e.arg) = Matched(e.by, e.arg)
  PROVE  Still(q) /\ OnElement(k, <<Resolve(p, s)>>, p, r, q, r \cup Heard(p, q, k, s))
<1> DEFINE n == Resolve(p, s)
<1>1. n \in Nodes /\ n # NoNode /\ IsPage(p) /\ Shown(p) = p /\ p.out = {} /\ Positions # {}
  BY StillAt, PrintOfNode, ShownStill DEF Still
<1>2. k.fp = Ident(p, n)
  BY <1>1 DEF LiveFingerprint
<1>3. Possible(p, s, k) /\ Effect(p, s, k) = q
  BY KeptDoes
<1>4. Still(q)
  BY <1>1, EffectPage DEF Commutes, Still
<1>5. (\A a, b \in Twins(p, Ident(p, n)) : a = b) => k.idx = 0
  BY AloneIsFirst
<1>6. QED
  BY <1>1, <1>2, <1>3, <1>4, <1>5 DEF OnElement

LEMMA RawRecorded ==
  ASSUME NEW p, Still(p), NEW s \in Positions, NEW r, NEW e, e.op \in RawOps, Possible(p, s, e),
         NEW q, q = Effect(p, s, e), ~Displaced(p, s),
         NEW k, k.op = e.op, k.arg = e.arg, k.by = "value", k.sel = s
  PROVE  Still(q) /\ Raw(k, <<Resolve(p, s)>>, p, r, q, r \cup Heard(p, q, k, s))
<1>1. Resolve(p, s) \in Nodes /\ IsPage(p) /\ Shown(p) = p /\ p.out = {} /\ Positions # {}
  BY StillAt, ShownStill DEF Still
<1>2. Possible(p, s, k) /\ Effect(p, s, k) = q
  BY KeptDoes DEF RawOps
<1>3. Still(q)
  BY <1>1, EffectPage DEF Commutes, Still
<1>4. QED
  BY <1>2, <1>3 DEF Raw

LEMMA ElementActionRepro ==
  ASSUME CheckpointInv, ReproInv, NEW op \in ElementOps \cup RawOps, NEW s \in Positions, NEW arg,
         NEW by, NEW number, ElementAction(op, s, arg, by, number)
  PROVE  ReproInv'
<1> DEFINE e == [Event(op) EXCEPT !.sel = s, !.arg = arg, !.by = by, !.number = number]
           q == Effect(page, s, e)
           own == LiveFingerprint(page, s)
           fp == IF op \in RawOps THEN NoPrint ELSE LiveFingerprint(q, s)
           kept == [e EXCEPT !.by = "value", !.fp = fp, !.idx = LiveIndex(q, s), !.own = own]
           loses == \/ op \in ElementOps /\ (fp # own \/ Mistakable(page, s, kept.idx))
                    \/ op \in RawOps /\ Displaced(page, s)
                    \/ op = "select" /\ Matched("value", arg) # Matched(by, arg)
           nodes == <<Resolve(page, s)>>
<1>1. phase = "live" /\ phase' = phase /\ UNCHANGED replayVars /\ page' = q
  BY DEF ElementAction, Recording
<1>2. CASE Possible(page, s, e)
  <2>1. Record(kept, nodes, loses) /\ ring' = ring \cup Heard(page, q, e, s)
    BY <1>2 DEF ElementAction
  <2>2. nodes # <<>>
    OBVIOUS
  <2>3. e.op = op /\ e.arg = arg /\ e.by = by /\ kept.op = op /\ kept.arg = arg
        /\ kept.by = "value" /\ kept.sel = s
    BY DEF Event
  <2>4. Heard(page, q, e, s) = Heard(page, q, kept, s)
    BY <2>3 DEF Heard
  <2>5. ASSUME ~loses, IsPage(page), Settled(page)
        PROVE  IsPage(q) /\ Recorded(kept, nodes, Shown(page), ring, Shown(q), ring')
    <3>1. Still(page) /\ Shown(page) = page
      BY <2>5, ShownStill DEF Still, Settled
    <3>2. CASE op \in ElementOps
      <4>1. op \notin RawOps
        BY <3>2 DEF ElementOps, RawOps
      <4>2. fp = LiveFingerprint(q, s) /\ fp = own /\ ~Mistakable(page, s, kept.idx)
            /\ (op = "select" => Matched("value", arg) = Matched(by, arg))
        BY <2>5, <3>2, <4>1
      <4>3. kept.fp = fp /\ kept.idx = LiveIndex(q, s)
        BY DEF Event
      <4>4. Still(q) /\ OnElement(kept, nodes, page, ring, q, ring \cup Heard(page, q, kept, s))
        <5>1. q = Effect(page, s, e) /\ fp = LiveFingerprint(page, s)
          BY <4>2
        <5> HIDE DEF kept, fp, own, q, e
        <5>2. QED
          BY <1>2, <2>3, <3>1, <3>2, <4>2, <4>3, <5>1, ElementRecorded
      <4> HIDE DEF kept, q
      <4>5. QED
        BY <2>1, <2>4, <3>1, <4>4, ShownStill DEF Recorded, Still
    <3>3. CASE op \in RawOps
      <4>1. ~Displaced(page, s)
        BY <2>5, <3>3
      <4>2. Still(q) /\ Raw(kept, nodes, page, ring, q, ring \cup Heard(page, q, kept, s))
        <5>1. q = Effect(page, s, e)
          OBVIOUS
        <5> HIDE DEF kept, e, q
        <5>2. QED
          BY <1>2, <2>3, <3>1, <3>3, <4>1, <5>1, RawRecorded
      <4> HIDE DEF kept, q
      <4>3. QED
        BY <2>1, <2>4, <3>1, <4>2, ShownStill DEF Recorded, Still
    <3>4. QED
      BY <3>2, <3>3
  <2> HIDE DEF kept, nodes, loses, q
  <2>6. QED
    BY <1>1, <2>1, <2>2, <2>5, RecordExtends
<1>3. CASE ~Possible(page, s, e)
  <2>1. lossy' = (lossy \/ q # page) /\ UNCHANGED <<events, hits, early, ring>>
    BY <1>3 DEF ElementAction
  <2>2. ~lossy' => ~lossy /\ q = page
    BY <2>1, Zenon
  <2>3. UNCHANGED <<events, hits, early, replayVars>>
    BY <1>1, <2>1
  <2>4. QED
    BY <1>1, <2>1, <2>2, <2>3, SameRepro
<1>4. QED
  BY <1>2, <1>3

(* Setting values of text fields changes no identity.                      *)
LEMMA SetIdents ==
  ASSUME NEW p, IsPage(p), NEW ns, NEW fs
  PROVE  LET q == SetNativeValue(p, ns, fs) IN
         /\ q.order = p.order /\ q.sent = p.sent
         /\ \A n \in Nodes : Kind[n] = "text" => Ident(q, n) = Ident(p, n)
<1> DEFINE given(m) == {i \in DOMAIN ns : ns[i] = m}
           val == [m \in Nodes |-> IF given(m) = {} THEN p.val[m] ELSE fs[Max(given(m))].text]
           focus == IF DOMAIN ns = {} THEN p.focus ELSE ns[Max(DOMAIN ns)]
<1>1. SetNativeValue(p, ns, fs) = [p EXCEPT !.val = val, !.focus = focus]
  BY Zenon DEF SetNativeValue
<1> HIDE DEF val, focus
<1>2. [p EXCEPT !.val = val, !.focus = focus].order = p.order
      /\ [p EXCEPT !.val = val, !.focus = focus].sent = p.sent
  BY DEF IsPage, PageFields
<1>3. QED
  BY <1>1, <1>2 DEF Ident

(* Fields with the same texts are set alike.                               *)
LEMMA SetSame ==
  ASSUME NEW p, NEW k \in Nat, NEW ns, DOMAIN ns = 1 .. k, NEW fs, NEW gs,
         \A i \in 1 .. k : fs[i].text = gs[i].text
  PROVE  SetNativeValue(p, ns, fs) = SetNativeValue(p, ns, gs)
<1> DEFINE given(m) == {i \in DOMAIN ns : ns[i] = m}
           focus == IF DOMAIN ns = {} THEN p.focus ELSE ns[Max(DOMAIN ns)]
           val(f) == [m \in Nodes |-> IF given(m) = {} THEN p.val[m] ELSE f[Max(given(m))].text]
<1>1. ASSUME NEW m \in Nodes, given(m) # {} PROVE fs[Max(given(m))].text = gs[Max(given(m))].text
  <2>1. given(m) \subseteq 1 .. k
    OBVIOUS
  <2>2. Max(given(m)) \in given(m)
    <3> HIDE DEF given
    <3>1. QED
      BY <1>1, <2>1, MaxTaken
  <2>3. Max(given(m)) \in 1 .. k
    <3> HIDE DEF given
    <3>1. QED
      BY <2>1, <2>2
  <2> HIDE DEF given
  <2>4. QED
    BY <2>3
<1>2. val(fs) = val(gs)
  <2> HIDE DEF given
  <2>1. QED
    BY <1>1
<1>3. /\ SetNativeValue(p, ns, fs) = [p EXCEPT !.val = val(fs), !.focus = focus]
      /\ SetNativeValue(p, ns, gs) = [p EXCEPT !.val = val(gs), !.focus = focus]
  BY Zenon DEF SetNativeValue
<1> HIDE DEF val, focus
<1>4. QED
  BY <1>2, <1>3

(* A fill of all its fields on page p, which leaves q and is kept.          *)
Filled(p, sels, asked, kept, h, q) ==
    /\ asked = [i \in DOMAIN sels |-> [sel |-> sels[i], text |-> Text]]
    /\ \A i \in DOMAIN sels : TakesValue(p, sels[i])
    /\ h = [i \in DOMAIN sels |-> Resolve(p, sels[i])]
    /\ q = FilledTo(p, asked, DOMAIN sels)
    /\ kept = [i \in DOMAIN sels |->
                 [sel |-> sels[i], text |-> Text, fp |-> LiveFingerprint(q, sels[i]),
                  idx |-> LiveIndex(q, sels[i])]]
    /\ \A i \in DOMAIN sels : /\ ~Mistakable(p, sels[i], LiveIndex(q, sels[i]))
                              /\ ~Shifts(p, sels[i])

LEMMA FillRecorded ==
  ASSUME NEW p, Still(p), NEW sels \in Fills, NEW asked, NEW kept, NEW q, NEW r, NEW h, NEW e,
         Filled(p, sels, asked, kept, h, q), e.op = "fill", e.fields = kept
  PROVE  Still(q) /\ OnFields(e, h, p, r, q, r \cup Heard(p, q, Event("fill"), 0))
<1>1. /\ asked = [i \in DOMAIN sels |-> [sel |-> sels[i], text |-> Text]]
      /\ \A i \in DOMAIN sels : TakesValue(p, sels[i])
      /\ h = [i \in DOMAIN sels |-> Resolve(p, sels[i])]
      /\ q = FilledTo(p, asked, DOMAIN sels)
      /\ kept = [i \in DOMAIN sels |->
                   [sel |-> sels[i], text |-> Text, fp |-> LiveFingerprint(q, sels[i]),
                    idx |-> LiveIndex(q, sels[i])]]
      /\ \A i \in DOMAIN sels : /\ ~Mistakable(p, sels[i], LiveIndex(q, sels[i]))
                                /\ ~Shifts(p, sels[i])
  BY DEF Filled
<1>2. IsPage(p) /\ Shown(p) = p /\ p.out = {}
  BY ShownStill DEF Still
<1>3. sels \in Seq(Positions)
  BY ReplayBounds DEF Positions
<1>4. /\ \A i \in DOMAIN sels : sels[i] \in Positions
      /\ Len(sels) \in Nat /\ DOMAIN sels = 1 .. Len(sels)
  BY <1>3
<1>5. DOMAIN asked = DOMAIN sels /\ DOMAIN kept = DOMAIN sels /\ DOMAIN h = DOMAIN sels
  BY <1>1
<1>6. \A i \in DOMAIN sels :
         /\ asked[i].sel = sels[i] /\ asked[i].text = Text
         /\ kept[i].sel = sels[i] /\ kept[i].text = Text
         /\ kept[i].fp = LiveFingerprint(q, sels[i]) /\ kept[i].idx = LiveIndex(q, sels[i])
         /\ h[i] = Resolve(p, sels[i])
         /\ kept[i] = [sel |-> kept[i].sel, text |-> kept[i].text, fp |-> kept[i].fp,
                       idx |-> kept[i].idx]
  BY <1>1
<1>7. [i \in DOMAIN sels |-> Resolve(p, asked[i].sel)] = h
  BY <1>1, <1>6
<1>8. q = SetNativeValue(p, h, asked)
  BY <1>1, <1>7 DEF FilledTo
<1>9. IsPage(q) /\ q.out = p.out
  BY <1>2, <1>8, SetPage DEF Commutes
<1>10. Still(q)
  BY <1>2, <1>9 DEF Still
<1>11. q = SetNativeValue(p, h, kept)
  <2>1. \A i \in 1 .. Len(sels) : asked[i].text = kept[i].text
    BY <1>4, <1>6
  <2>2. DOMAIN h = 1 .. Len(sels)
    BY <1>4, <1>5
  <2>3. QED
    BY <1>4, <1>8, <2>1, <2>2, SetSame
<1>12. \A i \in DOMAIN sels : h[i] \in Nodes /\ Kind[h[i]] = "text"
  BY <1>1, <1>4, <1>6, StillAt DEF TakesValue
<1>13. ASSUME NEW i \in DOMAIN sels PROVE kept[i].fp = Ident(p, h[i])
  <2>1. h[i] \in Nodes /\ Kind[h[i]] = "text" /\ h[i] = p.order[sels[i]]
    BY <1>1, <1>4, <1>6, <1>12, StillAt
  <2>2. q.order = p.order /\ Ident(q, h[i]) = Ident(p, h[i])
    BY <1>2, <1>8, <2>1, SetIdents
  <2>3. Resolve(q, sels[i]) = h[i] /\ h[i] # NoNode
    <3>1. h[i] # NoNode
      BY <2>1, PrintOfNode
    <3>2. sels[i] \in Positions
      BY <1>4
    <3>3. Resolve(q, sels[i]) = q.order[sels[i]]
      BY <1>10, <3>2, StillAt
    <3>4. QED
      BY <2>1, <2>2, <3>1, <3>3
  <2>4. LiveFingerprint(q, sels[i]) = Ident(p, h[i])
    BY <2>2, <2>3 DEF LiveFingerprint
  <2>5. QED
    BY <1>6, <2>4
<1>14. ASSUME NEW i \in DOMAIN sels PROVE FieldOn(kept[i], h[i], p)
  <2>1. /\ ~Mistakable(p, kept[i].sel, kept[i].idx) /\ ~Shifts(p, kept[i].sel)
        /\ h[i] = Resolve(p, kept[i].sel) /\ kept[i].sel \in Positions
    BY <1>1, <1>4, <1>6
  <2>2. kept[i] = [sel |-> kept[i].sel, text |-> kept[i].text, fp |-> kept[i].fp,
                   idx |-> kept[i].idx]
    BY <1>6
  <2>3. QED
    BY <1>12, <1>13, <2>1, <2>2 DEF FieldOn
<1>15. h = [i \in DOMAIN kept |-> Resolve(p, kept[i].sel)]
  BY <1>1, <1>5, <1>6
<1>16. Heard(p, q, Event("fill"), 0) = {}
  <2>1. q.sent = p.sent
    BY <1>2, <1>8, SetIdents
  <2>2. ~(q.sent > p.sent)
    <3>1. p.sent \in Nat
      BY <1>2 DEF IsPage
    <3>2. QED
      BY <2>1, <3>1
  <2>3. Event("fill").op = "fill"
    BY DEF Event
  <2>4. QED
    BY <2>2, <2>3 DEF Heard
<1>17. QED
  BY <1>5, <1>10, <1>11, <1>14, <1>15, <1>16 DEF OnFields

LEMMA FillRepro ==
  ASSUME CheckpointInv, ReproInv, NEW sels \in Fills, NEW byRef \in BOOLEAN, NEW submit \in BOOLEAN,
         Fill(sels, byRef, submit)
  PROVE  ReproInv'
<1> DEFINE asked == [i \in DOMAIN sels |-> [sel |-> sels[i], text |-> Text]]
           set == {i \in DOMAIN sels : /\ TakesValue(page, sels[i])
                                       /\ FindElement(page, sels[i]) # NoNode}
           failed == set # DOMAIN sels
           filled == FilledTo(page, asked, set)
           q == IF submit /\ ~failed THEN FormSubmit(filled, sels[1]) ELSE filled
           kept == [i \in DOMAIN sels |->
                       IF byRef THEN [sel |-> 0, text |-> Text, fp |-> NoPrint, idx |-> 0]
                       ELSE [sel |-> sels[i], text |-> Text, fp |-> LiveFingerprint(q, sels[i]),
                             idx |-> LiveIndex(q, sels[i])]]
           e == [Event("fill") EXCEPT !.fields = kept]
           nodes == [i \in set |-> Resolve(page, sels[i])]
           loses == \/ failed \/ byRef \/ submit
                    \/ \E i \in DOMAIN sels : \/ Mistakable(page, sels[i], LiveIndex(q, sels[i]))
                                              \/ Shifts(page, sels[i])
<1>1. /\ phase = "live" /\ phase' = phase /\ UNCHANGED replayVars /\ page' = q
      /\ ring' = ring \cup Heard(page, q, Event("fill"), 0) /\ Record(e, nodes, loses)
  BY DEF Fill, Recording
<1>2. ASSUME ~loses, IsPage(page), Settled(page) \/ (nodes = <<>> /\ e.op # "expect")
      PROVE  IsPage(q) /\ Recorded(e, nodes, Shown(page), ring, Shown(q), ring')
  <2>1. set = DOMAIN sels /\ byRef = FALSE /\ submit = FALSE
        /\ \A i \in DOMAIN sels : /\ ~Mistakable(page, sels[i], LiveIndex(q, sels[i]))
                                  /\ ~Shifts(page, sels[i])
    BY <1>2
  <2>2. DOMAIN sels # {}
    <3>1. sels \in Seq(Positions) /\ sels # <<>>
      BY ReplayBounds DEF Positions
    <3>2. Len(sels) \in Nat /\ Len(sels) # 0 /\ DOMAIN sels = 1 .. Len(sels)
      BY <3>1
    <3>3. QED
      <4>1. 1 \in DOMAIN sels
        BY <3>2
      <4>2. QED
        BY <4>1
  <2>3. nodes # <<>>
    BY <2>1, <2>2
  <2>4. Still(page) /\ Shown(page) = page
    BY <1>2, <2>3, ShownStill DEF Still, Settled
  <2>5. e.op = "fill" /\ e.fields = kept
    BY DEF Event
  <2>6. q = FilledTo(page, asked, DOMAIN sels)
    BY <2>1
  <2>7. nodes = [i \in DOMAIN sels |-> Resolve(page, sels[i])]
    BY <2>1
  <2>8. kept = [i \in DOMAIN sels |->
                  [sel |-> sels[i], text |-> Text, fp |-> LiveFingerprint(q, sels[i]),
                   idx |-> LiveIndex(q, sels[i])]]
    BY <2>1
  <2>9. \A i \in DOMAIN sels : TakesValue(page, sels[i])
    BY <2>1
  <2>10. asked = [i \in DOMAIN sels |-> [sel |-> sels[i], text |-> Text]]
    OBVIOUS
  <2> HIDE DEF asked, kept, q, e, nodes
  <2>11. Still(q) /\ OnFields(e, nodes, page, ring, q, ring')
    <3>1. Filled(page, sels, asked, kept, nodes, q)
      BY <2>1, <2>6, <2>7, <2>8, <2>9, <2>10 DEF Filled
    <3>2. QED
      BY <1>1, <2>4, <2>5, <3>1, FillRecorded
  <2>12. IsPage(q) /\ Shown(q) = q
    BY <2>11, ShownStill DEF Still
  <2>13. QED
    BY <2>4, <2>11, <2>12 DEF Recorded
<1> HIDE DEF q, e, nodes, loses
<1>3. QED
  BY <1>1, <1>2, RecordExtends

LEMMA PageActionRepro ==
  ASSUME CheckpointInv, ReproInv, NEW e, e.op \in PageOps,
         {"op", "arg", "by", "px"} \subseteq DOMAIN e,
         e.op = "scroll" => e.by \in {"down", "up", "top", "bottom"} /\ e.px \in Int,
         PageAction(e)
  PROVE  ReproInv'
<1> DEFINE q == PageEffect(page, e)
           g == PageEffect(Shown(page), e)
           loses == \/ e.op = "scroll" /\ e.by \in {"down", "up"} /\ e.px <= 0
                    \/ e.op = "cookies"
<1>1. /\ phase = "live" /\ phase' = phase /\ UNCHANGED replayVars /\ page' = q
      /\ ring' = ring \cup Heard(page, q, e, 0) /\ Record(e, <<>>, loses)
  BY DEF PageAction, Recording
<1>2. ASSUME ~loses, IsPage(page)
      PROVE  IsPage(q) /\ Recorded(e, <<>>, Shown(page), ring, Shown(q), ring')
  <2>1. IsPage(q) /\ Shown(q) = Shown(g) /\ q.sent = g.sent
    BY <1>2, PageEffectPage
  <2>2. page.sent = Shown(page).sent
    BY <1>2, OfShown
  <2>3. e.op # "click"
    BY DEF PageOps
  <2>4. Heard(page, q, e, 0) = Heard(Shown(page), g, e, 0)
    BY <2>1, <2>2, <2>3 DEF Heard
  <2>5. e.op # "cookies" /\ (e.op = "scroll" => /\ e.by \in {"down", "up", "top", "bottom"}
                                                /\ e.by \in {"down", "up"} => e.px > 0)
    BY <1>2
  <2> HIDE DEF q
  <2>6. OnPage(e, <<>>, Shown(page), ring, Shown(q), ring')
    BY <1>1, <2>1, <2>4, <2>5 DEF OnPage
  <2>7. QED
    BY <2>1, <2>6 DEF Recorded
<1> HIDE DEF q, loses
<1>3. QED
  BY <1>1, <1>2, RecordExtends

LEMMA ExpectRepro ==
  ASSUME CheckpointInv, ReproInv, NEW F \in Asked, NEW s, NEW errors, Expect(F, s, errors)
  PROVE  ReproInv'
<1> DEFINE at == IF "selector" \in F THEN s ELSE 0
           e == [Event("expect") EXCEPT !.want = RecordedFields(F), !.asked = F, !.at = s,
                                        !.sel = at]
           loses == "ref" \in F \/ ~Condition(page, ring, F, s) \/ errors # {}
<1>1. /\ phase = "live" /\ phase' = phase /\ UNCHANGED replayVars /\ page' = page
      /\ ring' = ring \cup errors /\ Record(e, <<>>, loses)
  BY DEF Expect, Recording, replayVars
<1>2. e.op = "expect" /\ e.want = RecordedFields(F) /\ e.asked = F /\ e.at = s /\ e.sel = at
  <2> HIDE DEF at
  <2>1. QED
    BY DEF Event
<1>3. F \subseteq Fields /\ Accepted(F) /\ ~({"selector", "ref"} \subseteq F)
  BY ReplayBounds
<1> HIDE DEF e
<1>4. ASSUME ~loses, IsPage(page), Settled(page) \/ (<<>> = <<>> /\ e.op # "expect")
      PROVE  IsPage(page') /\ Recorded(e, <<>>, Shown(page), ring, Shown(page'), ring')
  <2>0. page' = page /\ ring' = ring
    BY <1>1, <1>4
  <2>1. Shown(page) = page
    BY <1>2, <1>4, ShownStill DEF Settled
  <2>2. KeptOf(e) /\ "ref" \notin e.asked /\ Condition(page, ring, e.asked, e.at)
    BY <1>2, <1>3, <1>4 DEF KeptOf
  <2>3. Condition(page, ring, ReplayedFields(e.want), e.sel)
    BY <2>2, SameCondition
  <2>4. e.want = F /\ F \subseteq Fields \ {"ref"}
    BY <1>2, <1>3, <1>4 DEF RecordedFields
  <2>5. OnCondition(e, <<>>, page, ring, page, ring)
    BY <1>2, <1>3, <2>3, <2>4 DEF OnCondition
  <2>6. QED
    BY <1>4, <2>0, <2>1, <2>5 DEF Recorded
<1> HIDE DEF loses
<1>5. QED
  BY <1>1, <1>4, RecordExtends

(* What renders late belongs to no page that is remembered.                *)
LEMMA RenderShown ==
  ASSUME NEW p, IsPage(p), NEW n
  PROVE  IsPage(Render(p, n)) /\ Shown(Render(p, n)) = Shown(p)
BY DEF IsPage, Shown, Render, PageFields

LEMMA AppearRepro ==
  ASSUME CheckpointInv, ReproInv, NEW n \in Late, Appear(n)
  PROVE  ReproInv'
<1>1. /\ page' = Render(page, n) /\ phase # "done" /\ slipped' = (slipped \/ target # 0)
      /\ UNCHANGED <<ring, phase, events, hits, lossy, early, index, target, report, rhits,
                     livePage, moved>>
  BY DEF Appear, eventVars
<1>2. ~slipped' => ~slipped /\ target = 0
  BY <1>1, Zenon
<1>3. ASSUME ~lossy, ~early PROVE \E w, v : Trace(w, v)' /\ Place(w, v)'
  <2>1. PICK w, v : Trace(w, v) /\ Place(w, v)
    BY <1>3 DEF ReproInv
  <2>2. Trace(w, v)'
    BY <1>1, <2>1 DEF Trace
  <2>3. IsPage(page) => IsPage(page') /\ Shown(page') = Shown(page)
    BY <1>1, RenderShown
  <2>4. AtEvent(w, v) /\ ~slipped' => AtEvent(w, v)'
    BY <1>1, <1>2, <2>3 DEF AtEvent
  <2>5. Place(w, v)'
    BY <1>1, <1>2, <2>1, <2>3, <2>4 DEF Place
  <2>6. QED
    BY <2>2, <2>5
<1>4. QED
  BY <1>1, <1>3 DEF ReproInv

LEMMA LogErrorRepro ==
  ASSUME CheckpointInv, ReproInv, LogError
  PROVE  ReproInv'
<1>1. /\ phase = "replay" /\ slipped' = TRUE
      /\ UNCHANGED <<page, phase, events, hits, lossy, early, index, target, report, rhits,
                     livePage, moved>>
  BY DEF LogError, NextIs, eventVars
<1>2. ASSUME ~lossy, ~early PROVE \E w, v : Trace(w, v)' /\ Place(w, v)'
  <2>1. PICK w, v : Trace(w, v) /\ Place(w, v)
    BY <1>2 DEF ReproInv
  <2>2. Trace(w, v)'
    BY <1>1, <2>1 DEF Trace
  <2>3. Place(w, v)'
    BY <1>1, <2>1 DEF Place
  <2>4. QED
    BY <2>2, <2>3
<1>3. QED
  BY <1>1, <1>2 DEF ReproInv

LEMMA StartRepro ==
  ASSUME CheckpointInv, ReproInv, NEW p, Start(p)
  PROVE  ReproInv'
<1>1. /\ phase = "live" /\ phase' = "replay" /\ page' = p /\ livePage' = page /\ index' = 1
      /\ UNCHANGED <<events, hits, lossy, early, target, report, rhits, slipped>>
  BY DEF Start, eventVars
<1>2. ~moved' => ring' = {} /\ p = Loaded(<<Url0>>, 1, Order)
  BY DEF Start
<1>3. report.failed = 0 /\ rhits = <<>> /\ target = 0
  BY <1>1 DEF ReproInv, NoReport
<1>4. ASSUME ~lossy, ~early PROVE \E w, v : Trace(w, v)' /\ Place(w, v)'
  <2>1. PICK w, v : Trace(w, v) /\ Place(w, v)
    BY <1>4 DEF ReproInv
  <2>2. Trace(w, v)'
    BY <1>1, <2>1 DEF Trace
  <2>3. ~moved' => IsPage(page') /\ Shown(page') = w[1] /\ ring' = v[1]
    <3>1. Order \in [Positions -> Nodes]
      BY PageAssumption DEF Positions
    <3>2. QED
      BY <1>1, <1>2, <2>1, <3>1, LoadedPage DEF Trace
  <2>4. ~moved' => AtEvent(w, v)'
    BY <1>1, <1>3, <2>3 DEF AtEvent
  <2>5. Shown(livePage') = w[Len(events) + 1]
    BY <1>1, <2>1 DEF Place
  <2>6. Place(w, v)'
    BY <1>1, <2>4, <2>5 DEF Place
  <2>7. QED
    BY <2>2, <2>6
<1>5. QED
  BY <1>1, <1>4 DEF ReproInv

-----------------------------------------------------------------------------
(* The event a replay that follows the recording stands at.                *)
Follows(w, v) ==
    /\ Trace(w, v) /\ AtEvent(w, v) /\ Shown(livePage) = w[Len(events) + 1]
    /\ phase = "replay" /\ ~lossy /\ ~early /\ ~moved /\ ~slipped

LEMMA FollowsEvent ==
  ASSUME CheckpointInv, ReproInv, NEW w, NEW v, Follows(w, v)
  PROVE  /\ index \in 1 .. Len(events) /\ Still(w[index]) /\ Still(w[index + 1])
         /\ IsPage(page) /\ Shown(page) = w[index] /\ ring = v[index]
         /\ Recorded(events[index], hits[index], w[index], v[index], w[index + 1], v[index + 1])
<1>1. index \in 1 .. Len(events) /\ Len(events) \in Nat
  BY DEF CheckpointInv, Follows
<1>2. index \in 1 .. Len(events) + 1 /\ index + 1 \in 1 .. Len(events) + 1
  BY <1>1
<1>3. QED
  BY <1>1, <1>2 DEF Follows, Trace, AtEvent

(* A replay step keeps the invariant if it does where it follows.          *)
LEMMA ReplayRepro ==
  ASSUME CheckpointInv, ReproInv, phase = "replay", phase' \in {"replay", "done"},
         UNCHANGED <<eventVars, livePage, moved, slipped>>,
         rhits' = rhits \/ \E nodes : rhits' = Append(rhits, nodes),
         \A w, v : Follows(w, v) => Place(w, v)'
  PROVE  ReproInv'
<1>1. rhits' \in Seq(ToSet(rhits'))
  BY AppendOne DEF ReproInv
<1>2. UNCHANGED <<events, hits, lossy, early, livePage, moved, slipped>>
  BY DEF eventVars
<1>3. ASSUME ~lossy, ~early PROVE \E w, v : Trace(w, v)' /\ Place(w, v)'
  <2>1. PICK w, v : Trace(w, v) /\ Place(w, v)
    BY <1>3 DEF ReproInv
  <2>2. Trace(w, v)'
    BY <1>2, <2>1 DEF Trace
  <2>3. CASE moved \/ slipped
    <3>1. Shown(livePage') = w[Len(events') + 1]
      BY <1>2, <2>1 DEF Place
    <3>2. ~(~moved' /\ ~slipped') /\ phase' # "live"
      BY <1>2, <2>3
    <3>3. Place(w, v)'
      BY <3>1, <3>2 DEF Place
    <3>4. QED
      BY <2>2, <3>3
  <2>4. CASE ~moved /\ ~slipped
    <3>1. Follows(w, v)
      BY <1>3, <2>1, <2>4 DEF Place, Follows
    <3>2. QED
      BY <2>2, <3>1
  <2>5. QED
    BY <2>2, <2>3, <2>4
<1>4. QED
  BY <1>1, <1>2, <1>3 DEF ReproInv

(* Passing from one remembered page to the next.                           *)
LEMMA PassFollows ==
  ASSUME CheckpointInv, ReproInv, NEW w, NEW v, Follows(w, v), NEW q, NEW nodes, Pass(q, nodes),
         IsPage(q), Shown(q) = w[index + 1], ring' = v[index + 1], nodes = hits[index],
         report'.failed = 0
  PROVE  Place(w, v)'
<1>1. /\ page' = q /\ rhits' = Append(rhits, nodes) /\ index' = index + 1 /\ target' = 0
      /\ phase' = IF index = Len(events) THEN "done" ELSE phase
      /\ UNCHANGED <<events, hits, livePage, moved, slipped>>
  BY DEF Pass, eventVars
<1>2. /\ index \in 1 .. Len(events) /\ Len(events) \in Nat /\ Len(hits) = Len(events)
      /\ rhits \in Seq(ToSet(rhits)) /\ hits \in Seq(ToSet(hits))
      /\ Len(rhits) = index - 1 /\ \A j \in 1 .. index - 1 : rhits[j] = hits[j]
  BY DEF CheckpointInv, ReproInv, Follows, AtEvent
<1>3. /\ Len(rhits') = index /\ rhits' \in Seq(ToSet(rhits'))
      /\ \A j \in 1 .. index : rhits'[j] = hits[j]
  <2>1. Len(rhits') = index /\ rhits'[index] = nodes /\ \A j \in 1 .. index - 1 : rhits'[j] = rhits[j]
    BY <1>1, <1>2
  <2>2. rhits' \in Seq(ToSet(rhits'))
    BY <1>1, <1>2, AppendOne
  <2>3. \A j \in 1 .. index : j = index \/ j \in 1 .. index - 1
    BY <1>2
  <2>4. QED
    BY <1>2, <2>1, <2>2, <2>3
<1>4. CASE index = Len(events)
  <2>1. rhits' = hits
    <3>1. Len(rhits') = Len(hits)
      BY <1>2, <1>3, <1>4
    <3>2. \A j \in 1 .. Len(rhits') : rhits'[j] = hits[j]
      BY <1>3
    <3>3. QED
      BY <1>2, <1>3, <3>1, <3>2
  <2>2. phase' = "done"
    BY <1>1, <1>4
  <2>3. QED
    BY <1>1, <1>4, <2>1, <2>2 DEF Place, Follows
<1>5. CASE index # Len(events)
  <2>1. phase' = "replay"
    BY <1>1, <1>5 DEF Follows
  <2>2. index + 1 - 1 = index
    BY <1>2
  <2>3. AtEvent(w, v)'
    BY <1>1, <1>3, <2>2 DEF AtEvent
  <2>4. QED
    BY <1>1, <2>1, <2>3 DEF Place, Follows
<1>6. QED
  BY <1>4, <1>5

(* An event is known by its operation.                                     *)
LEMMA RecordedKind ==
  ASSUME NEW e, NEW h, NEW p, NEW r, NEW q, NEW t, Recorded(e, h, p, r, q, t)
  PROVE  /\ e.op \in ElementOps => OnElement(e, h, p, r, q, t)
         /\ e.op \in RawOps => Raw(e, h, p, r, q, t)
         /\ e.op = "fill" => OnFields(e, h, p, r, q, t)
         /\ e.op \in PageOps => OnPage(e, h, p, r, q, t)
         /\ e.op = "expect" => OnCondition(e, h, p, r, q, t)
BY DEF Recorded, OnElement, Raw, OnFields, OnPage, OnCondition, ElementOps, RawOps, PageOps

LEMMA ResolveTargetRepro ==
  ASSUME CheckpointInv, ReproInv, ResolveTarget
  PROVE  ReproInv'
<1> DEFINE e == events[index]
           to == Relocated(page, e.sel, e.fp, e.idx)
<1>1. phase = "replay" /\ e.op \in ElementOps /\ target = 0
  BY DEF ResolveTarget, NextIs, Cur
<1>2. UNCHANGED <<eventVars, livePage, moved, slipped, rhits>> /\ phase' \in {"replay", "done"}
  BY <1>1 DEF ResolveTarget, Fail
<1>3. \/ /\ to # 0 /\ target' = to
         /\ report' = [report EXCEPT !.healed = IF to = e.sel THEN @ ELSE @ \cup {index}]
         /\ UNCHANGED <<page, ring, phase, index>>
      \/ to = 0 /\ Settled(page)
  BY DEF ResolveTarget, Cur
<1>4. ASSUME NEW w, NEW v, Follows(w, v) PROVE Place(w, v)'
  <2> DEFINE n == Resolve(w[index], e.sel)
  <2>1. /\ index \in 1 .. Len(events) /\ Still(w[index]) /\ IsPage(page) /\ Shown(page) = w[index]
        /\ Recorded(e, hits[index], w[index], v[index], w[index + 1], v[index + 1])
    BY <1>4, FollowsEvent
  <2>2. /\ e.sel \in Positions /\ n \in Nodes /\ e.fp = Ident(w[index], n)
        /\ ~Mistakable(w[index], e.sel, e.idx)
    <3>1. OnElement(e, hits[index], w[index], v[index], w[index + 1], v[index + 1])
      BY <1>1, <2>1, RecordedKind
    <3>2. QED
      BY <3>1 DEF OnElement
  <2> HIDE DEF e
  <2>3. to # 0 => Resolve(page, to) = n
    BY <2>1, <2>2, Relocates
  <2>4. to # 0
    <3>1. CASE Settled(page)
      <4>1. page = w[index]
        BY <2>1, <3>1, ShownStill DEF Settled
      <4>2. to = e.sel
        BY <2>2, <4>1, RelocatesStill
      <4>3. QED
        BY <2>2, <4>2, PositionsNat
    <3>2. CASE ~Settled(page)
      BY <1>3, <3>2
    <3>3. QED
      BY <3>1, <3>2
  <2>5. /\ target' = to /\ UNCHANGED <<page, ring, phase, index>>
        /\ report' = [report EXCEPT !.healed = IF to = e.sel THEN @ ELSE @ \cup {index}]
    BY <1>3, <2>4
  <2>6. report'.failed = report.failed
    BY <2>5 DEF CheckpointInv, Reports
  <2>7. AtEvent(w, v)'
    BY <1>1, <1>2, <1>4, <2>3, <2>5, <2>6 DEF Follows, AtEvent, eventVars, e
  <2>8. QED
    BY <1>2, <1>4, <2>5, <2>7 DEF Place, Follows, eventVars
<1>5. QED
  BY <1>1, <1>2, <1>4, ReplayRepro

LEMMA PassChanges ==
  ASSUME phase = "replay", NEW q, NEW nodes, Pass(q, nodes) \/ Fail(q)
  PROVE  /\ UNCHANGED <<eventVars, livePage, moved, slipped>> /\ phase' \in {"replay", "done"}
         /\ rhits' = rhits \/ \E ns : rhits' = Append(rhits, ns)
BY DEF Pass, Fail

LEMMA PerformRepro ==
  ASSUME CheckpointInv, ReproInv, Perform
  PROVE  ReproInv'
<1> DEFINE e == events[index]
           q == Effect(page, target, e)
           nodes == <<Resolve(page, target)>>
<1>1. phase = "replay" /\ e.op \in ElementOps /\ target # 0
  BY DEF Perform, NextIs, Cur
<1>2. IF Possible(page, target, e)
      THEN Pass(q, nodes) /\ ring' = ring \cup Heard(page, q, e, target) /\ UNCHANGED report
      ELSE Fail(q)
  BY DEF Perform, PerformAt, Cur
<1>3. ASSUME NEW w, NEW v, Follows(w, v) PROVE Place(w, v)'
  <2> DEFINE p == w[index]
             n == Resolve(p, e.sel)
  <2>1. /\ index \in 1 .. Len(events) /\ Still(p) /\ Still(w[index + 1])
        /\ IsPage(page) /\ Shown(page) = p /\ ring = v[index]
        /\ Recorded(e, hits[index], p, v[index], w[index + 1], v[index + 1])
    BY <1>3, FollowsEvent
  <2>2. OnElement(e, hits[index], p, v[index], w[index + 1], v[index + 1])
    BY <1>1, <2>1, RecordedKind
  <2>3. /\ e.sel \in Positions /\ n \in Nodes /\ hits[index] = <<n>> /\ Possible(p, e.sel, e)
        /\ w[index + 1] = Effect(p, e.sel, e)
        /\ v[index + 1] = v[index] \cup Heard(p, w[index + 1], e, e.sel)
    BY <2>2 DEF OnElement
  <2>4. Resolve(page, target) = n /\ report.failed = 0
    BY <1>1, <1>3 DEF Follows, AtEvent
  <2> HIDE DEF e, p
  <2>5. Possible(page, target, e)
    BY <1>1, <2>1, <2>3, <2>4, PossibleSame
  <2>6. Commutes(q, w[index + 1], page)
    BY <1>1, <2>1, <2>3, <2>4, EffectPage
  <2>7. IsPage(q) /\ Shown(q) = w[index + 1]
    BY <2>6 DEF Commutes
  <2> HIDE DEF q
  <2>8. page.sent = p.sent /\ q.sent = w[index + 1].sent
    BY <2>1, <2>7, OfShown
  <2>9. Heard(page, q, e, target) = Heard(p, w[index + 1], e, e.sel)
    BY <2>4, <2>8 DEF Heard
  <2>10. ring' = v[index + 1] /\ report'.failed = 0 /\ nodes = hits[index] /\ Pass(q, nodes)
    BY <1>2, <2>1, <2>3, <2>4, <2>5, <2>9
  <2> HIDE DEF nodes
  <2>11. QED
    BY <1>3, <2>7, <2>10, PassFollows
<1>4. QED
  <2>1. Pass(q, nodes) \/ Fail(q)
    BY <1>2
  <2> HIDE DEF q, nodes
  <2>2. QED
    BY <1>1, <1>3, <2>1, PassChanges, ReplayRepro

LEMMA PerformRawRepro ==
  ASSUME CheckpointInv, ReproInv, PerformRaw
  PROVE  ReproInv'
<1> DEFINE e == events[index]
           q == Effect(page, e.sel, e)
           nodes == <<Resolve(page, e.sel)>>
<1>1. phase = "replay" /\ e.op \in RawOps
  BY DEF PerformRaw, NextIs, Cur
<1>2. IF Possible(page, e.sel, e)
      THEN Pass(q, nodes) /\ ring' = ring \cup Heard(page, q, e, e.sel) /\ UNCHANGED report
      ELSE Fail(q)
  BY DEF PerformRaw, PerformAt, Cur
<1>3. ASSUME NEW w, NEW v, Follows(w, v) PROVE Place(w, v)'
  <2>1. /\ index \in 1 .. Len(events) /\ Still(w[index]) /\ Still(w[index + 1])
        /\ IsPage(page) /\ Shown(page) = w[index] /\ ring = v[index]
        /\ Recorded(e, hits[index], w[index], v[index], w[index + 1], v[index + 1])
    BY <1>3, FollowsEvent
  <2>2. Raw(e, hits[index], w[index], v[index], w[index + 1], v[index + 1])
    BY <1>1, <2>1, RecordedKind
  <2> DEFINE p == w[index]
  <2>3. Resolve(page, e.sel) = Resolve(p, e.sel)
    <3>1. page.out \in SUBSET Late /\ page = [p EXCEPT !.out = page.out]
      BY <2>1, OfShown DEF IsPage
    <3>2. ~Displaced(p, e.sel)
      BY <2>2 DEF Raw
    <3> HIDE DEF e, p
    <3>3. QED
      BY <3>1, <3>2 DEF Displaced
  <2>4. /\ Resolve(p, e.sel) \in Nodes /\ Possible(p, e.sel, e) /\ hits[index] = nodes
        /\ w[index + 1] = Effect(p, e.sel, e) /\ Positions # {}
        /\ v[index + 1] = v[index] \cup Heard(p, w[index + 1], e, e.sel)
    BY <2>1, <2>2, <2>3, StillAt DEF Raw
  <2>11. p = Shown(page)
    BY <2>1
  <2> HIDE DEF e, p
  <2>12. Resolve(page, e.sel) = Resolve(Shown(page), e.sel) /\ e.op \in ElementOps \cup RawOps
    BY <1>1, <2>3, <2>11
  <2>5. Possible(page, e.sel, e) /\ Commutes(q, w[index + 1], page)
    <3>1. Possible(page, e.sel, e)
      BY <2>1, <2>4, <2>11, <2>12, PossibleSame
    <3>2. Commutes(Effect(page, e.sel, e), Effect(Shown(page), e.sel, e), page)
      BY <2>1, <2>3, <2>4, <2>12, EffectPage
    <3>3. QED
      BY <2>4, <2>11, <3>1, <3>2
  <2>6. IsPage(q) /\ Shown(q) = w[index + 1]
    BY <2>5 DEF Commutes
  <2> HIDE DEF q
  <2>7. page.sent = p.sent /\ q.sent = w[index + 1].sent
    BY <2>1, <2>6, <2>11, OfShown
  <2>8. Heard(page, q, e, e.sel) = Heard(p, w[index + 1], e, e.sel)
    BY <2>3, <2>7 DEF Heard
  <2>9. report'.failed = 0 /\ ring' = v[index + 1] /\ Pass(q, nodes)
    BY <1>2, <1>3, <2>1, <2>4, <2>5, <2>8 DEF Follows, AtEvent
  <2> HIDE DEF nodes
  <2>10. QED
    BY <1>3, <2>4, <2>6, <2>9, PassFollows
<1>4. QED
  <2>1. Pass(q, nodes) \/ Fail(q)
    BY <1>2
  <2> HIDE DEF q, nodes
  <2>2. QED
    BY <1>1, <1>3, <2>1, PassChanges, ReplayRepro

(* A recorded field is found where it was, or not at all.                  *)
LEMMA FieldFound ==
  ASSUME NEW p, IsPage(p), NEW f, NEW n, FieldOn(f, n, Shown(p)),
         NEW to, to = Relocated(p, f.sel, f.fp, f.idx), Settled(p) \/ to # 0
  PROVE  to = f.sel /\ to # 0 /\ Resolve(p, to) = n /\ TakesValue(p, f.sel)
<1> DEFINE w == Shown(p)
<1>1. /\ n = Resolve(w, f.sel) /\ n \in Nodes /\ Kind[n] = "text" /\ f.sel \in Positions
      /\ f.fp = Ident(w, n) /\ ~Mistakable(w, f.sel, f.idx) /\ ~Shifts(w, f.sel)
  BY DEF FieldOn
<1>2. f.sel # 0 /\ n # NoNode
  <2>1. f.sel # 0
    BY <1>1, PositionsNat
  <2>2. n # NoNode
    BY <1>1, PrintOfNode
  <2>3. QED
    BY <2>1, <2>2
<1>3. to = f.sel /\ Resolve(p, to) = n
  <2>1. CASE Settled(p)
    <3>1. p = w
      BY <2>1, ShownStill DEF Settled
    <3>2. QED
      BY <1>1, <3>1, RelocatesStill
  <2>2. CASE to # 0
    <3>1. Resolve(p, to) = n /\ to \in DOMAIN At(p)
      BY <1>1, <2>2, Relocates
    <3>2. At(p)[to] = n
      BY <3>1 DEF Resolve
    <3>3. CASE to # f.sel
      <4>1. p = [w EXCEPT !.out = p.out] /\ p.out \in SUBSET Late
        BY OfShown DEF IsPage
      <4>2. Resolve(p, f.sel) = n
        BY <1>1, <3>1, <3>2, <3>3, <4>1 DEF Shifts
      <4>3. Ident(p, n) = Ident(w, n)
        BY OfShown DEF Ident
      <4>4. LiveFingerprint(p, f.sel) = f.fp
        BY <1>1, <1>2, <4>2, <4>3 DEF LiveFingerprint
      <4>5. QED
        BY <3>3, <4>4 DEF Relocated
    <3>4. QED
      BY <3>1, <3>3
  <2>3. QED
    BY <2>1, <2>2
<1>4. QED
  BY <1>1, <1>2, <1>3 DEF TakesValue

LEMMA ReplayFillRepro ==
  ASSUME CheckpointInv, ReproInv, ReplayFill
  PROVE  ReproInv'
<1> DEFINE e == events[index]
           fs == e.fields
           found == [i \in DOMAIN fs |-> Relocated(page, fs[i].sel, fs[i].fp, fs[i].idx)]
           bad == {i \in DOMAIN fs : \/ found[i] # fs[i].sel \/ found[i] = 0
                                     \/ ~TakesValue(page, fs[i].sel)}
           set == {i \in DOMAIN fs : \A j \in bad : i < j}
           q == FilledTo(page, fs, set)
           nodes == [i \in DOMAIN fs |-> Resolve(page, fs[i].sel)]
<1>1. phase = "replay" /\ e.op = "fill"
  BY DEF ReplayFill, NextIs, Cur
<1>2. /\ Settled(page) \/ \A i \in DOMAIN fs : fs[i].fp # NoPrint => found[i] # 0
      /\ IF bad = {} THEN Pass(q, nodes) /\ UNCHANGED <<ring, report>> ELSE Fail(q)
  BY DEF ReplayFill, Cur
<1>3. ASSUME NEW w, NEW v, Follows(w, v) PROVE Place(w, v)'
  <2> DEFINE p == w[index]
             h == hits[index]
  <2>1. /\ index \in 1 .. Len(events) /\ Still(p) /\ Still(w[index + 1])
        /\ IsPage(page) /\ Shown(page) = p /\ ring = v[index]
        /\ Recorded(e, h, p, v[index], w[index + 1], v[index + 1])
    BY <1>3, FollowsEvent
  <2>2. OnFields(e, h, p, v[index], w[index + 1], v[index + 1])
    BY <1>1, <2>1, RecordedKind
  <2>3. /\ \A i \in DOMAIN fs : FieldOn(fs[i], h[i], p)
        /\ h = [i \in DOMAIN fs |-> Resolve(p, fs[i].sel)]
        /\ w[index + 1] = SetNativeValue(p, h, fs) /\ v[index + 1] = v[index]
    BY <2>2 DEF OnFields
  <2>4. ASSUME NEW i \in DOMAIN fs
        PROVE  /\ found[i] = fs[i].sel /\ found[i] # 0 /\ Resolve(page, fs[i].sel) = h[i]
               /\ TakesValue(page, fs[i].sel)
    <3>1. FieldOn(fs[i], h[i], Shown(page))
      BY <2>1, <2>3
    <3>2. fs[i].fp # NoPrint
      BY <3>1, PrintOfNode DEF FieldOn
    <3>3. found[i] = Relocated(page, fs[i].sel, fs[i].fp, fs[i].idx)
      OBVIOUS
    <3>4. Settled(page) \/ found[i] # 0
      BY <1>2, <3>2
    <3> HIDE DEF found, fs
    <3>5. QED
      BY <2>1, <3>1, <3>3, <3>4, FieldFound
  <2> HIDE DEF fs, found
  <2>5. bad = {} /\ nodes = h /\ set = DOMAIN fs
    BY <2>3, <2>4
  <2>6. q = SetNativeValue(page, h, fs)
    <3>1. [i \in set |-> Resolve(page, fs[i].sel)] = h
      <4> HIDE DEF set
      <4>1. QED
        BY <2>5
    <3> HIDE DEF set
    <3>2. QED
      BY <3>1 DEF FilledTo
  <2> HIDE DEF q, nodes, bad, p
  <2>7. IsPage(q) /\ Shown(q) = w[index + 1]
    BY <2>1, <2>3, <2>6, SetPage DEF Commutes
  <2>8. Pass(q, nodes) /\ ring' = v[index + 1] /\ report'.failed = 0 /\ nodes = hits[index]
    BY <1>2, <1>3, <2>1, <2>3, <2>5 DEF Follows, AtEvent
  <2>9. QED
    BY <1>3, <2>7, <2>8, PassFollows
<1>4. QED
  <2>1. Pass(q, nodes) \/ Fail(q)
    BY <1>2
  <2> HIDE DEF q, nodes
  <2>2. QED
    BY <1>1, <1>3, <2>1, PassChanges, ReplayRepro

LEMMA ReplayPageRepro ==
  ASSUME CheckpointInv, ReproInv, ReplayPage
  PROVE  ReproInv'
<1> DEFINE e == events[index]
           q == PageEffect(page, Scrolled(e))
<1>1. phase = "replay" /\ e.op \in PageOps
  BY DEF ReplayPage, NextIs, Cur
<1>2. IF e.op = "cookies" THEN Fail(page)
      ELSE Pass(q, <<>>) /\ ring' = ring \cup Heard(page, q, e, 0) /\ UNCHANGED report
  BY DEF ReplayPage, Cur
<1>3. ASSUME NEW w, NEW v, Follows(w, v) PROVE Place(w, v)'
  <2> DEFINE p == w[index]
             h == hits[index]
             g == PageEffect(p, e)
  <2>1. /\ index \in 1 .. Len(events) /\ Still(p) /\ Still(w[index + 1])
        /\ IsPage(page) /\ Shown(page) = p /\ ring = v[index]
        /\ Recorded(e, h, p, v[index], w[index + 1], v[index + 1])
    BY <1>3, FollowsEvent
  <2>2. OnPage(e, h, p, v[index], w[index + 1], v[index + 1])
    BY <1>1, <2>1, RecordedKind
  <2>3. /\ e.op # "cookies" /\ h = <<>> /\ {"op", "arg", "by", "px"} \subseteq DOMAIN e
        /\ e.op = "scroll" => e.by \in {"down", "up", "top", "bottom"}
        /\ w[index + 1] = Shown(g) /\ v[index + 1] = v[index] \cup Heard(p, g, e, 0)
    BY <2>2 DEF OnPage
  <2>5. q = PageEffect(page, e)
    BY <2>2, ReplayedPixels
  <2> HIDE DEF e, p, q, h
  <2>6. IsPage(q) /\ Shown(q) = Shown(g) /\ q.sent = g.sent
    BY <2>1, <2>3, <2>5, PageEffectPage
  <2> HIDE DEF g
  <2>7. page.sent = p.sent
    BY <2>1, OfShown
  <2>8. e.op # "click"
    BY <1>1 DEF PageOps
  <2>9. Heard(page, q, e, 0) = Heard(p, g, e, 0)
    BY <2>6, <2>7, <2>8 DEF Heard
  <2>10. Pass(q, <<>>) /\ ring' = v[index + 1] /\ report'.failed = 0 /\ <<>> = hits[index]
    BY <1>2, <1>3, <2>1, <2>3, <2>9 DEF Follows, AtEvent, h
  <2>11. QED
    BY <1>3, <2>3, <2>6, <2>10, PassFollows
<1>4. QED
  <2>1. Pass(q, <<>>) \/ Fail(page)
    BY <1>2
  <2> HIDE DEF q
  <2>2. QED
    BY <1>1, <1>3, <2>1, PassChanges, ReplayRepro

LEMMA ReplayExpectRepro ==
  ASSUME CheckpointInv, ReproInv, ReplayExpect
  PROVE  ReproInv'
<1> DEFINE e == events[index]
           holds == Condition(page, ring, ReplayedFields(e.want), e.sel)
<1>1. phase = "replay" /\ e.op = "expect"
  BY DEF ReplayExpect, NextIs, Cur
<1>2. \/ /\ holds /\ Pass(page, <<>>)
         /\ report' = [report EXCEPT !.total = @ + 1, !.passed = @ + 1]
         /\ UNCHANGED ring
      \/ ~holds /\ Settled(page) /\ Fail(page)
  BY DEF ReplayExpect, Cur
<1>3. ASSUME NEW w, NEW v, Follows(w, v) PROVE Place(w, v)'
  <2>1. /\ index \in 1 .. Len(events) /\ Still(w[index]) /\ Still(w[index + 1])
        /\ IsPage(page) /\ Shown(page) = w[index] /\ ring = v[index]
        /\ Recorded(e, hits[index], w[index], v[index], w[index + 1], v[index + 1])
    BY <1>3, FollowsEvent
  <2>2. OnCondition(e, hits[index], w[index], v[index], w[index + 1], v[index + 1])
    BY <1>1, <2>1, RecordedKind
  <2>3. /\ hits[index] = <<>> /\ w[index + 1] = w[index] /\ v[index + 1] = v[index]
        /\ Condition(w[index], v[index], ReplayedFields(e.want), e.sel)
    BY <2>2 DEF OnCondition
  <2> HIDE DEF e
  <2>4. Settled(page) => page = w[index]
    BY <2>1, ShownStill DEF Settled
  <2>5. Settled(page) => holds
    BY <2>1, <2>3, <2>4
  <2>6. /\ Pass(page, <<>>) /\ ring' = ring
        /\ report' = [report EXCEPT !.total = @ + 1, !.passed = @ + 1]
    BY <1>2, <2>5
  <2>7. report'.failed = 0
    BY <1>3, <2>6 DEF CheckpointInv, Reports, Follows, AtEvent
  <2>8. QED
    BY <1>3, <2>1, <2>3, <2>6, <2>7, PassFollows
<1>4. QED
  <2>1. Pass(page, <<>>) \/ Fail(page)
    BY <1>2
  <2>2. QED
    BY <1>1, <1>3, <2>1, PassChanges, ReplayRepro

-----------------------------------------------------------------------------
LEMMA LiveRepro ==
  ASSUME CheckpointInv, ReproInv, LiveStep
  PROVE  ReproInv'
<1>1. ASSUME NEW s \in Positions, HandleClick(s) PROVE ReproInv'
  BY <1>1, ElementActionRepro DEF HandleClick, ElementOps
<1>2. ASSUME NEW s \in Positions, HandleHover(s) PROVE ReproInv'
  BY <1>2, ElementActionRepro DEF HandleHover, ElementOps
<1>3. ASSUME NEW s \in Positions, HandleType(s) PROVE ReproInv'
  BY <1>3, ElementActionRepro DEF HandleType, ElementOps
<1>4. ASSUME NEW s \in Positions, HandleMouseDoubleclick(s) PROVE ReproInv'
  BY <1>4, ElementActionRepro DEF HandleMouseDoubleclick, RawOps
<1>5. ASSUME NEW s \in Positions, NEW c \in Specs, HandleSelect(s, c) PROVE ReproInv'
  BY <1>5, ElementActionRepro DEF HandleSelect, ElementOps
<1>6. ASSUME NEW s \in Positions, NEW on, HandleCheck(s, on) PROVE ReproInv'
  BY <1>6, ElementActionRepro DEF HandleCheck, ElementOps
<1>7. ASSUME NEW s \in Positions, NEW F \in Asked, NEW errors, Expect(F, s, errors)
      PROVE  ReproInv'
  BY <1>7, ExpectRepro
<1>8. ASSUME NEW sels \in Fills, NEW byRef \in BOOLEAN, NEW submit \in BOOLEAN,
             Fill(sels, byRef, submit)
      PROVE  ReproInv'
  BY <1>8, FillRepro
<1>9. ASSUME NEW op \in {"press", "reload", "back", "forward", "mouse_move", "cookies"},
             PageAction(Event(op))
      PROVE  ReproInv'
  <2>1. Event(op).op = op /\ {"op", "arg", "by", "px"} \subseteq DOMAIN Event(op)
    BY DEF Event
  <2>2. QED
    BY <1>9, <2>1, PageActionRepro DEF PageOps
<1>10. ASSUME NEW url, HandleNavigate(url) PROVE ReproInv'
  <2> DEFINE e == [Event("navigate") EXCEPT !.arg = url]
  <2>1. e.op = "navigate" /\ {"op", "arg", "by", "px"} \subseteq DOMAIN e
    BY DEF Event
  <2>2. PageAction(e)
    BY <1>10 DEF HandleNavigate
  <2> HIDE DEF e
  <2>3. QED
    BY <2>1, <2>2, PageActionRepro DEF PageOps
<1>11. ASSUME NEW d \in {"down", "up", "top", "bottom"}, NEW px \in Pixels, HandleScroll(d, px)
       PROVE  ReproInv'
  <2> DEFINE e == [Event("scroll") EXCEPT !.by = d, !.px = px]
  <2>1. e.op = "scroll" /\ {"op", "arg", "by", "px"} \subseteq DOMAIN e /\ e.by = d /\ e.px \in Int
    BY ReplayBounds DEF Event
  <2>2. PageAction(e)
    BY <1>11 DEF HandleScroll
  <2> HIDE DEF e
  <2>3. QED
    BY <2>1, <2>2, PageActionRepro DEF PageOps
<1>12. QED
  BY <1>1, <1>2, <1>3, <1>4, <1>5, <1>6, <1>7, <1>8, <1>9, <1>10, <1>11 DEF LiveStep,
     HandlePress, HandleReload, HandleBack, HandleForward, HandleMouseMove, Unsupported

LEMMA StutterRepro ==
  ASSUME CheckpointInv, ReproInv, UNCHANGED allVars
  PROVE  ReproInv'
<1>1. UNCHANGED <<page, ring, phase, events, hits, lossy, early, index, target, report, rhits,
                  livePage, moved, slipped>>
  BY DEF allVars, eventVars, replayVars
<1>2. ASSUME ~lossy, ~early PROVE \E w, v : Trace(w, v)' /\ Place(w, v)'
  <2>1. PICK w, v : Trace(w, v) /\ Place(w, v)
    BY <1>2 DEF ReproInv
  <2>2. Trace(w, v)' /\ Place(w, v)'
    BY <1>1, <2>1 DEF Trace, Place, AtEvent
  <2>3. QED
    BY <2>2
<1>3. QED
  BY <1>1, <1>2 DEF ReproInv

LEMMA StepRepro == CheckpointInv /\ ReproInv /\ [ReplayNext]_allVars => ReproInv'
<1> SUFFICES ASSUME CheckpointInv, ReproInv, [ReplayNext]_allVars PROVE ReproInv'
  OBVIOUS
<1>1. CASE LiveStep
  BY <1>1, LiveRepro
<1>2. ASSUME NEW p, Start(p) PROVE ReproInv'
  BY <1>2, StartRepro
<1>3. CASE ReplayStep
  BY <1>3, ResolveTargetRepro, PerformRepro, PerformRawRepro, ReplayFillRepro, ReplayPageRepro,
     ReplayExpectRepro DEF ReplayStep
<1>4. ASSUME NEW n \in Late, Appear(n) PROVE ReproInv'
  BY <1>4, AppearRepro
<1>5. CASE LogError
  BY <1>5, LogErrorRepro
<1>6. CASE UNCHANGED allVars
  BY <1>6, StutterRepro
<1>7. QED
  BY <1>1, <1>2, <1>3, <1>4, <1>5, <1>6 DEF ReplayNext

(* A recording whose actions can all be replayed, made on a settled page   *)
(* and replayed from where it started, acts on the very elements the       *)
(* session acted on and leaves the page as that session left it, however   *)
(* late the page renders (handleRecordReplay, replayAction).               *)
THEOREM ReplayReproducesHolds == ReplaySpec => []ReplayReproduces
<1>1. ReplayInit => CheckpointInv /\ ReproInv
  BY InitKeeps, InitRepro
<1>2. CheckpointInv /\ ReproInv /\ [ReplayNext]_allVars => CheckpointInv' /\ ReproInv'
  BY StepKeeps, StepRepro
<1>3. CheckpointInv /\ ReproInv => ReplayReproduces
  BY ReproInvReproduces
<1>4. QED
  BY <1>1, <1>2, <1>3, PTL DEF ReplaySpec

(* An element that shows and that nothing else is found with is the one    *)
(* its exported locator finds.                                             *)
LEMMA AloneExported ==
  ASSUME NEW p, Still(p), NEW e, e.sel \in Positions, e.fp = Ident(p, Resolve(p, e.sel)),
         Resolve(p, e.sel) \notin Hidden, \A a, b \in ByRole(p, e.fp) : a = b, e.idx = 0
  PROVE  ExportedTarget(p, e) = e.sel
<1> DEFINE s == e.sel
           n == Resolve(p, s)
<1>1. n \in Nodes /\ n = p.order[s] /\ At(p) = p.order /\ DOMAIN At(p) = Positions
  BY StillAt
<1>2. e.fp[1] = Kind[n] /\ e.fp[2] \in {Label[m] : m \in Nodes} \cup {Pressed}
  BY <1>1 DEF Ident
<1>3. <<Ident(p, n)[2], e.fp[2]>> \in Containing
  BY <1>2, ReplayBounds
<1>4. s \in ByRole(p, e.fp)
  BY <1>1, <1>2, <1>3 DEF ByRole
<1>5. ByRole(p, e.fp) = {s}
  BY <1>4
<1>6. ExportedTarget(p, e) = IF e.fp[2] = "" THEN s
                             ELSE IF \E a \in {s} : {s} = {a} THEN CHOOSE a \in {s} : TRUE ELSE 0
  BY <1>5 DEF ExportedTarget
<1>7. QED
  BY <1>6

(* Typing at a text field that takes the focus sets it.                    *)
LEMMA TypeSets ==
  ASSUME NEW p, IsPage(p), NEW n \in Nodes, Kind[n] = "text", n \notin Disabled, NEW text
  PROVE  Type(p, n, text) = [p EXCEPT !.val[n] = text, !.focus = n]
<1> DEFINE q == [p EXCEPT !.focus = n, !.val[n] = ""]
<1>1. n # NoNode
  BY PrintOfNode
<1>2. Type(p, n, text) = Insert(q, n, n, text)
  BY DEF Type
<1>3. Insert(q, n, n, text) = [q EXCEPT !.val[n] = text]
  <2> HIDE DEF q
  <2>1. QED
    BY <1>1 DEF Insert
<1>4. [q EXCEPT !.val[n] = text] = [p EXCEPT !.val[n] = text, !.focus = n]
  BY DEF IsPage, PageFields
<1>5. QED
  BY <1>2, <1>3, <1>4

(* Of options that match alone the first is the last.                      *)
LEMMA ExportedOption ==
  ASSUME NEW p, NEW s, NEW e, Selects(p, s, "value", e.arg), ~e.number,
         Operable(Resolve(p, s)), \A i, j \in Matched("value", e.arg) : i = j
  PROVE  ExportedSelect(p, Resolve(p, s), e) = SelectOption(p, s, "value", e.arg)
<1> DEFINE M == Matched("value", e.arg)
           n == Resolve(p, s)
<1>1. M # {} /\ Kind[n] = "select" /\ IsSelect(p, s)
  BY DEF Selects, IsSelect
<1>2. PICK i \in M : M = {i}
  BY <1>1
<1>3. i \in Nat
  BY <1>2, PageAssumption DEF Matched
<1>4. Min(M) = i /\ Max(M) = i
  BY <1>2, <1>3 DEF Min, Max
<1>5. ExportedSelect(p, n, e) = [p EXCEPT !.val[n] = ToString(Min(M))]
  BY <1>1, Zenon DEF ExportedSelect
<1>6. SelectOption(p, s, "value", e.arg) = [p EXCEPT !.val[n] = ToString(Max(M))]
  BY <1>1 DEF SelectOption
<1>7. QED
  BY <1>4, <1>5, <1>6

LEMMA ElementExported ==
  ASSUME NEW e, NEW h, NEW r, NEW q, NEW t, Still(page), OnElement(e, h, page, r, q, t),
         Unambiguous(e), Writable(e)
  PROVE  ExportedStep(page, e) = Effect(page, e.sel, e)
<1> DEFINE s == e.sel
           n == Resolve(page, s)
<1>1. /\ e.op \in ElementOps /\ e.by = "value" /\ s \in Positions /\ Possible(page, s, e)
      /\ n \in Nodes /\ e.fp = Ident(page, n)
  BY DEF OnElement
<1>2. (\A a, b \in Twins(page, e.fp) : a = b) /\ \A a, b \in ByRole(page, e.fp) : a = b
  BY <1>1 DEF Unambiguous, ElementOps
<1>3. e.idx = 0
  BY <1>2 DEF OnElement
<1>4. n \notin Hidden => ExportedTarget(page, e) = s
  BY <1>1, <1>2, <1>3, AloneExported
<1>5. n # NoNode /\ IsPage(page)
  BY <1>1, PrintOfNode DEF Still
<1>6. FindElement(page, s) = n <=> n \notin Hidden
  BY <1>5 DEF FindElement
<1>7. n \in Hidden => FindElement(page, s) = NoNode
  BY DEF FindElement
<1>8. CASE e.op = "click"
  <2>1. Operable(n) /\ n \notin Hidden
    BY <1>1, <1>5, <1>6, <1>7, <1>8 DEF Possible, Operable, RawOps
  <2>2. ExportedStep(page, e) = Click(page, n)
    <3>1. ExportedTarget(page, e) = s
      BY <1>4, <2>1
    <3>2. QED
      BY <3>1, <1>8, <2>1 DEF ExportedStep, Skipped, RawOps
  <2>3. Effect(page, s, e) = Click(page, n)
    BY <1>1, <1>8 DEF Effect, RawOps
  <2>4. QED
    BY <2>2, <2>3
<1>9. CASE e.op = "check"
  <2>1. Effect(page, s, e) = IF page.val[n] = e.arg THEN page ELSE Click(page, n)
    BY <1>1, <1>9 DEF Effect, RawOps
  <2>2. n \notin Hidden /\ (page.val[n] # e.arg => Operable(n))
    <3>1. FindElement(page, s) # NoNode
      BY <1>1, <1>9 DEF Possible, RawOps
    <3>2. FindElement(page, s) = n /\ n \notin Hidden
      BY <1>6, <1>7, <3>1
    <3>3. page.val[n] # e.arg => n \notin Disabled
      BY <1>1, <1>9, <3>2 DEF Possible, RawOps
    <3>4. QED
      BY <1>5, <3>2, <3>3 DEF Operable
  <2>3. ExportedStep(page, e) = IF ~Operable(n) \/ page.val[n] = e.arg THEN page ELSE Click(page, n)
    <3>1. ExportedTarget(page, e) = s
      BY <1>4, <2>2
    <3>2. QED
      BY <3>1, <1>9 DEF ExportedStep, Skipped, RawOps
  <2>4. QED
    BY <2>1, <2>2, <2>3
<1>10. CASE e.op = "type"
  <2>1. Operable(n) /\ Kind[n] = "text"
    <3>1. Operable(n) /\ e.fp[1] = "text"
      BY <1>10 DEF Writable
    <3>2. e.fp[1] = Kind[n]
      BY <1>1, PrintOfNode
    <3>3. QED
      BY <3>1, <3>2
  <2>2. ExportedStep(page, e) = [page EXCEPT !.val[n] = e.arg, !.focus = n]
    <3>1. ExportedTarget(page, e) = s
      BY <1>4, <2>1 DEF Operable
    <3>2. QED
      BY <3>1, <1>10, <2>1 DEF ExportedStep, Skipped, RawOps
  <2>3. Effect(page, s, e) = Type(page, n, e.arg)
    BY <1>1, <1>10 DEF Effect, RawOps
  <2>4. Type(page, n, e.arg) = [page EXCEPT !.val[n] = e.arg, !.focus = n]
    <3>1. n \notin Disabled
      BY <2>1 DEF Operable
    <3> HIDE DEF n
    <3>2. QED
      BY <1>1, <1>5, <2>1, <3>1, TypeSets
  <2>5. QED
    BY <2>2, <2>3, <2>4
<1>11. CASE e.op = "select"
  <2>1. Operable(n) /\ ~e.number /\ \A i, j \in Matched("value", e.arg) : i = j
    BY <1>11, Zenon DEF Writable
  <2>2. ExportedStep(page, e) = ExportedSelect(page, n, e)
    <3>1. ExportedTarget(page, e) = s
      BY <1>4, <2>1 DEF Operable
    <3>2. QED
      BY <3>1, <1>11 DEF ExportedStep, Skipped, RawOps
  <2>3. Effect(page, s, e) = SelectOption(page, s, "value", e.arg)
    BY <1>1, <1>11 DEF Effect
  <2>4. Selects(page, s, "value", e.arg)
    BY <1>1, <1>11 DEF Possible, RawOps
  <2> HIDE DEF n
  <2>5. ExportedSelect(page, n, e) = SelectOption(page, s, "value", e.arg)
    BY <2>1, <2>4, ExportedOption DEF n
  <2>6. QED
    BY <2>2, <2>3, <2>5
<1>12. CASE e.op = "hover"
  <2>1. ExportedStep(page, e) = page
    BY <1>12 DEF ExportedStep, PageEffect, Scrolled, Skipped, RawOps
  <2>2. Effect(page, s, e) = page
    BY <1>1, <1>12 DEF Effect, RawOps
  <2>3. QED
    BY <2>1, <2>2
<1>13. QED
  BY <1>1, <1>8, <1>9, <1>10, <1>11, <1>12 DEF ElementOps

LEMMA FillExported ==
  ASSUME NEW e, NEW h, NEW r, NEW q, NEW t, Still(page), OnFields(e, h, page, r, q, t),
         Unambiguous(e), Writable(e)
  PROVE  ExportedStep(page, e) = FilledTo(page, e.fields, DOMAIN e.fields)
<1> DEFINE fs == e.fields
           ns == [i \in DOMAIN fs |-> Resolve(page, ExportedTarget(page, [fs[i] EXCEPT !.idx = 0]))]
           rs == [i \in DOMAIN fs |-> Resolve(page, fs[i].sel)]
<1>1. e.op = "fill" /\ \A i \in DOMAIN fs : FieldOn(fs[i], h[i], page)
  BY DEF OnFields
<1>2. ASSUME NEW i \in DOMAIN fs
      PROVE  ExportedTarget(page, [fs[i] EXCEPT !.idx = 0]) = fs[i].sel
  <2> DEFINE f == [fs[i] EXCEPT !.idx = 0]
  <2>1. /\ fs[i] = [sel |-> fs[i].sel, text |-> fs[i].text, fp |-> fs[i].fp, idx |-> fs[i].idx]
        /\ fs[i].sel \in Positions /\ fs[i].fp = Ident(page, Resolve(page, fs[i].sel))
    BY <1>1 DEF FieldOn
  <2>2. fs[i] \in ToSet(fs)
    BY DEF ToSet
  <2>3. \A a, b \in ByRole(page, fs[i].fp) : a = b
    BY <1>1, <2>2 DEF Unambiguous
  <2>7. Resolve(page, fs[i].sel) \notin Hidden
    BY <1>1 DEF Writable, Operable
  <2> HIDE DEF fs
  <2>4. f.sel = fs[i].sel /\ f.fp = fs[i].fp /\ f.idx = 0
    BY <2>1
  <2> HIDE DEF f
  <2>5. ExportedTarget(page, f) = f.sel
    BY <2>1, <2>3, <2>4, <2>7, AloneExported
  <2>6. QED
    BY <2>4, <2>5 DEF f
<1>3. ns = rs
  BY <1>2
<1>4. \A i \in DOMAIN rs : Operable(rs[i])
  BY <1>1 DEF Writable
<1>5. ExportedStep(page, e) = ExportedFill(page, fs)
  BY <1>1 DEF ExportedStep, Skipped, RawOps
<1>6. ExportedFill(page, fs) = IF \A i \in DOMAIN ns : Operable(ns[i])
                               THEN SetNativeValue(page, ns, fs) ELSE page
  BY DEF ExportedFill
<1>7. FilledTo(page, fs, DOMAIN fs) = SetNativeValue(page, rs, fs)
  BY DEF FilledTo
<1> HIDE DEF ns, rs, fs
<1>8. FilledTo(page, fs, DOMAIN fs) = ExportedStep(page, e)
  BY <1>3, <1>4, <1>5, <1>6, <1>7
<1>9. QED
  BY <1>8 DEF fs

(* What the spec asserts in place of a checkpoint.                         *)
LEMMA AssertionIsPolled ==
  ASSUME NEW F, F \subseteq Fields \ {"ref"}, Accepted(F),
         Polled(F) \notin {"checked", "count", "enabled", "request", "noConsoleErrors"}
  PROVE  SpecAssertion(F) = Polled(F)
<1>1. CASE "selector" \in F
  <2>1. HasTarget(F)
    BY <1>1 DEF HasTarget
  <2>2. FirstOf(<<"checked", "count", "enabled", "hidden">>, F, "visible") =
           IF "checked" \in F THEN "checked" ELSE IF "count" \in F THEN "count"
           ELSE IF "enabled" \in F THEN "enabled" ELSE IF "hidden" \in F THEN "hidden" ELSE "visible"
    BY FirstOfFour
  <2> DEFINE o == FirstOf(<<"checked", "count", "enabled", "hidden">>, F, "visible")
             t == IF "hidden" \in F THEN "hidden" ELSE "visible"
  <2>3. Polled(F) = FirstOf(<<"text", "textGone", "urlPattern", "value">>, F, o)
    BY <2>1 DEF Polled
  <2>4. SpecAssertion(F) = FirstOf(<<"text", "textGone", "urlPattern", "value">>, F, t)
    BY <1>1 DEF SpecAssertion
  <2>5. o \notin {"checked", "count", "enabled"} => o = t
    BY <2>2
  <2> HIDE DEF o, t
  <2>6. QED
    BY <2>3, <2>4, <2>5, FirstOfFour
<1>2. CASE "selector" \notin F
  <2>1. ~HasTarget(F) /\ "value" \notin F
    BY <1>2 DEF HasTarget, Accepted
  <2> DEFINE o == FirstOf(<<"request">>, F, "noConsoleErrors")
  <2>2. o \in {"request", "noConsoleErrors"}
    BY FirstOfOne
  <2>3. Polled(F) = FirstOf(<<"text", "textGone", "urlPattern", "value">>, F, o)
    BY <2>1 DEF Polled
  <2>4. SpecAssertion(F) = FirstOf(<<"text", "textGone", "urlPattern", "value">>, F, "skipped")
    BY <1>2 DEF SpecAssertion
  <2> HIDE DEF o
  <2>5. QED
    BY <2>2, <2>3, <2>4, FirstOfFour
<1>3. QED
  BY <1>1, <1>2

(* In sync, the page is the one the next event was recorded on.            *)
LEMMA InSyncEvent ==
  ASSUME CheckpointInv, ReproInv, InSync
  PROVE  /\ Still(page)
         /\ \E h, r, q, t : Recorded(Cur, h, page, r, q, t)
<1>1. PICK w, v : Trace(w, v) /\ Place(w, v)
  BY DEF InSync, ReproInv
<1>2. Follows(w, v)
  BY <1>1 DEF InSync, Follows, Place
<1>3. /\ IsPage(page) /\ Shown(page) = w[index]
      /\ Recorded(events[index], hits[index], w[index], v[index], w[index + 1], v[index + 1])
  BY <1>2, FollowsEvent
<1>4. page.out = {}
  BY DEF InSync, Settled
<1>5. page = w[index]
  BY <1>3, <1>4, ShownStill
<1>6. QED
  BY <1>3, <1>4, <1>5 DEF Still, Cur

(* While a replay from where the recording started makes the visits that   *)
(* the recording began with, the page is the one it started on.            *)
Fresh == Loaded(<<Url0>>, 1, Order)

LeadInv ==
    phase = "replay" /\ ~moved /\ Opening(index - 1) => IsPage(page) /\ Shown(page) = Shown(Fresh)

LEMMA FreshPage == IsPage(Fresh)
<1>1. Order \in [Positions -> Nodes]
  BY PageAssumption DEF Positions
<1>2. QED
  BY <1>1, LoadedPage DEF Fresh

LEMMA FreshAgain ==
  ASSUME NEW p, IsPage(p), Shown(p) = Shown(Fresh)
  PROVE  Navigate(p, Url0) = Fresh /\ Shown(p) = Shown(Navigate(p, Url0))
<1>1. Fresh.trail = <<Url0>> /\ Fresh.here = 1 /\ Fresh.base = Order
  BY DEF Fresh, Loaded
<1>2. p.trail = <<Url0>> /\ p.here = 1 /\ p.base = Order
  BY <1>1, FreshPage, OfShown
<1>3. Navigate(p, Url0) = Fresh
  BY <1>2 DEF Navigate, Reload, Url, Fresh
<1>4. QED
  BY <1>3

LEMMA InitLead == ReplayInit => LeadInv
BY DEF ReplayInit, LeadInv

(* An action of the replay that is not a visit ends the opening.           *)
LEMMA OtherLead ==
  ASSUME CheckpointInv, phase = "replay", Cur.op # "navigate",
         \/ \E q, nodes : Pass(q, nodes)
         \/ \E q : Fail(q)
  PROVE  LeadInv'
<1>1. CASE \E q : Fail(q)
  BY <1>1 DEF Fail, LeadInv
<1>2. CASE \E q, nodes : Pass(q, nodes)
  <2>1. index' = index + 1 /\ events' = events /\ index \in Nat /\ index >= 1
    BY <1>2 DEF Pass, eventVars, CheckpointInv
  <2>2. index \in 1 .. (index' - 1) /\ events'[index].op # "navigate"
    BY <2>1 DEF Cur
  <2>3. ~Opening(index - 1)'
    BY <2>2 DEF Opening
  <2>4. QED
    BY <2>3 DEF LeadInv
<1>3. QED
  BY <1>1, <1>2

LEMMA VisitLead ==
  ASSUME CheckpointInv, LeadInv, ReplayPage, Cur.op = "navigate"
  PROVE  LeadInv'
<1>1. /\ index' = index + 1 /\ events' = events /\ index \in Nat /\ index >= 1
      /\ moved' = moved /\ phase = "replay" /\ page' = PageEffect(page, Scrolled(Cur))
  BY DEF ReplayPage, NextIs, Pass, eventVars, CheckpointInv
<1>2. page' = Navigate(page, Cur.arg)
  BY <1>1 DEF Scrolled, PageEffect
<1>3. SUFFICES ASSUME ~moved, Opening(index - 1)'
               PROVE  IsPage(page') /\ Shown(page') = Shown(Fresh)
  BY <1>1 DEF LeadInv, Fresh
<1>4. index' - 1 = index
  BY <1>1
<1>5. \A i \in 1 .. index : events[i].op = "navigate" /\ events[i].arg = Url0
  BY <1>1, <1>3, <1>4 DEF Opening
<1>6. Opening(index - 1) /\ Cur.arg = Url0
  <2>1. 1 .. (index - 1) \subseteq 1 .. index /\ index \in 1 .. index
    BY <1>1
  <2>2. QED
    BY <1>5, <2>1 DEF Opening, Cur
<1>7. IsPage(page) /\ Shown(page) = Shown(Fresh)
  BY <1>1, <1>3, <1>6 DEF LeadInv
<1>8. QED
  BY <1>2, <1>6, <1>7, FreshAgain, FreshPage

LEMMA StepLead ==
  ASSUME CheckpointInv, LeadInv, [ReplayNext]_allVars
  PROVE  LeadInv'
<1>1. CASE LiveStep
  <2>1. phase' = phase /\ phase = "live"
    BY <1>1, LiveRecords DEF Live, Recording
  <2>2. QED
    BY <2>1 DEF LeadInv
<1>2. ASSUME NEW p, Start(p) PROVE LeadInv'
  <2>1. page' = p /\ (~moved' => p = Fresh)
    BY <1>2 DEF Start, Fresh
  <2>2. ~moved' => IsPage(page') /\ Shown(page') = Shown(Fresh)
    BY <2>1, FreshPage
  <2>3. QED
    BY <2>2 DEF LeadInv, Fresh
<1>3. CASE UNCHANGED <<page, phase, index, moved, events>>
  BY <1>3 DEF LeadInv, Opening, Fresh
<1>4. CASE ResolveTarget
  <2>1. phase = "replay" /\ Cur.op # "navigate"
    BY <1>4 DEF ResolveTarget, NextIs, ElementOps
  <2>2. Fail(page) \/ UNCHANGED <<page, phase, index, moved, events>>
    BY <1>4 DEF ResolveTarget, eventVars
  <2>3. QED
    BY <1>3, <2>1, <2>2, OtherLead
<1>5. CASE Perform \/ PerformRaw
  <2>1. phase = "replay" /\ Cur.op # "navigate"
    BY <1>5 DEF Perform, PerformRaw, NextIs, ElementOps, RawOps
  <2>2. (\E q, nodes : Pass(q, nodes)) \/ \E q : Fail(q)
    BY <1>5 DEF Perform, PerformRaw, PerformAt
  <2>3. QED
    BY <2>1, <2>2, OtherLead
<1>6. CASE ReplayFill
  <2>1. phase = "replay" /\ Cur.op # "navigate"
    BY <1>6 DEF ReplayFill, NextIs
  <2>2. (\E q, nodes : Pass(q, nodes)) \/ \E q : Fail(q)
    BY <1>6 DEF ReplayFill
  <2>3. QED
    BY <2>1, <2>2, OtherLead
<1>7. CASE ReplayPage
  <2>1. CASE Cur.op = "navigate"
    BY <1>7, <2>1, VisitLead
  <2>2. CASE Cur.op # "navigate"
    <3>1. phase = "replay" /\ ((\E q, nodes : Pass(q, nodes)) \/ \E q : Fail(q))
      BY <1>7 DEF ReplayPage, NextIs
    <3>2. QED
      BY <2>2, <3>1, OtherLead
  <2>3. QED
    BY <2>1, <2>2
<1>8. CASE ReplayExpect
  <2>1. phase = "replay" /\ Cur.op # "navigate"
    BY <1>8 DEF ReplayExpect, NextIs
  <2>2. (\E q, nodes : Pass(q, nodes)) \/ \E q : Fail(q)
    BY <1>8 DEF ReplayExpect
  <2>3. QED
    BY <2>1, <2>2, OtherLead
<1>9. ASSUME NEW n \in Late, Appear(n) PROVE LeadInv'
  <2>1. page' = Render(page, n) /\ UNCHANGED <<phase, index, moved, events>>
    BY <1>9 DEF Appear, eventVars
  <2>2. IsPage(page) => IsPage(page') /\ Shown(page') = Shown(page)
    BY <2>1, RenderShown
  <2>3. QED
    BY <2>1, <2>2 DEF LeadInv, Opening, Fresh
<1>10. CASE LogError
  <2>1. UNCHANGED <<page, phase, index, moved, events>>
    BY <1>10 DEF LogError, eventVars
  <2>2. QED
    BY <1>3, <2>1
<1>11. CASE UNCHANGED allVars
  <2>1. UNCHANGED <<page, phase, index, moved, events>>
    BY <1>11 DEF allVars, replayVars, eventVars
  <2>2. QED
    BY <1>3, <2>1
<1>12. QED
  BY <1>1, <1>2, <1>4, <1>5, <1>6, <1>7, <1>8, <1>9, <1>10, <1>11 DEF ReplayNext, ReplayStep

LEMMA ReproInvAgrees ==
  ASSUME CheckpointInv, ReproInv, LeadInv
  PROVE  ExportAgrees
<1> SUFFICES ASSUME InSync, Cur.op \notin Skipped, Unambiguous(Cur), Writable(Cur)
             PROVE  /\ Shown(ExportedStep(page, Cur)) = Shown(ReplayedPage(Cur))
                    /\ Cur.op = "expect" /\ Polled(Cur.want) \notin {"checked", "count", "enabled",
                                               "request", "noConsoleErrors"}
                          => SpecAssertion(Cur.want) = Polled(Cur.want)
  BY DEF ExportAgrees
<1>1. Still(page)
  BY InSyncEvent
<1>2. PICK h, r, q, t : Recorded(Cur, h, page, r, q, t)
  BY InSyncEvent
<1>3. CASE OnElement(Cur, h, page, r, q, t)
  <2>1. Cur.op \in ElementOps /\ Cur.op # "expect"
    BY <1>3 DEF OnElement, ElementOps
  <2>2. ReplayedPage(Cur) = Effect(page, Cur.sel, Cur)
    BY <2>1 DEF ReplayedPage, ElementOps
  <2>3. QED
    BY <1>1, <1>3, <2>1, <2>2, ElementExported
<1>4. CASE Raw(Cur, h, page, r, q, t)
  BY <1>4 DEF Raw, Skipped
<1>5. CASE OnFields(Cur, h, page, r, q, t)
  <2>1. Cur.op = "fill"
    BY <1>5 DEF OnFields
  <2>2. ReplayedPage(Cur) = FilledTo(page, Cur.fields, DOMAIN Cur.fields)
    BY <2>1 DEF ReplayedPage, ElementOps, RawOps
  <2>3. QED
    BY <1>1, <1>5, <2>1, <2>2, FillExported
<1>6. CASE OnPage(Cur, h, page, r, q, t)
  <2>1. Cur.op \in PageOps /\ Cur.op # "expect"
    BY <1>6 DEF OnPage, PageOps
  <2>2. ReplayedPage(Cur) = PageEffect(page, Cur)
    BY <2>1 DEF ReplayedPage, ElementOps, RawOps, PageOps
  <2>3. CASE Cur.op # "navigate"
    <3>1. PageEffect(page, Scrolled(Cur)) = PageEffect(page, Cur)
      BY <1>6, ReplayedPixels
    <3>2. ExportedStep(page, Cur) = PageEffect(page, Scrolled(Cur))
      BY <2>1, <2>3 DEF ExportedStep, PageOps
    <3>3. QED
      BY <2>1, <2>2, <3>1, <3>2
  <2>4. CASE Cur.op = "navigate"
    <3>1. PageEffect(page, Cur) = Navigate(page, Cur.arg)
      BY <2>4 DEF PageEffect
    <3>2. ExportedStep(page, Cur) = IF Opening(index) THEN page ELSE Navigate(page, Cur.arg)
      BY <2>4 DEF ExportedStep, Skipped, RawOps
    <3>3. ASSUME Opening(index) PROVE Shown(page) = Shown(Navigate(page, Cur.arg))
      <4>1. index \in 1 .. index /\ Opening(index - 1)
        <5>1. index \in Nat /\ index >= 1
          BY DEF CheckpointInv, InSync
        <5>2. 1 .. (index - 1) \subseteq 1 .. index /\ index \in 1 .. index
          BY <5>1
        <5>3. QED
          BY <3>3, <5>2 DEF Opening
      <4>2. Cur.arg = Url0
        BY <3>3, <4>1 DEF Opening, Cur
      <4>3. IsPage(page) /\ Shown(page) = Shown(Fresh)
        BY <4>1 DEF LeadInv, InSync
      <4>4. QED
        BY <4>2, <4>3, FreshAgain
    <3>4. QED
      BY <2>1, <2>2, <3>1, <3>2, <3>3
  <2>5. QED
    BY <2>3, <2>4
<1>7. CASE OnCondition(Cur, h, page, r, q, t)
  <2>1. /\ Cur.op = "expect" /\ Cur.want \subseteq Fields \ {"ref"} /\ Accepted(Cur.want)
    BY <1>7 DEF OnCondition
  <2>2. ReplayedPage(Cur) = PageEffect(page, Cur)
    BY <2>1 DEF ReplayedPage, ElementOps, RawOps
  <2>3. ExportedStep(page, Cur) = PageEffect(page, Cur)
    BY <2>1 DEF ExportedStep, Scrolled, Skipped, RawOps
  <2>4. QED
    BY <2>1, <2>2, <2>3, AssertionIsPolled
<1>8. QED
  BY <1>2, <1>3, <1>4, <1>5, <1>6, <1>7 DEF Recorded

(* Where nothing else has its fingerprint or is found by its role and      *)
(* name, a step the exported spec has does to the page what the recorded   *)
(* action did, the opening visits it leaves out included, and asserts what *)
(* the replay polls (export.go, writeActionSpec and writeExpectSpec).      *)
THEOREM ExportAgreesHolds == ReplaySpec => []ExportAgrees
<1>1. ReplayInit => CheckpointInv /\ ReproInv /\ LeadInv
  BY InitKeeps, InitRepro, InitLead
<1>2. CheckpointInv /\ ReproInv /\ LeadInv /\ [ReplayNext]_allVars
        => CheckpointInv' /\ ReproInv' /\ LeadInv'
  BY StepKeeps, StepRepro, StepLead
<1>3. CheckpointInv /\ ReproInv /\ LeadInv => ExportAgrees
  BY ReproInvAgrees
<1>4. QED
  BY <1>1, <1>2, <1>3, PTL DEF ReplaySpec

=============================================================================
