------------------------------ MODULE Evidence ------------------------------
(***************************************************************************)
(* What an action's receipt reports (dialogs.go, downloads.go): dialogs    *)
(* that the listeners of the pages answered by themselves, and downloads   *)
(* that the browser's one download listener tracks.  Both tables are       *)
(* guarded by s.mu; a receipt is collected some time after its action, in  *)
(* two critical sections.  /inject/js/add holds s.mu while it asks page    *)
(* after page, and a page that shows a dialog does not reply.  The daemon  *)
(* may be restarted: its tables start empty, the downloads directory stays.*)
(*                                                                         *)
(* Requests and console errors in a receipt are EventRing's.  A dialog is  *)
(* a number, in the order the pages open them, a download its GUID.        *)
(***************************************************************************)
EXTENDS Integers, Sequences, FiniteSets, SequencesExt, Functions

CONSTANTS
    Pages,          \* pages with a dialog listener
    Handlers,       \* action requests served at a time
    Names,          \* file names servers suggest
    DialogLogCap,   \* dialogLogCap (50)
    DownloadsCap,   \* downloadsCap (50)
    MaxEffects,     \* bound: dialogs ever opened and downloads ever begun
    MaxActions,     \* bound: action requests
    MaxAdmin        \* bound: policy changes, clears, injects and restarts

\* Nobody suggests a GUID for a file name.
ASSUME EvidenceBounds ==
    /\ DialogLogCap \in Nat \ {0} /\ DownloadsCap \in Nat \ {0}
    /\ MaxEffects \in Nat /\ MaxActions \in Nat /\ MaxAdmin \in Nat
    /\ Names \cap (0 .. MaxEffects) = {} /\ "none" \notin Names

VARIABLES
    policy,     \* s.dialogPolicy
    showing,    \* per page: the dialog that holds it up, or 0
    opened,     \* dialogs opened so far
    answered,   \* per dialog: what the browser was told, or "open"
    missed,     \* the dialogs whose answer failed
    listener,   \* per page: what its listener has read and will answer
    injecting,  \* the pages that /inject/js/add, holding s.mu, has yet to ask;
                \* <<>> when s.mu is free
    dialogLog,  \* s.dialogLog
    begun,      \* downloads begun so far
    fate,       \* per download: its state in the browser
    named,      \* per download: the file name its server suggested
    events,     \* the browser's download events on their way
    downloads,  \* s.downloads, newest first
    disk,       \* the directory: file name or GUID -> the download whose
                \* bytes the file holds
    clock,      \* time, which everything that takes a time stamp moves
    at,         \* per handler: its step and local variables
    seen,       \* history, per handler: the downloads whose begin was handled
                \* since its action started
    acted,      \* actions so far
    admin,      \* policy changes, clears, injects and restarts so far
    receipts,   \* history: the receipts written
    forgotten   \* history: dialogs cleared, evicted or lost with the daemon

vars == <<policy, showing, opened, answered, missed, listener, injecting, dialogLog, begun,
          fate, named, events, downloads, disk, clock, at, seen, acted, admin, receipts,
          forgotten>>
dialogVars == <<policy, showing, opened, answered, missed, listener, injecting, dialogLog>>
downloadVars == <<begun, fate, named, events, downloads, disk>>
requestVars == <<at, seen, acted, receipts>>

Dialogs == 1 .. MaxEffects
GUIDs == 1 .. MaxEffects
Policies == {"accept", "dismiss"}
Idle == [step |-> "idle"]
Quiet == [dialog |-> 0]
Unlocked == injecting = <<>>
Logged == {dialogLog[i].id : i \in DOMAIN dialogLog}
Tracked == {downloads[i].guid : i \in DOMAIN downloads}

TypeOK ==
    /\ policy \in Policies
    /\ showing \in [Pages -> 0 .. opened] /\ opened \in 0 .. MaxEffects
    /\ answered \in [Dialogs -> Policies \cup {"open"}]
    /\ Len(dialogLog) <= DialogLogCap
    /\ \A i \in DOMAIN dialogLog :
           dialogLog[i] \in [id : Dialogs, page : Pages, accepted : Policies]
    /\ missed \subseteq Dialogs /\ \A i \in DOMAIN injecting : injecting[i] \in Pages
    /\ begun \in 0 .. MaxEffects /\ Len(downloads) <= DownloadsCap
    /\ \A i \in DOMAIN downloads : downloads[i].guid \in GUIDs
    /\ DOMAIN disk \subseteq Names \cup GUIDs /\ forgotten \subseteq Dialogs

Init ==
    /\ policy = "dismiss" /\ showing = [p \in Pages |-> 0] /\ opened = 0
    /\ answered = [d \in Dialogs |-> "open"] /\ listener = [p \in Pages |-> Quiet]
    /\ missed = {} /\ injecting = <<>> /\ dialogLog = <<>>
    /\ begun = 0 /\ fate = [g \in GUIDs |-> "unborn"] /\ events = <<>>
    /\ named = [g \in GUIDs |-> "none"] /\ downloads = <<>> /\ disk = [f \in {} |-> 0]
    /\ clock = 0 /\ at = [h \in Handlers |-> Idle] /\ seen = [h \in Handlers |-> {}]
    /\ acted = 0 /\ admin = 0 /\ receipts = <<>> /\ forgotten = {}

\* The elements of s at the positions K, in their order.
Kept(s, K) ==
    [k \in 1 .. Cardinality(K) |-> s[CHOOSE i \in K : Cardinality({j \in K : j <= i}) = k]]

-----------------------------------------------------------------------------
\* Dialogs.

\* The page cannot go on, or open another dialog, until this one is answered.
DialogOpens(p) ==
    /\ showing[p] = 0 /\ opened + begun < MaxEffects
    /\ opened' = opened + 1
    /\ showing' = [showing EXCEPT ![p] = opened + 1]
    /\ UNCHANGED <<policy, answered, missed, listener, injecting, dialogLog, downloadVars,
                   clock, requestVars, admin, forgotten>>

\* The log is cut to its cap, the oldest entries first.
Excess(log) == IF Len(log) > DialogLogCap THEN Len(log) - DialogLogCap ELSE 0
Latest(log) == SubSeq(log, Excess(log) + 1, Len(log))

\* The listener reads the policy and logs the dialog under s.mu, once ...
ListenerLogs(p) ==
    /\ Unlocked /\ listener[p] = Quiet
    /\ showing[p] # 0 /\ showing[p] \notin missed
    /\ LET log == Append(dialogLog, [id |-> showing[p], page |-> p, accepted |-> policy])
       IN  /\ dialogLog' = Latest(log)
           /\ forgotten' = forgotten \cup {log[i].id : i \in 1 .. Excess(log)}
    /\ listener' = [listener EXCEPT ![p] = [dialog |-> showing[p], accept |-> policy]]
    /\ UNCHANGED <<policy, showing, opened, answered, missed, injecting, downloadVars, clock,
                   requestVars, admin>>

\* Mutant: the policy is read again for the answer.
AnswerByPolicy(p) == policy
Answer(p) == listener[p].accept

\* Mutant: only an accepted dialog is answered.
ListenerDeaf(p) ==
    /\ listener[p] # Quiet /\ policy = "accept"
    /\ answered' = [answered EXCEPT ![listener[p].dialog] = Answer(p)]
    /\ showing' = [showing EXCEPT ![p] = 0]
    /\ listener' = [listener EXCEPT ![p] = Quiet]
    /\ UNCHANGED <<policy, opened, missed, injecting, dialogLog, downloadVars, clock,
                   requestVars, admin, forgotten>>

\* ... and answers after the unlock.  An answer that fails is logged, and
\* never tried again: the dialog stays.
ListenerAnswers(p) ==
    /\ listener[p] # Quiet
    /\ \/ /\ answered' = [answered EXCEPT ![listener[p].dialog] = Answer(p)]
          /\ showing' = [showing EXCEPT ![p] = 0]
          /\ UNCHANGED missed
       \/ /\ missed' = missed \cup {listener[p].dialog}
          /\ UNCHANGED <<answered, showing>>
    /\ listener' = [listener EXCEPT ![p] = Quiet]
    /\ UNCHANGED <<policy, opened, injecting, dialogLog, downloadVars, clock, requestVars,
                   admin, forgotten>>

\* POST /dialogs: another policy, or an empty history.
SetPolicy ==
    /\ Unlocked /\ admin < MaxAdmin /\ admin' = admin + 1
    /\ policy' \in Policies \ {policy}
    /\ UNCHANGED <<showing, opened, answered, missed, listener, injecting, dialogLog,
                   downloadVars, clock, requestVars, forgotten>>

ClearDialogs ==
    /\ Unlocked /\ admin < MaxAdmin /\ admin' = admin + 1
    /\ forgotten' = forgotten \cup Logged
    /\ dialogLog' = <<>>
    /\ UNCHANGED <<policy, showing, opened, answered, missed, listener, injecting, downloadVars,
                   clock, requestVars>>

\* POST /inject/js/add takes s.mu for all of its pages, in the order of the
\* browser's list ...
Orders == {o \in BoundedSeq(Pages, Cardinality(Pages)) : o # <<>> /\ IsInjective(o)}
InjectLocks ==
    /\ Unlocked /\ admin < MaxAdmin /\ admin' = admin + 1
    /\ injecting' \in Orders
    /\ UNCHANGED <<policy, showing, opened, answered, missed, listener, dialogLog, downloadVars,
                   clock, requestVars, forgotten>>

\* ... and gives it back after the last of them, or the first that fails.  A
\* page that shows a dialog does not reply.
InjectRegisters ==
    /\ ~Unlocked /\ showing[Head(injecting)] = 0
    /\ injecting' \in {Tail(injecting), <<>>}
    /\ UNCHANGED <<policy, showing, opened, answered, missed, listener, dialogLog, downloadVars,
                   clock, requestVars, admin, forgotten>>

-----------------------------------------------------------------------------
\* Downloads.

\* The browser writes the bytes under the GUID and announces the name.
BrowserBegins(n) ==
    /\ opened + begun < MaxEffects /\ begun' = begun + 1
    /\ fate' = [fate EXCEPT ![begun + 1] = "inProgress"]
    /\ events' = Append(events, [type |-> "begin", guid |-> begun + 1])
    /\ named' = [named EXCEPT ![begun + 1] = n]
    /\ UNCHANGED <<downloads, disk, dialogVars, clock, requestVars, admin, forgotten>>

BrowserEnds(g, state) ==
    /\ fate[g] = "inProgress"
    /\ fate' = [fate EXCEPT ![g] = state]
    /\ events' = Append(events, [type |-> state, guid |-> g])
    /\ disk' = IF state = "completed"
               THEN [f \in DOMAIN disk \cup {g} |-> IF f = g THEN g ELSE disk[f]] ELSE disk
    /\ UNCHANGED <<begun, named, downloads, dialogVars, clock, requestVars, admin, forgotten>>

\* trackDownloadLocked: a tracked GUID keeps its place, another one is put in
\* front and the oldest entry falls off at the cap.
trackDownload(e) ==
    LET table == <<e>> \o downloads
    IN  IF e.guid \in Tracked
        THEN [i \in DOMAIN downloads |-> IF downloads[i].guid = e.guid THEN e ELSE downloads[i]]
        ELSE SubSeq(table, 1, IF Len(table) < DownloadsCap THEN Len(table) ELSE DownloadsCap)

HandleBegin ==
    /\ Unlocked /\ events # <<>> /\ Head(events).type = "begin"
    /\ LET e == Head(events)
       IN  /\ downloads' = trackDownload([guid |-> e.guid, name |-> named[e.guid], ts |-> clock,
                                          state |-> "inProgress", path |-> 0])
           /\ seen' = [h \in Handlers |-> IF at[h] = Idle THEN {} ELSE seen[h] \cup {e.guid}]
    /\ clock' = clock + 1 /\ events' = Tail(events)
    /\ UNCHANGED <<begun, fate, named, disk, dialogVars, at, acted, receipts, admin, forgotten>>

\* Mutant: the GUID's file stays where it is.
MoveNothing(e, renamed) == disk
\* resolveDownloadPathLocked: a file of the suggested name is taken for the
\* download; only where there is none is the GUID's file renamed to it, and
\* where that fails it stays.
Found(e) == e.name \in DOMAIN disk
MoveIntoPlace(e, renamed) ==
    IF ~Found(e) /\ e.guid \in DOMAIN disk /\ renamed
    THEN [f \in (DOMAIN disk \cup {e.name}) \ {e.guid} |->
             IF f = e.name THEN disk[e.guid] ELSE disk[f]]
    ELSE disk

resolveDownloadPath(e, renamed) ==
    IF Found(e) \/ (e.guid \in DOMAIN disk /\ renamed) THEN e.name
    ELSE IF e.guid \in DOMAIN disk THEN e.guid ELSE 0

Ended(d, state, path) ==
    [guid |-> d.guid, name |-> d.name, ts |-> d.ts, state |-> state, path |-> path]

downloadByGUID(g) == {i \in DOMAIN downloads : downloads[i].guid = g}

\* The end of a download that is not tracked any more is ignored.
HandleEnd ==
    /\ Unlocked /\ events # <<>> /\ Head(events).type # "begin"
    /\ LET e == Head(events)
           found == downloadByGUID(e.guid)
       IN  IF found = {} THEN UNCHANGED <<downloads, disk>>
           ELSE LET i == CHOOSE k \in found : TRUE
                    d == downloads[i]
                IN  IF e.type = "completed"
                    THEN \E renamed \in BOOLEAN :
                         /\ downloads' = [downloads EXCEPT
                               ![i] = Ended(d, "completed", resolveDownloadPath(d, renamed))]
                         /\ disk' = MoveIntoPlace(d, renamed)
                    ELSE /\ downloads' = [downloads EXCEPT ![i] = Ended(d, "canceled", d.path)]
                         /\ UNCHANGED disk
    /\ events' = Tail(events)
    /\ UNCHANGED <<begun, fate, named, dialogVars, clock, requestVars, admin, forgotten>>

\* /downloads/clear forgets the entries and keeps the files.
ClearDownloads ==
    /\ Unlocked /\ admin < MaxAdmin /\ admin' = admin + 1
    /\ downloads' = <<>>
    /\ UNCHANGED <<begun, fate, named, events, disk, dialogVars, clock, requestVars, forgotten>>

-----------------------------------------------------------------------------
\* Receipts.

\* The anchor, which takes s.mu, is taken before the action.
ActionStart(h, p) ==
    /\ Unlocked /\ at[h] = Idle /\ acted < MaxActions /\ acted' = acted + 1
    /\ at' = [at EXCEPT ![h] = [step |-> "settle", page |-> p, startTS |-> clock]]
    /\ seen' = [seen EXCEPT ![h] = {}]
    /\ clock' = clock + 1
    /\ UNCHANGED <<dialogVars, downloadVars, admin, receipts, forgotten>>

ActionDone(h) == at' = [at EXCEPT ![h] = Idle] /\ seen' = [seen EXCEPT ![h] = {}]

\* The client asked for no evidence: nothing is drained.
ActionSkips(h) ==
    /\ at[h].step = "settle"
    /\ ActionDone(h)
    /\ UNCHANGED <<dialogVars, downloadVars, clock, acted, admin, receipts, forgotten>>

\* Mutant: the log is emptied, whoever's dialogs are in it.
DrainAll(p) == <<>>
dialogsOf(p) == Kept(dialogLog, {i \in DOMAIN dialogLog : dialogLog[i].page = p})
drainDialogsFor(p) == Kept(dialogLog, {i \in DOMAIN dialogLog : dialogLog[i].page # p})

DrainDialogs(h) ==
    /\ Unlocked /\ at[h].step = "settle"
    /\ at' = [at EXCEPT ![h] = [step |-> "downloads", page |-> at[h].page, startTS |-> at[h].startTS,
                                dialogs |-> dialogsOf(at[h].page)]]
    /\ dialogLog' = drainDialogsFor(at[h].page)
    /\ UNCHANGED <<policy, showing, opened, answered, missed, listener, injecting, downloadVars,
                   clock, seen, acted, admin, receipts, forgotten>>

\* Mutant: only the downloads that are still under way.
DownloadsUnderWay(ts) ==
    Kept(downloads, {i \in DOMAIN downloads : downloads[i].ts >= ts /\ downloads[i].state = "inProgress"})
downloadsSince(ts) == Kept(downloads, {i \in DOMAIN downloads : downloads[i].ts >= ts})

WriteEvidence(h) ==
    /\ Unlocked /\ at[h].step = "downloads"
    /\ receipts' = Append(receipts, [page |-> at[h].page, dialogs |-> at[h].dialogs,
                                     downloads |-> downloadsSince(at[h].startTS)])
    /\ ActionDone(h)
    /\ UNCHANGED <<dialogVars, downloadVars, clock, acted, admin, forgotten>>

\* A script's dialogs follow its result: no downloads, and nothing at all
\* when there were none (maybeReportDialogs, maybeReportDialogsAfterBody).
ReportDialogs(h) ==
    /\ at[h].step = "downloads"
    /\ receipts' = IF at[h].dialogs = <<>> THEN receipts
                   ELSE Append(receipts, [page |-> at[h].page, dialogs |-> at[h].dialogs,
                                          downloads |-> <<>>])
    /\ ActionDone(h)
    /\ UNCHANGED <<dialogVars, downloadVars, clock, acted, admin, forgotten>>

-----------------------------------------------------------------------------
\* A new daemon on the port: a new browser, empty tables, the old directory.
InFlight == UNION {{at[h].dialogs[i].id : i \in DOMAIN at[h].dialogs} :
                       h \in {g \in Handlers : at[g].step = "downloads"}}

Restart ==
    /\ admin < MaxAdmin /\ admin' = admin + 1
    /\ policy' = "dismiss" /\ showing' = [p \in Pages |-> 0]
    /\ listener' = [p \in Pages |-> Quiet] /\ injecting' = <<>> /\ dialogLog' = <<>>
    /\ forgotten' = forgotten \cup Logged \cup InFlight \cup {d \in 1 .. opened : answered[d] = "open"}
    /\ fate' = [g \in GUIDs |-> IF fate[g] = "inProgress" THEN "canceled" ELSE fate[g]]
    /\ events' = <<>> /\ downloads' = <<>>
    /\ at' = [h \in Handlers |-> Idle] /\ seen' = [h \in Handlers |-> {}]
    /\ UNCHANGED <<opened, answered, missed, begun, named, disk, clock, acted, receipts>>

Next ==
    \/ \E p \in Pages : DialogOpens(p) \/ ListenerLogs(p) \/ ListenerAnswers(p)
    \/ SetPolicy \/ ClearDialogs \/ InjectLocks \/ InjectRegisters \/ ClearDownloads \/ Restart
    \/ \E n \in Names : BrowserBegins(n)
    \/ \E g \in GUIDs, s \in {"completed", "canceled"} : BrowserEnds(g, s)
    \/ HandleBegin \/ HandleEnd
    \/ \E h \in Handlers : \/ \E p \in Pages : ActionStart(h, p)
                           \/ ActionSkips(h) \/ DrainDialogs(h)
                           \/ WriteEvidence(h) \/ ReportDialogs(h)

\* A listener is a goroutine of its own that only waits for events and for
\* s.mu, which a sync.Mutex hands to the one that waits longest (here only
\* finitely many injects compete for it); the browser replies to a call on a
\* page that can run.
Spec ==
    /\ Init /\ [][Next]_vars /\ WF_vars(InjectRegisters)
    /\ \A p \in Pages : WF_vars(ListenerLogs(p)) /\ WF_vars(ListenerAnswers(p))

-----------------------------------------------------------------------------
\* Properties.

\* A dialog is reported in one receipt, one for its own page, or is still in
\* the log, or was cleared, evicted or lost in a restart: receipts neither
\* share nor swallow dialogs (dialogs.go:104-105).
Told(r) == {r.dialogs[i].id : i \in DOMAIN r.dialogs}
DialogsReportedOnce ==
    /\ \A i, j \in DOMAIN receipts : i # j => Told(receipts[i]) \cap Told(receipts[j]) = {}
    /\ \A i \in DOMAIN receipts : \A k \in DOMAIN receipts[i].dialogs :
           receipts[i].dialogs[k].page = receipts[i].page
    /\ \A d \in Dialogs : answered[d] # "open" =>
           d \in Logged \cup InFlight \cup forgotten \cup UNION {Told(receipts[i]) : i \in DOMAIN receipts}

\* A receipt says of each dialog what the browser was told, also when the
\* policy changed meanwhile, and the page was not yet answered at worst
\* (dialogs.go:27-33).
LoggedAsAnswered ==
    \A i \in DOMAIN receipts : \A k \in DOMAIN receipts[i].dialogs :
        LET e == receipts[i].dialogs[k] IN answered[e.id] \in {e.accepted, "open"}

\* An inject holds s.mu and waits for a page whose own dialog waits for s.mu,
\* or was given up: from here on every dialog of every page stays.
Deadlocked ==
    /\ ~Unlocked /\ showing[Head(injecting)] # 0
    /\ listener[Head(injecting)] = Quiet

\* A page is held up by a dialog for good only where the one answer to it
\* failed, or in that deadlock: no order of listeners, receipts, clears and
\* policy changes else leaves a dialog unanswered (dialogs.go:30-33 promises
\* it without either exception).
DialogsAnswered ==
    \A p \in Pages :
        showing[p] # 0 ~> showing[p] = 0 \/ showing[p] \in missed \/ Deadlocked

\* A receipt names every download that the listener saw begin after the
\* action did and that is still tracked, in whatever state, and no download
\* it saw begin before (QUICKSTART.md:239-241).
ReceiptNamesDownloads ==
    [][\A h \in Handlers : WriteEvidence(h) =>
         LET r == Last(receipts')
         IN  {r.downloads[i].guid : i \in DOMAIN r.downloads} = seen[h] \cap Tracked]_vars

\* The path of a finished download leads to the bytes of that download, as
\* long as no other download that was begun suggested the same name: then the
\* first file of the name is taken for it, also across restarts and clears
\* (downloads.go:93-111).
PathIsOwn ==
    \A i \in DOMAIN downloads :
        LET d == downloads[i]
        IN  d.state = "completed" /\ (\A g \in GUIDs \ {d.guid} : named[g] # d.name)
            => d.path \in DOMAIN disk /\ disk[d.path] = d.guid

\* The same without the exception, as downloads.go:93 has it: the path is
\* where "the completed file" is.
PathLeadsToFile ==
    \A i \in DOMAIN downloads :
        LET d == downloads[i]
        IN  d.state = "completed" => d.path \in DOMAIN disk /\ disk[d.path] = d.guid
=============================================================================
