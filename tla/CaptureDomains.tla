---------------------------- MODULE CaptureDomains ----------------------------
(***************************************************************************)
(* Who holds references on a page's CDP domain: the baseline that          *)
(* trackPage takes for the page's lifetime and untrackPage gives back, and *)
(* the capture sessions, which take every page they watch                  *)
(* (page_management.go, routes_network.go, routes_tab.go).  Extends the    *)
(* counter of DomainRef.  The console capture (routes_console.go) runs the *)
(* same steps over its own counter; one domain is modelled.                *)
(*                                                                         *)
(* Each HTTP handler runs in a goroutine of its own.  The capture state is *)
(* written under s.mu, but the pages are acquired or released after the    *)
(* unlock, so a session may be stopped before it holds its pages.          *)
(***************************************************************************)
EXTENDS DomainRef, PageOrder

CONSTANTS
    NoPage,     \* a nil page
    MaxStray,   \* bound: no capture starts with a page that lost more references
    MaxFailed   \* bound: pages on which a CDP call fails

ASSUME CaptureBounds == MaxStray \in Nat /\ MaxFailed \in Nat
ASSUME NoPageAssumption == NoPage \notin Pages

VARIABLES
    unopened,   \* TargetIDs not used yet
    open,       \* browser.Pages()
    activePg,   \* s.activePg
    pageOrder,  \* s.pageOrder
    capturing,  \* s.capturing
    allTabs,    \* s.captureTabFilter = -1
    capPages,   \* s.networkCapturingPages, by multiplicity
    pc,         \* per handler: the next step
    arg,        \* per handler: the pages it works on, by multiplicity
    local,      \* per handler: the position untrackPage found, what follows a
                \* trackPage, and the old pages that a resume is to close
    stray,      \* history: per page, the references no release will ever
                \* return, less those returned that it did not have
    crossed     \* history: pages that lost a reference and not their place
                \* to a removal that took out another entry than its own
                \* page's, or was raced

tabVars == <<unopened, open, activePg, pageOrder>>
captureVars == <<capturing, allTabs, capPages>>
\* vars is the counter's.
allVars == <<vars, tabVars, captureVars, pc, arg, local, stray, crossed>>

NoPages == [p \in Pages |-> 0]
Once(S) == [p \in Pages |-> IF p \in S THEN 1 ELSE 0]
Plus(f, g) == [p \in Pages |-> f[p] + g[p]]
NoLocals == [pos |-> 0, then |-> "idle", old |-> {}]

Steps == {"idle",
          "lookup", "lookupActive", "append", "acquireThenApply", "apply",  \* tabs
          "remove", "releaseThenClose", "close",
          "closeOthers", "reset", "activate", "nextTab", "opened",          \* sessions
          "setAll", "setTab", "acquire", "release"}                         \* captures

CaptureTypeOK ==
    /\ TypeOK
    /\ unopened \in SUBSET Pages /\ open \in SUBSET Pages
    /\ activePg \in Pages \cup {NoPage} /\ pageOrder \in Seq(Pages)
    /\ capturing \in BOOLEAN /\ allTabs \in BOOLEAN
    /\ capPages \in [Pages -> Nat]
    /\ pc \in [Threads -> Steps]
    /\ arg \in [Threads -> [Pages -> Nat]]
    /\ local \in [Threads -> [pos : Nat, then : {"idle", "activate", "opened"}, old : SUBSET Pages]]
    /\ stray \in [Pages -> Int] /\ crossed \in SUBSET Pages

CaptureInit ==
    /\ Init
    /\ unopened = Pages /\ open = {} /\ activePg = NoPage /\ pageOrder = <<>>
    /\ capturing = FALSE /\ allTabs = TRUE /\ capPages = NoPages
    /\ pc = [t \in Threads |-> "idle"]
    /\ arg = [t \in Threads |-> NoPages]
    /\ local = [t \in Threads |-> NoLocals]
    /\ stray = NoPages /\ crossed = {}

(* Handler t is between two steps at `step': it has made the callbacks of  *)
(* its last acquire or release.                                            *)
At(t, step) == pc[t] = step /\ pending[t] = Idle

Goto(t, step, pages) ==
    /\ pc' = [pc EXCEPT ![t] = step]
    /\ arg' = [arg EXCEPT ![t] = pages]

Finish(t) == Goto(t, "idle", NoPages) /\ local' = [local EXCEPT ![t] = NoLocals]

(* Where trackPage returns to.                                             *)
Return(t) ==
    IF local[t].then = "idle" THEN Finish(t)
    ELSE Goto(t, local[t].then, arg[t]) /\ UNCHANGED local

(* Another handler is at a statement that writes the order.                *)
Raced(t) == \E u \in Threads \ {t} : pc[u] \in {"append", "remove"}

-----------------------------------------------------------------------------
(* Opening and closing tabs.                                               *)

OpenPage(p) ==
    /\ p \in unopened
    /\ unopened' = unopened \ {p}
    /\ open' = open \cup {p}

(* handleTabNew: in the foreground the page is published as s.activePg and *)
(* read back from there.                                                   *)
TabNew(t, foreground) ==
    /\ At(t, "idle")
    /\ \E p \in unopened :
           /\ OpenPage(p)
           /\ activePg' = IF foreground THEN p ELSE activePg
           /\ Goto(t, IF foreground THEN "lookupActive" ELSE "lookup", Once({p}))
    /\ UNCHANGED <<vars, pageOrder, captureVars, local, stray, crossed>>

(* handleNavigate with no page to navigate opens one, and hands it on.     *)
Navigate(t) ==
    /\ At(t, "idle")
    /\ activePg = NoPage /\ open = {}
    /\ \E p \in unopened : OpenPage(p) /\ activePg' = p /\ Goto(t, "lookup", Once({p}))
    /\ UNCHANGED <<vars, pageOrder, captureVars, local, stray, crossed>>

(* A page script opens a window: the browser lists it, nothing tracks it.  *)
Popup ==
    /\ \E p \in unopened : OpenPage(p)
    /\ UNCHANGED <<vars, activePg, pageOrder, captureVars, pc, arg, local, stray, crossed>>

TabSwitch(t) ==
    /\ At(t, "idle")
    /\ activePg' \in open
    /\ UNCHANGED <<vars, unopened, open, pageOrder, captureVars, pc, arg, local, stray, crossed>>

(* trackPage's lookup: a page that is listed is left alone, a nil page     *)
(* ends the handler.                                                       *)
TrackLookup(t) ==
    /\ At(t, "lookup") \/ At(t, "lookupActive")
    /\ \E p \in IF pc[t] = "lookup" THEN {q \in Pages : arg[t][q] = 1} ELSE {activePg} :
              IF p = NoPage THEN Finish(t)
              ELSE IF Positions(pageOrder, p) # {} THEN Return(t)
              ELSE Goto(t, "append", Once({p})) /\ UNCHANGED local
    /\ UNCHANGED <<vars, tabVars, captureVars, stray, crossed>>

(* The append, up to the baseline acquire.  If another write undoes it the *)
(* page keeps a reference that no close will find.                         *)
TrackAppend(t) ==
    /\ At(t, "append")
    /\ \E p \in Pages :
           /\ arg[t][p] = 1
           /\ pageOrder' \in Appended(pageOrder, p, Raced(t))
           /\ stray' = IF pageOrder' = pageOrder THEN Plus(stray, Once({p})) ELSE stray
    /\ Goto(t, "acquireThenApply", arg[t])
    /\ UNCHANGED <<vars, unopened, open, activePg, captureVars, local, crossed>>

(* Mutant: the page joins the session without a reference of its own.      *)
ApplyDomainsToNewPageNoAcquire(t) ==
    /\ At(t, "apply")
    /\ capPages' = IF capturing /\ allTabs THEN Plus(capPages, arg[t]) ELSE capPages
    /\ Return(t)
    /\ UNCHANGED <<vars, tabVars, capturing, allTabs, stray, crossed>>

(* applyDomainsToNewPage: under s.mu the page joins a running all-tabs     *)
(* session; the acquire comes after the unlock.                            *)
ApplyDomainsToNewPage(t) ==
    /\ At(t, "apply")
    /\ IF capturing /\ allTabs
         THEN /\ capPages' = Plus(capPages, arg[t])
              /\ Goto(t, "acquire", arg[t])
              /\ UNCHANGED local
         ELSE /\ capPages' = capPages
              /\ Return(t)
    /\ UNCHANGED <<vars, tabVars, capturing, allTabs, stray, crossed>>

(* handleTabClose on a page of the browser, or on an active page that is   *)
(* gone: untrackPage looks for it in the order; a page that was never      *)
(* tracked is only closed.                                                 *)
TabClose(t) ==
    /\ At(t, "idle")
    /\ \E p \in open \cup ({activePg} \ {NoPage}) :
           \/ /\ First(pageOrder, p) = {}
              /\ Goto(t, "close", Once({p})) /\ UNCHANGED local
           \/ \E i \in First(pageOrder, p) :
                  /\ Goto(t, "remove", Once({p}))
                  /\ local' = [local EXCEPT ![t].pos = i]
    /\ UNCHANGED <<vars, tabVars, captureVars, stray, crossed>>

(* untrackPage removes what stands at the position by now; past the end it *)
(* panics.  A page removed in place of t's keeps its reference for good,   *)
(* and t's page gives one back that its own entry still stands for.        *)
UntrackRemove(t) ==
    /\ At(t, "remove")
    /\ LET i == local[t].pos IN
       IF i \notin DOMAIN pageOrder
       THEN Finish(t) /\ UNCHANGED <<pageOrder, stray, crossed>>
       ELSE \E p \in Pages :
               /\ arg[t][p] = 1
               /\ pageOrder' \in Removed(pageOrder, i, Raced(t))
               /\ stray' = [q \in Pages |->
                               stray[q] + Cardinality(Positions(pageOrder, q))
                                        - Cardinality(Positions(pageOrder', q)) - arg[t][q]]
               /\ crossed' = IF pageOrder[i] = p /\ ~Raced(t) THEN crossed
                             ELSE crossed \cup {q \in Pages : stray'[q] < stray[q]}
               /\ Goto(t, "releaseThenClose", arg[t])
               /\ local' = [local EXCEPT ![t].pos = 0]
    /\ UNCHANGED <<vars, unopened, open, activePg, captureVars>>

(* A page that is closed by then panics; else s.activePg is reset.         *)
ClosePage(t) ==
    /\ At(t, "close")
    /\ LET closing == {p \in Pages : arg[t][p] > 0} IN
       /\ open' = open \ closing
       /\ activePg' = IF closing \subseteq open THEN NoPage ELSE activePg
    /\ Finish(t)
    /\ UNCHANGED <<vars, unopened, pageOrder, captureVars, stray, crossed>>

-----------------------------------------------------------------------------
(* Sessions: the order is reset, nothing that was tracked is released.     *)

Forgotten == [p \in Pages |-> Cardinality(Positions(pageOrder, p))]

(* The reset of the order is one more write that a raced one may undo.     *)
ResetOrder(t) ==
    \/ pageOrder' = <<>> /\ stray' = Plus(stray, Forgotten)
    \/ Raced(t) /\ UNCHANGED <<pageOrder, stray>>

(* handleSessionNew opens a blank page, closes the others, resets the      *)
(* order, and tracks the blank page before it makes it the active one.     *)
SessionNew(t) ==
    /\ At(t, "idle")
    /\ \E p \in unopened : OpenPage(p) /\ Goto(t, "closeOthers", Once({p}))
    /\ local' = [local EXCEPT ![t].then = "activate"]
    /\ UNCHANGED <<vars, activePg, pageOrder, captureVars, stray, crossed>>

SessionNewClose(t) ==
    /\ At(t, "closeOthers")
    /\ open' = open \cap {p \in Pages : arg[t][p] > 0}
    /\ Goto(t, "reset", arg[t])
    /\ UNCHANGED <<vars, unopened, activePg, pageOrder, captureVars, local, stray, crossed>>

SessionNewReset(t) ==
    /\ At(t, "reset")
    /\ ResetOrder(t)
    /\ Goto(t, "lookup", arg[t])
    /\ UNCHANGED <<vars, unopened, open, activePg, captureVars, local, crossed>>

SessionNewActive(t) ==
    /\ At(t, "activate")
    /\ \E p \in Pages : arg[t][p] = 1 /\ activePg' = p
    /\ Finish(t)
    /\ UNCHANGED <<vars, unopened, open, pageOrder, captureVars, stray, crossed>>

(* handleSessionResume resets the order first, opens and tracks the saved  *)
(* tabs, any number of them, one of which becomes active, and then closes  *)
(* the old pages.                                                          *)
ResumeStart(t) ==
    /\ At(t, "idle")
    /\ ResetOrder(t)
    /\ Goto(t, "nextTab", NoPages)
    /\ local' = [local EXCEPT ![t].old = open, ![t].then = "opened"]
    /\ UNCHANGED <<vars, unopened, open, activePg, captureVars, crossed>>

ResumeOpen(t) ==
    /\ At(t, "nextTab")
    /\ \E p \in unopened : OpenPage(p) /\ Goto(t, "lookup", Once({p}))
    /\ UNCHANGED <<vars, activePg, pageOrder, captureVars, local, stray, crossed>>

ResumeOpened(t) ==
    /\ At(t, "opened")
    /\ activePg' \in {activePg} \cup {p \in Pages : arg[t][p] = 1}
    /\ Goto(t, "nextTab", NoPages)
    /\ UNCHANGED <<vars, unopened, open, pageOrder, captureVars, local, stray, crossed>>

ResumeClose(t) ==
    /\ At(t, "nextTab")
    /\ open' = open \ local[t].old
    /\ Finish(t)
    /\ UNCHANGED <<vars, unopened, activePg, pageOrder, captureVars, stray, crossed>>

-----------------------------------------------------------------------------
(* Capture sessions.                                                       *)

(* pagesForFilter: all open pages, or the page at one index, or none when  *)
(* the index is past the last tab.                                         *)
PagesForFilter(all) == IF all THEN {open} ELSE {{p} : p \in open} \cup {{}}

(* handleNetworkCaptureStart resolves the filter before it takes s.mu...   *)
CaptureStart(t) ==
    /\ At(t, "idle")
    /\ \A p \in Pages : stray[p] < MaxStray
    /\ \E all \in BOOLEAN, S \in SUBSET open :
           /\ S \in PagesForFilter(all)
           /\ Goto(t, IF all THEN "setAll" ELSE "setTab", Once(S))
    /\ UNCHANGED <<vars, tabVars, captureVars, local, stray, crossed>>

(* ... then installs the session, over any session that was running: the   *)
(* pages that one held are forgotten.                                      *)
CaptureSet(t) ==
    /\ At(t, "setAll") \/ At(t, "setTab")
    /\ capturing' = TRUE
    /\ allTabs' = (pc[t] = "setAll")
    /\ stray' = Plus(stray, capPages)
    /\ capPages' = arg[t]
    /\ Goto(t, "acquire", arg[t])
    /\ UNCHANGED <<vars, tabVars, local, crossed>>

(* Mutant: stop leaves the page list in place.                             *)
CaptureStopKeepsPages(t) ==
    /\ At(t, "idle")
    /\ capturing' = FALSE
    /\ Goto(t, "release", capPages)
    /\ UNCHANGED <<vars, tabVars, allTabs, capPages, local, stray, crossed>>

(* handleNetworkCaptureStop takes the page list away under s.mu.           *)
CaptureStop(t) ==
    /\ At(t, "idle")
    /\ capturing' = FALSE
    /\ capPages' = NoPages
    /\ Goto(t, "release", capPages)
    /\ UNCHANGED <<vars, tabVars, allTabs, local, stray, crossed>>

-----------------------------------------------------------------------------
(* The counter.                                                            *)

Acquire(t) ==
    /\ AcquirePages(t, arg[t])
    /\ \/ pc[t] = "acquire" /\ Return(t)
       \/ pc[t] = "acquireThenApply" /\ Goto(t, "apply", arg[t]) /\ UNCHANGED local
    /\ UNCHANGED <<tabVars, captureVars, stray, crossed>>

(* Releases below zero are dropped: the acquire they belong to is still to *)
(* come and its reference will stay.                                       *)
Release(t) ==
    /\ ReleasePages(t, arg[t])
    /\ \/ pc[t] = "release" /\ Finish(t)
       \/ pc[t] = "releaseThenClose" /\ Goto(t, "close", arg[t]) /\ UNCHANGED local
    /\ stray' = [p \in Pages |->
                    stray[p] + IF arg[t][p] > refs[p] THEN arg[t][p] - refs[p] ELSE 0]
    /\ UNCHANGED <<tabVars, captureVars, crossed>>

HandlerCallback(t) ==
    /\ \E p \in Pages : Callback(t, p)
    /\ Cardinality(failed') <= MaxFailed
    /\ UNCHANGED <<tabVars, captureVars, pc, arg, local, stray, crossed>>

Tracking(t) ==
    \/ TabNew(t, TRUE) \/ TabNew(t, FALSE) \/ Navigate(t)
    \/ TrackLookup(t) \/ TrackAppend(t) \/ ApplyDomainsToNewPage(t)

Closing(t) == TabSwitch(t) \/ TabClose(t) \/ UntrackRemove(t) \/ ClosePage(t)

Session(t) ==
    \/ SessionNew(t) \/ SessionNewClose(t) \/ SessionNewReset(t) \/ SessionNewActive(t)
    \/ ResumeStart(t) \/ ResumeOpen(t) \/ ResumeOpened(t) \/ ResumeClose(t)

Capture(t) == CaptureStart(t) \/ CaptureSet(t) \/ CaptureStop(t)

CaptureNext ==
    \/ Popup
    \/ \E t \in Threads :
           \/ Tracking(t) \/ Closing(t) \/ Session(t) \/ Capture(t)
           \/ Acquire(t) \/ Release(t) \/ HandlerCallback(t)

CaptureSpec == CaptureInit /\ [][CaptureNext]_allVars

-----------------------------------------------------------------------------

(* References the handlers have decided on, and not taken or given back    *)
(* yet: one for each place p has in the list of a handler at these steps.  *)
Places(steps, p) == UNION {{t} \X (1 .. arg[t][p]) : t \in {u \in Threads : pc[u] \in steps}}
Owed(steps, p) == Cardinality(Places(steps, p))
ToAcquire(p) == Owed({"acquire", "acquireThenApply"}, p)
ToRelease(p) == Owed({"release", "releaseThenClose"}, p)

(* No handler is about to touch p's count or owes it a callback.           *)
Settled(p) ==
    /\ Quiet(p)
    /\ \A t \in Threads : pc[t] # "idle" => arg[t][p] = 0

(* Every reference on every page is accounted for at every instant, in any *)
(* interleaving of captures, tab handlers and session resets on the        *)
(* unlocked order: one for each place the page has there, one per place in *)
(* the running session, and those left behind for good: by a session that  *)
(* a second start overwrote, a release that came before its acquire, a     *)
(* reset of the order, or a write to it that was undone                    *)
(* (routes_network.go:58, domain_ref.go:44, page_management.go:74,123).    *)
RefsAccounted ==
    \A p \in Pages :
        refs[p] + ToAcquire(p) - ToRelease(p)
            = Cardinality(Positions(pageOrder, p)) + capPages[p] + stray[p]

(* No interleaving of capture stops, tab handlers and session resets uses  *)
(* up the baseline of a page in the order, unless a removal that another   *)
(* handler's write got in the way of left the page there: once settled it  *)
(* still has a reference, and the domain is on unless callbacks on the     *)
(* page overlapped or failed.                                              *)
BaselineHeld ==
    \A p \in Pages \ crossed :
        Positions(pageOrder, p) # {} /\ Settled(p)
            => /\ ActiveForPage(p)
               /\ p \notin raced /\ p \notin failed => enabled[p]

=============================================================================
