-------------------------------- MODULE Tabs --------------------------------
(***************************************************************************)
(* Tabs, contexts, sessions and init scripts (routes_tab.go,               *)
(* routes_context.go, routes_session.go, routes_inject.go,                 *)
(* page_management.go, tabscope.go).  Handlers run concurrently and share  *)
(* s.activePg, s.pageOrder and the contexts without a lock: what PageOrder *)
(* says of the order holds here.  The init script tables are guarded by    *)
(* s.mu, which /inject/js/add holds while it registers its script on one   *)
(* page after the other.                                                   *)
(*                                                                         *)
(* Pages are numbered in the order they are opened and never reused, 0 is  *)
(* nil.  A registration is <<entry, page, n>>, the n-th of that entry on   *)
(* that page: Chrome gives each an identifier of its own.  A handler that  *)
(* panics (rod's Must calls, a nil page) is ended by recoverMiddleware.    *)
(***************************************************************************)
EXTENDS Integers, Sequences, FiniteSets, SequencesExt, PageOrder

CONSTANTS
    Handlers,   \* requests served at a time
    MaxPages,   \* bound: pages ever opened
    MaxScripts, \* bound: scripts ever added
    MaxOps,     \* bound: requests and outside events
    Aliases     \* the tab filters requests name: strings and indices

\* The browser starts with a page; an index is given as a number.
ASSUME TabsBounds == MaxPages \in Nat \ {0} /\ MaxScripts \in Nat /\ MaxOps \in Nat
ASSUME HandlersAssumption == "free" \notin Handlers
ASSUME AliasesAssumption == Aliases \subseteq {"all", "active", "next", "last"} \cup Nat

Pages == 1 .. MaxPages
Scripts == 1 .. MaxScripts

VARIABLES
    live,       \* the browser's pages, in the order it lists them
    opened,     \* number of pages opened so far
    doc,        \* per page: the document it shows, named by the page it was
                \* first opened in (a resumed tab shows a saved document)
    pageOrder,  \* s.pageOrder
    activePg,   \* s.activePg
    ctx,        \* s.contexts and s.activeCtx: the page of the one named
                \* context (0: not created) and whether it is the active one
    global,     \* s.injectJSGlobal
    perTab,     \* s.injectJSByPage: pairs of a page and a script
    ids,        \* s.injectJSCDPIDs: the registrations it knows of
    reg,        \* the registrations the browser has
    added,      \* s.injectJSCounter
    mu,         \* the handler that keeps s.mu locked between steps, or "free"
    saved,      \* the session file: its tabs' documents, activeTab (from 1),
                \* and, as history, the document that was shown (0: none)
    at,         \* per handler: its step and local variables
    ops,        \* requests and outside events so far
    ghost       \* history: scripts whose add failed half way; pages whose
                \* set-up overlapped an add or a clear, or that were tracked in
                \* the place of another

vars == <<live, opened, doc, pageOrder, activePg, ctx, global, perTab, ids, reg,
          added, mu, saved, at, ops, ghost>>
tabVars == <<live, opened, doc, pageOrder, activePg, ctx>>
scriptVars == <<global, perTab, ids, reg, added>>

NoFile == [tabs |-> <<>>, active |-> 0, shown |-> 0]

\* A handler's step and its local variables, those it does not use at their
\* zero: the page it is about, whether in the foreground, what trackPage's
\* caller does next, the scripts it copied, the pages it listed at its start
\* and the position in them or in pageOrder, the session file, whether nothing
\* else happened since, the script being added, whether for every tab, and the
\* registrations made.
Idle == [step |-> "idle", page |-> 0, fg |-> FALSE, then |-> "end",
         todo |-> {}, pages |-> <<>>, n |-> 0, file |-> NoFile, alone |-> FALSE,
         script |-> 0, every |-> FALSE, got |-> {}]
Busy(h) == at[h].step # "idle"
IsLive(p) == p \in ToSet(live)

\* The elements of s that are in S, in their order and each once.
Kept(s, S) ==
    LET K == {i \in DOMAIN s : s[i] \in S /\ \A j \in DOMAIN s : j < i => s[j] # s[i]}
        Rank(i) == Cardinality({j \in K : j <= i})
    IN  [k \in 1 .. Cardinality(K) |-> s[CHOOSE i \in K : Rank(i) = k]]

TypeOK ==
    /\ ToSet(live) \subseteq 1 .. opened /\ IsInjective(live) /\ opened <= MaxPages
    /\ doc \in [Pages -> 0 .. MaxPages]
    /\ ToSet(pageOrder) \subseteq Pages /\ activePg \in 0 .. MaxPages
    /\ ctx \in [page : 0 .. MaxPages, on : BOOLEAN]
    /\ global \subseteq Scripts /\ perTab \subseteq Pages \X Scripts
    /\ ids \subseteq Scripts \X Pages \X Nat /\ reg \subseteq Scripts \X Pages \X Nat
    /\ added \in 0 .. MaxScripts /\ mu \in Handlers \cup {"free"} /\ ops \in 0 .. MaxOps

Init ==
    /\ live = <<1>> /\ opened = 1 /\ doc = [p \in Pages |-> p]
    /\ pageOrder = <<>> /\ activePg = 0 /\ ctx = [page |-> 0, on |-> FALSE]
    /\ global = {} /\ perTab = {} /\ ids = {} /\ reg = {} /\ added = 0
    /\ mu = "free" /\ saved = NoFile
    /\ at = [h \in Handlers |-> Idle] /\ ops = 0
    /\ ghost = [failed |-> {}, crossed |-> {}]

-----------------------------------------------------------------------------
\* Which page a request is for.

activePage ==
    IF ctx.on /\ ctx.page # 0 THEN ctx.page
    ELSE IF activePg # 0 THEN activePg
    ELSE IF live = <<>> THEN 0 ELSE Head(live)

\* Mutant: the browser's order, whatever order the tabs were opened in.
OrderedPagesAsListed == live
orderedPages ==
    Kept(pageOrder, ToSet(live)) \o Kept(live, ToSet(live) \ ToSet(pageOrder))

\* -1: every tab.  "next" is the index the next tab will get; an alias that
\* is no number and no known word means every tab.
resolveTabAlias(alias) ==
    LET a == activePage
        n == Len(pageOrder)
    IN  IF alias = "active" /\ a \in ToSet(pageOrder)
        THEN (CHOOSE i \in First(pageOrder, a) : TRUE) - 1
        ELSE IF alias = "next" THEN n
        ELSE IF alias = "last" /\ n > 0 THEN n - 1
        ELSE IF alias \in {"all", "active", "last"} THEN -1 ELSE alias

pagesForFilter(i) ==
    IF i < 0 THEN orderedPages
    ELSE IF i < Len(orderedPages) THEN <<orderedPages[i + 1]>> ELSE <<>>

\* The tab header names a position, no header the active page.
pageFromRequest == {activePage} \cup ToSet(orderedPages)

-----------------------------------------------------------------------------
\* Steps, requests and the pages they open.

With(r, l) == [f \in DOMAIN r |-> IF f \in DOMAIN l THEN l[f] ELSE r[f]]
Goto(h, l) == at' = [at EXCEPT ![h] = With(@, l)]
End(h) == at' = [at EXCEPT ![h] = Idle]

\* History, in a close and a resume: whether nothing else happened meanwhile.
Quiet == \A h \in Handlers : ~Busy(h)
Disturbed == [h \in Handlers |-> [at[h] EXCEPT !.alone = FALSE]]
Counted == ops < MaxOps /\ ops' = ops + 1

\* A request starts on an idle handler, or is served there in one step.
Start(h, l) == ~Busy(h) /\ Counted /\ at' = [Disturbed EXCEPT ![h] = With(Idle, l)]
Serve(h) == ~Busy(h) /\ Counted /\ at' = Disturbed

\* The browser lists its pages by identifier, not by age: a new one comes
\* anywhere, here first or last.
NewPage == opened + 1
Open(d) ==
    /\ opened < MaxPages /\ opened' = NewPage
    /\ live' \in {<<NewPage>> \o live, Append(live, NewPage)}
    /\ doc' = [doc EXCEPT ![NewPage] = d]

\* Closing a page takes its registrations with it.
Close(S) ==
    /\ live' = Kept(live, ToSet(live) \ S)
    /\ reg' = {r \in reg : r[2] \notin S}

BeingSetUp ==
    LET Steps == {"closeOthers", "reset", "track", "append", "copy", "register"}
    IN  {at[h].page : h \in {g \in Handlers : at[g].step \in Steps}}

\* Another handler is at a statement that writes the order.
Raced(h) == \E g \in Handlers \ {h} : at[g].step \in {"append", "remove"}

\* A reset of the order, which a raced write may undo.
ResetOrder(h) == pageOrder' \in {<<>>} \cup IF Raced(h) THEN {pageOrder} ELSE {}

-----------------------------------------------------------------------------
\* trackPage, in the steps other handlers can get between.  A foreground tab
\* is read back from s.activePg; "then" says what its caller does next.

After(h) == IF at[h].then = "end" THEN End(h) ELSE Goto(h, [step |-> at[h].then])

TrackLookup(h) ==
    /\ at[h].step = "track"
    /\ LET p == IF at[h].fg THEN activePg ELSE at[h].page
       IN  /\ IF p = 0 THEN End(h)     \* a nil page: the handler panics
              ELSE IF p \in ToSet(pageOrder) THEN After(h)
              ELSE Goto(h, [step |-> "append", page |-> p])
           /\ ghost' = [ghost EXCEPT !.crossed = @ \cup ({p} \ {at[h].page})]
    /\ UNCHANGED <<tabVars, scriptVars, mu, saved, ops>>

TrackAppend(h) ==
    /\ at[h].step = "append"
    /\ pageOrder' \in Appended(pageOrder, at[h].page, Raced(h))
    /\ Goto(h, [step |-> "copy"])
    /\ UNCHANGED <<live, opened, doc, activePg, ctx, scriptVars, mu, saved, ops, ghost>>

\* Mutant: the global scripts are read without s.mu.
ApplyCopyUnlocked(h) ==
    /\ at[h].step = "copy"
    /\ Goto(h, [step |-> "register", todo |-> global])
    /\ UNCHANGED <<tabVars, scriptVars, mu, saved, ops, ghost>>

\* applyInjectScriptsToNewPage: a copy under s.mu, registered after it.
ApplyCopy(h) ==
    /\ at[h].step = "copy" /\ mu = "free"
    /\ Goto(h, [step |-> "register", todo |-> global])
    /\ UNCHANGED <<tabVars, scriptVars, mu, saved, ops, ghost>>

\* Registering on a page: the next identifier of that entry there.
NewReg(e, p) == <<e, p, Cardinality({r \in reg : r[1] = e /\ r[2] = p}) + 1>>

\* Mutant: the identifier is not kept for the removal.
ForgetId(e, p, r) == ids
StoreId(e, p, r) == {i \in ids : i[1] # e \/ i[2] # p} \cup {r}

\* A page that is gone by then fails, and the next entry is tried.
ApplyRegister(h) ==
    /\ at[h].step = "register" /\ at[h].todo # {} /\ mu = "free"
    /\ LET e == CHOOSE x \in at[h].todo : \A y \in at[h].todo : x <= y
           p == at[h].page
       IN  /\ Goto(h, [todo |-> at[h].todo \ {e}])
           /\ IF IsLive(p)
              THEN reg' = reg \cup {NewReg(e, p)} /\ ids' = StoreId(e, p, NewReg(e, p))
              ELSE UNCHANGED <<reg, ids>>
    /\ UNCHANGED <<tabVars, global, perTab, added, mu, saved, ops, ghost>>

ApplyDone(h) ==
    /\ at[h].step = "register" /\ at[h].todo = {}
    /\ After(h)
    /\ UNCHANGED <<tabVars, scriptVars, mu, saved, ops, ghost>>

-----------------------------------------------------------------------------
\* Tabs and contexts.

\* /tab/new, a replayed tab_new, and the page a /navigate without one opens:
\* in the foreground the new page goes through s.activePg, a background tab
\* and the navigation hand theirs to trackPage directly.
TabNew(h, fg, activate) ==
    /\ fg => activate
    /\ Start(h, [step |-> "track", page |-> NewPage, fg |-> fg, then |-> "end"])
    /\ Open(NewPage)
    /\ activePg' = IF activate THEN NewPage ELSE activePg
    /\ UNCHANGED <<pageOrder, ctx, scriptVars, mu, saved, ghost>>

\* /navigate opens a page where there is none to navigate, which no context
\* is ever without.
NavigateOpens(h) == activePage = 0 /\ TabNew(h, FALSE, TRUE)

\* /tab/close: untrack, close, and only then forget the active page.
TabCloseStart(h, p) ==
    /\ p \in pageFromRequest /\ p # 0
    /\ Start(h, [step |-> "untrack", page |-> p, alone |-> Quiet])
    /\ UNCHANGED <<tabVars, scriptVars, mu, saved, ghost>>

\* untrackPage looks for the page, and removes what stands there by then; past
\* the end it panics.
UntrackLookup(h) ==
    /\ at[h].step = "untrack"
    /\ \/ First(pageOrder, at[h].page) = {} /\ Goto(h, [step |-> "close"])
       \/ \E i \in First(pageOrder, at[h].page) : Goto(h, [step |-> "remove", n |-> i])
    /\ UNCHANGED <<tabVars, scriptVars, mu, saved, ops, ghost>>

UntrackRemove(h) ==
    /\ at[h].step = "remove"
    /\ IF at[h].n \in DOMAIN pageOrder
       THEN /\ pageOrder' \in Removed(pageOrder, at[h].n, Raced(h))
            /\ Goto(h, [step |-> "close", n |-> 0])
       ELSE End(h) /\ UNCHANGED pageOrder
    /\ UNCHANGED <<live, opened, doc, activePg, ctx, scriptVars, mu, saved, ops, ghost>>

TabCloseClose(h) ==
    /\ at[h].step = "close"
    /\ IF IsLive(at[h].page) THEN Goto(h, [step |-> "forget"]) ELSE End(h)
    /\ Close({at[h].page})
    /\ UNCHANGED <<opened, doc, pageOrder, activePg, ctx, global, perTab, ids, added,
                   mu, saved, ops, ghost>>

TabCloseForget(h) ==
    /\ at[h].step = "forget"
    /\ activePg' = 0
    /\ End(h)
    /\ UNCHANGED <<live, opened, doc, pageOrder, ctx, scriptVars, mu, saved, ops, ghost>>

TabSwitch(h, p) ==
    /\ IsLive(p)
    /\ Serve(h)
    /\ activePg' = p
    /\ UNCHANGED <<live, opened, doc, pageOrder, ctx, scriptVars, mu, saved, ghost>>

\* A context's page is opened and never tracked; a second context of the name
\* replaces the first, whose page stays open.
ContextCreate(h) ==
    /\ Serve(h)
    /\ Open(NewPage)
    /\ ctx' = [page |-> NewPage, on |-> TRUE]
    /\ UNCHANGED <<pageOrder, activePg, scriptVars, mu, saved, ghost>>

ContextSwitch(h, on) ==
    /\ on => ctx.page # 0
    /\ Serve(h)
    /\ ctx' = [ctx EXCEPT !.on = on]
    /\ UNCHANGED <<live, opened, doc, pageOrder, activePg, scriptVars, mu, saved, ghost>>

-----------------------------------------------------------------------------
\* Sessions.

\* /session/save: the pages the browser lists, one after the other.  One that
\* is gone by its turn is left out of the file, or panics if it goes just then;
\* activeTab is a position in the list, where the one left out still counts.
SessionSave(h) ==
    /\ Start(h, [step |-> "save", pages |-> live, n |-> 0, file |-> [NoFile EXCEPT !.active = 1]])
    /\ UNCHANGED <<tabVars, scriptVars, mu, saved, ghost>>

\* Mutant: the position in tab order, which the saved list does not have.
SavedPositionByOrder(h) ==
    LET S == {i \in DOMAIN orderedPages : orderedPages[i] = at[h].pages[at[h].n + 1]}
    IN  IF S = {} THEN 1 ELSE CHOOSE i \in S : TRUE
SavedPosition(h) == at[h].n + 1

\* History: the document shown, unless a context is active or the position is
\* not that of the file.
SavePage(h) ==
    /\ at[h].step = "save" /\ at[h].n < Len(at[h].pages)
    /\ LET p == at[h].pages[at[h].n + 1]
           f == at[h].file
           seen == ~ctx.on /\ Len(f.tabs) = at[h].n
       IN  \/ /\ IsLive(p)
              /\ Goto(h, [n |-> at[h].n + 1, file |->
                     [tabs |-> Append(f.tabs, doc[p]),
                      active |-> IF activePg = p THEN SavedPosition(h) ELSE f.active,
                      shown |-> IF activePg = p \/ (activePg = 0 /\ at[h].n = 0)
                                THEN IF seen THEN doc[p] ELSE 0
                                ELSE f.shown]])
           \/ ~IsLive(p) /\ Goto(h, [n |-> at[h].n + 1])
           \/ ~IsLive(p) /\ End(h)
    /\ UNCHANGED <<tabVars, scriptVars, mu, saved, ops, ghost>>

SaveWrite(h) ==
    /\ at[h].step = "save" /\ at[h].n = Len(at[h].pages)
    /\ saved' = at[h].file
    /\ End(h)
    /\ UNCHANGED <<tabVars, scriptVars, mu, ops, ghost>>

SessionDelete(h) ==
    /\ saved # NoFile
    /\ Serve(h)
    /\ saved' = NoFile
    /\ UNCHANGED <<tabVars, scriptVars, mu, ghost>>

\* /session/new: a blank page is opened, the others closed, the order reset,
\* and the blank page tracked and made active.
SessionNewOpen(h) ==
    /\ Start(h, [step |-> "closeOthers", page |-> NewPage, fg |-> FALSE, then |-> "setActive"])
    /\ Open(NewPage)
    /\ UNCHANGED <<pageOrder, activePg, ctx, scriptVars, mu, saved, ghost>>

SessionNewClose(h) ==
    /\ at[h].step = "closeOthers"
    /\ Close(ToSet(live) \ {at[h].page})
    /\ Goto(h, [step |-> "reset"])
    /\ UNCHANGED <<opened, doc, pageOrder, activePg, ctx, global, perTab, ids, added,
                   mu, saved, ops, ghost>>

SessionNewReset(h) ==
    /\ at[h].step = "reset"
    /\ ResetOrder(h)
    /\ Goto(h, [step |-> "track"])
    /\ UNCHANGED <<live, opened, doc, activePg, ctx, scriptVars, mu, saved, ops, ghost>>

SessionNewActive(h) ==
    /\ at[h].step = "setActive"
    /\ activePg' = at[h].page
    /\ End(h)
    /\ UNCHANGED <<live, opened, doc, pageOrder, ctx, scriptVars, mu, saved, ops, ghost>>

\* /session/resume and a replay's resumeSession: the saved tabs are opened and
\* tracked one by one, and only then the old ones closed.
ResumeStart(h) ==
    /\ saved # NoFile
    /\ Start(h, [step |-> "nextTab", page |-> 0, fg |-> FALSE, then |-> "opened",
                 pages |-> live, file |-> saved, n |-> 0, alone |-> Quiet])
    /\ ResetOrder(h)
    /\ UNCHANGED <<live, opened, doc, activePg, ctx, scriptVars, mu, saved, ghost>>

ResumeOpen(h) ==
    /\ at[h].step = "nextTab" /\ at[h].n < Len(at[h].file.tabs)
    /\ Open(at[h].file.tabs[at[h].n + 1])
    /\ Goto(h, [step |-> "track", page |-> NewPage, n |-> at[h].n + 1])
    /\ UNCHANGED <<pageOrder, activePg, ctx, scriptVars, mu, saved, ops, ghost>>

ResumeOpened(h) ==
    /\ at[h].step = "opened"
    /\ activePg' = IF at[h].n = at[h].file.active THEN at[h].page ELSE activePg
    /\ Goto(h, [step |-> "nextTab"])
    /\ UNCHANGED <<live, opened, doc, pageOrder, ctx, scriptVars, mu, saved, ops, ghost>>

\* The first old page that is gone already panics and spares those after it.
ResumeClose(h) ==
    /\ at[h].step = "nextTab" /\ at[h].n = Len(at[h].file.tabs)
    /\ LET old == at[h].pages
           gone == {i \in 1 .. Len(old) : ~IsLive(old[i])}
       IN  Close({old[i] : i \in {j \in 1 .. Len(old) : \A k \in gone : j < k}})
    /\ End(h)
    /\ UNCHANGED <<opened, doc, pageOrder, activePg, ctx, global, perTab, ids, added,
                   mu, saved, ops, ghost>>

-----------------------------------------------------------------------------
\* Init scripts.

Crossing == [ghost EXCEPT !.crossed = @ \cup BeingSetUp]

\* /inject/js/add takes s.mu for good, resolves the pages ...
AddStart(h, alias) ==
    /\ mu = "free" /\ mu' = h
    /\ added < MaxScripts /\ added' = added + 1
    /\ Start(h, [step |-> "add", script |-> added + 1, every |-> resolveTabAlias(alias) < 0,
                 pages |-> pagesForFilter(resolveTabAlias(alias)), n |-> 0, got |-> {}])
    /\ ghost' = Crossing
    /\ UNCHANGED <<tabVars, global, perTab, ids, reg, saved>>

\* ... registers on each, and gives up on the first that is gone ...
AddRegister(h) ==
    /\ at[h].step = "add" /\ at[h].n < Len(at[h].pages)
    /\ LET p == at[h].pages[at[h].n + 1]
           r == NewReg(at[h].script, p)
       IN  IF IsLive(p)
           THEN /\ reg' = reg \cup {r}
                /\ Goto(h, [n |-> at[h].n + 1, got |-> at[h].got \cup {r}])
                /\ UNCHANGED <<mu, ghost>>
           ELSE /\ mu' = "free" /\ End(h)
                /\ ghost' = [Crossing EXCEPT !.failed = @ \cup {at[h].script}]
                /\ UNCHANGED reg
    /\ UNCHANGED <<tabVars, global, perTab, ids, added, saved, ops>>

\* ... and keeps the identifiers and the entry.
AddFinish(h) ==
    /\ at[h].step = "add" /\ at[h].n = Len(at[h].pages)
    /\ ids' = ids \cup at[h].got
    /\ global' = IF at[h].every THEN global \cup {at[h].script} ELSE global
    /\ perTab' = IF at[h].every THEN perTab ELSE perTab \cup (ToSet(at[h].pages) \X {at[h].script})
    /\ mu' = "free" /\ End(h)
    /\ ghost' = Crossing
    /\ UNCHANGED <<tabVars, reg, added, saved, ops>>

\* removeCDPScript of every script of S: its known registrations, on the pages
\* that are still open.
removeCDPScripts(S) ==
    /\ reg' = {r \in reg : ~(r[1] \in S /\ r \in ids)}
    /\ ids' = {i \in ids : i[1] \notin S}

\* /inject/js/clear, all under s.mu.
ClearAll(h) ==
    /\ mu = "free"
    /\ Serve(h)
    /\ removeCDPScripts(global \cup {x[2] : x \in perTab})
    /\ global' = {} /\ perTab' = {}
    /\ ghost' = Crossing
    /\ UNCHANGED <<tabVars, added, mu, saved>>

\* A clear of one tab leaves the global scripts.
ClearTab(h, alias) ==
    /\ mu = "free" /\ alias # "all"
    /\ Serve(h)
    /\ LET S == ToSet(pagesForFilter(resolveTabAlias(alias)))
       IN  /\ removeCDPScripts({x[2] : x \in {y \in perTab : y[1] \in S}})
           /\ perTab' = {x \in perTab : x[1] \notin S}
    /\ ghost' = Crossing
    /\ UNCHANGED <<tabVars, global, added, mu, saved>>

-----------------------------------------------------------------------------
\* What happens outside the daemon: a page opens a window, a user closes one.

Outside == Counted /\ at' = Disturbed

Popup ==
    /\ Outside /\ Open(NewPage)
    /\ UNCHANGED <<pageOrder, activePg, ctx, scriptVars, mu, saved, ghost>>

UserCloses(p) ==
    /\ Outside /\ Close({p})
    /\ UNCHANGED <<opened, doc, pageOrder, activePg, ctx, global, perTab, ids, added,
                   mu, saved, ghost>>

Request(h) ==
    \/ TabNew(h, TRUE, TRUE) \/ TabNew(h, FALSE, FALSE) \/ NavigateOpens(h)
    \/ \E p \in ToSet(live) : TabCloseStart(h, p) \/ TabSwitch(h, p)
    \/ ContextCreate(h) \/ \E on \in BOOLEAN : ContextSwitch(h, on)
    \/ SessionSave(h) \/ SessionDelete(h) \/ SessionNewOpen(h) \/ ResumeStart(h)
    \/ ClearAll(h) \/ \E a \in Aliases : AddStart(h, a) \/ ClearTab(h, a)

HandlerStep(h) ==
    \/ TrackLookup(h) \/ TrackAppend(h)
    \/ ApplyCopy(h) \/ ApplyRegister(h) \/ ApplyDone(h)
    \/ UntrackLookup(h) \/ UntrackRemove(h) \/ TabCloseClose(h) \/ TabCloseForget(h)
    \/ SavePage(h) \/ SaveWrite(h)
    \/ SessionNewClose(h) \/ SessionNewReset(h) \/ SessionNewActive(h)
    \/ ResumeOpen(h) \/ ResumeOpened(h) \/ ResumeClose(h)
    \/ AddRegister(h) \/ AddFinish(h)

Next ==
    \/ \E h \in Handlers : Request(h) \/ HandlerStep(h)
    \/ Popup \/ \E p \in ToSet(live) : UserCloses(p)

Spec == Init /\ [][Next]_vars

-----------------------------------------------------------------------------
\* Properties.

\* A tab that is tracked and set up runs every script that was added for all
\* tabs, whether the script or the tab came first and however the two handlers
\* interleaved (page_management.go:100-101).
EveryTabHasScripts ==
    \A p \in (ToSet(pageOrder) \cap ToSet(live)) \ BeingSetUp :
        \A e \in global : \E r \in reg : r[1] = e /\ r[2] = p

\* No page keeps running a script that is not listed any more, unless the add
\* failed half way, the page was being set up while scripts were added or
\* cleared, or it was tracked in the place of another (routes_inject.go:184-186, removeCDPScript).
ClearedScriptsGone ==
    \A r \in reg :
        \/ r[1] \in global \/ \E x \in perTab : x[2] = r[1]
        \/ r[1] \in ghost.failed \/ r[2] \in ghost.crossed
        \/ \E h \in Handlers : at[h].step = "add" /\ at[h].script = r[1]

\* The index of a tracked tab, which clients name it by, never grows, and no
\* tab loses its place: opening tabs, windows and contexts does not move the
\* tabs that are there (page_management.go:137, tabscope.go:13-15).  Two things
\* do: a session that resets the order, and a removal of the very entry the tab
\* has, by its own close or by one that another write to the order crossed.
Index(p) == CHOOSE i \in 1 .. Len(orderedPages) : orderedPages[i] = p
Stays(p) == p \in ToSet(pageOrder) /\ IsLive(p)
Resets(h) == SessionNewReset(h) \/ ResumeStart(h)
Removes(h, p) ==
    /\ UntrackRemove(h)
    /\ at[h].n \in DOMAIN pageOrder /\ pageOrder[at[h].n] = p
    /\ at[h].page = p \/ ~at[h].alone
TabIndexStable ==
    [][\A p \in Pages : Stays(p) /\ IsLive(p)' =>
          \/ Stays(p)' /\ Index(p)' <= Index(p)
          \/ \E h \in Handlers : Resets(h) \/ Removes(h, p)]_vars

\* A session that is resumed while nothing else happens shows the document
\* that was active when it was saved, unless a page that was gone by its turn
\* had been left out of the file before it, or a context is the active one
\* (routes_session.go:36-49, 167-171).
ResumeRestoresActive ==
    [][\A h \in Handlers :
         ResumeClose(h) /\ at[h].alone /\ at[h].file.shown # 0 /\ ~ctx.on
            => activePage' # 0 /\ doc[activePage'] = at[h].file.shown]_vars

\* What the comment at routes_tab.go:86 says of closing a tab: the active page
\* falls back to one of the browser's.
CloseFallsBack ==
    [][\A h \in Handlers : TabCloseForget(h) /\ at[h].alone /\ live # <<>>
         => activePage' \in ToSet(live)]_vars
=============================================================================
