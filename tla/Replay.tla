------------------------------- MODULE Replay -------------------------------
(***************************************************************************)
(* What a recording keeps of the actions performed on a page, and what its *)
(* replay does with it (recordInteraction, recordFill, recordExpect;       *)
(* handleRecordReplay, replayAction, resolveRecordedTarget in              *)
(* routes_record.go), with the handlers of routes_form.go,                 *)
(* routes_interaction.go, routes_navigation.go and routes_mouse.go.  The   *)
(* files, the flag and the snapshot are in Recording.                      *)
(*                                                                         *)
(* A replay runs at once, while the page may still be rendering, and on    *)
(* whatever page is active: the recording's own url is not visited.        *)
(***************************************************************************)
EXTENDS FormPage, ExpectRules

CONSTANTS
    Text,         \* what is typed and filled in
    Containing,   \* which text contains which, case ignored
    Specs,        \* select requests: [by, spec, number], number if given as one
    Fills,        \* fill requests: sequences of selectors
    Asked,        \* expect requests, each the set of fields it gives
    Goal,         \* what they ask for: [text, url, value]
    Noisy,        \* elements whose click logs a console error
    Moved,        \* another order the site may serve the page in, later
    Url0, Url1,   \* where the recording starts; another url
    Pixels,       \* amounts a scroll request gives
    DefaultPixels,\* the amount a replay takes for one that is not positive
    MaxEvents     \* bound: length of the recording

ASSUME ReplayBounds ==
    /\ MaxEvents \in Nat /\ Pixels \subseteq Int
    /\ Fills \subseteq Seq(DOMAIN Order) \ {<<>>}
    /\ \A F \in Asked : F \subseteq Fields /\ Accepted(F) /\ ~({"selector", "ref"} \subseteq F)
    /\ \A text \in {Label[n] : n \in Nodes} \cup {Pressed} : <<text, text>> \in Containing
    /\ Moved \in [DOMAIN Order -> Nodes] /\ Noisy \subseteq Nodes

VARIABLES
    page,         \* the active page
    ring,         \* what the rings still hold: a subset of {"error", "request"}
    phase,        \* "live", "replay", "done"
    events,       \* the recording
    index,        \* the event being replayed
    target,       \* the selector resolveRecordedTarget returned, 0 before
    report,       \* [failed, total, passed, healed]
    hits,         \* history: the elements each recorded event acted on
    rhits,        \* history: the elements each replayed event acted on
    livePage,     \* history: the page when the recording ended
    lossy,        \* history: something happened that replay cannot reproduce
    early,        \* history: an action was recorded before the page settled
    moved,        \* history: the replay began on another page than the recording
    slipped       \* history: the page changed between resolution and action, or
                  \* logged an error of its own

eventVars == <<events, hits, lossy, early>>
replayVars == <<index, target, report, rhits, livePage, moved, slipped>>
allVars == <<page, ring, phase, eventVars, replayVars>>

Positions == DOMAIN Order
ElementOps == {"click", "hover", "type", "select", "check"}
RawOps == {"mouse_doubleclick"}           \* recorded without a fingerprint

(* Three fields are ghosts: own, the fingerprint the target had before the *)
(* action; asked and at, the fields an expect request gave and the element *)
(* it was about.                                                           *)
Event(op) == [op |-> op, sel |-> 0, arg |-> "", by |-> "", number |-> FALSE, px |-> 0,
              fp |-> NoPrint, idx |-> 0, fields |-> <<>>, want |-> {}, own |-> NoPrint, asked |-> {}, at |-> 0]

NoReport == [failed |-> 0, total |-> 0, passed |-> 0, healed |-> {}]

ReplayTypeOK ==
    /\ page.order \in [Positions -> Nodes] /\ page.out \subseteq Late
    /\ page.scroll \in 0 .. Bottom /\ page.here \in DOMAIN page.trail
    /\ ring \subseteq {"error", "request"} /\ phase \in {"live", "replay", "done"}
    /\ Len(events) <= MaxEvents /\ Len(hits) = Len(events)
    /\ index \in 0 .. Len(events) + 1 /\ target \in 0 .. Len(Order)
    /\ report.failed \in 0 .. Len(events) /\ report.healed \subseteq DOMAIN events
    /\ Len(rhits) <= Len(hits)
    /\ {lossy, early, moved, slipped} \subseteq BOOLEAN

ReplayInit ==
    /\ page = Loaded(<<Url0>>, 1, Order) /\ ring = {} /\ phase = "live"
    /\ events = <<>> /\ hits = <<>> /\ lossy = FALSE /\ early = FALSE
    /\ index = 0 /\ target = 0 /\ report = NoReport /\ rhits = <<>>
    /\ livePage = page /\ moved = FALSE /\ slipped = FALSE

-----------------------------------------------------------------------------
(* What an element action does, live and replayed alike: whether it is     *)
(* carried out on the element at s, and the page it leaves.                *)

Possible(p, s, e) ==
    LET n == FindElement(p, s) IN
    CASE e.op = "click" -> n # NoNode /\ n \notin Disabled
      [] e.op \in {"hover", "type"} -> n # NoNode
      [] e.op = "select" -> Selects(p, s, e.by, e.arg)
      [] e.op = "check" -> /\ n # NoNode /\ Kind[n] = "check"
                           /\ p.val[n] # e.arg => n \notin Disabled
      [] e.op \in RawOps -> Resolve(p, s) # NoNode

Effect(p, s, e) ==
    LET n == Resolve(p, s) IN
    IF e.op = "select" THEN SelectOption(p, s, e.by, e.arg)
    ELSE IF ~Possible(p, s, e) THEN p
    ELSE CASE e.op = "click" -> Click(p, n)
           [] e.op = "type" -> Type(p, n, e.arg)
           [] e.op = "check" -> IF p.val[n] = e.arg THEN p ELSE Click(p, n)
           [] e.op \in RawOps -> DoubleClick(p, n)
           [] e.op = "hover" -> p

(* What the console and network listeners keep of it.                      *)
Heard(p, q, e, s) ==
    (IF e.op = "click" /\ Resolve(p, s) \in Noisy THEN {"error"} ELSE {})
    \cup (IF q.sent > p.sent THEN {"request"} ELSE {})

(* The page once those fields of a fill were set.                          *)
FilledTo(p, fs, those) == SetNativeValue(p, [i \in those |-> Resolve(p, fs[i].sel)], fs)

(* Whether the polled condition holds on page p, with r in the rings, for  *)
(* the element at s.                                                       *)
Condition(p, r, F, s) ==
    LET n == Resolve(p, s)
        shown == \E m \in ToSet(At(p)) \ Hidden : Ident(p, m)[2] = Goal.text
        polled == Polled(F)
    IN CASE polled = "text" -> shown
         [] polled = "textGone" -> ~shown
         [] polled = "urlPattern" -> Url(p) = Goal.url
         [] polled = "value" -> n # NoNode /\ p.val[n] = Goal.value
         [] polled = "checked" -> n # NoNode /\ Kind[n] = "check" /\ p.val[n] = "on"
         [] polled = "count" -> n # NoNode
         [] polled = "enabled" -> n # NoNode /\ n \notin Disabled
         [] polled = "visible" -> FindElement(p, s) # NoNode
         [] polled = "hidden" -> FindElement(p, s) = NoNode
         [] polled = "request" -> "request" \in r
         [] polled = "noConsoleErrors" -> "error" \notin r

-----------------------------------------------------------------------------
(* The live session.                                                       *)

Recording == phase = "live" /\ Len(events) < MaxEvents

Record(e, nodes, loses) ==
    /\ events' = Append(events, e) /\ hits' = Append(hits, nodes)
    /\ lossy' = (lossy \/ loses)
    /\ early' = (early \/ (~Settled(page) /\ (nodes # <<>> \/ e.op = "expect")))

(* What a replay would take for the element at s while part of the page is *)
(* still to be rendered: a twin that stands there, or that counts the same.*)
Mistakable(p, s, idx) ==
    \E out \in SUBSET Late :
       LET r == [p EXCEPT !.out = out] IN
       \E t \in Twins(r, LiveFingerprint(p, s)) :
          (t = s \/ LiveIndex(r, t) = idx) /\ At(r)[t] # Resolve(p, s)

(* Until it is rendered, something late leaves the element elsewhere.      *)
Shifts(p, s) ==
    \E out \in SUBSET Late :
       LET r == [p EXCEPT !.out = out] IN
       \E t \in DOMAIN At(r) \ {s} : At(r)[t] = Resolve(p, s) /\ Resolve(r, s) # Resolve(p, s)

(* A replayed double click does not wait: it goes to what is at s then.    *)
Displaced(p, s) == \E out \in SUBSET Late : Resolve([p EXCEPT !.out = out], s) # Resolve(p, s)

(* recordInteraction: the fingerprint is taken at the selector after the   *)
(* action.  An action that fails is not recorded.                          *)
ElementAction(op, s, arg, by, number) ==
    LET e == [Event(op) EXCEPT !.sel = s, !.arg = arg, !.by = by, !.number = number]
        q == Effect(page, s, e)
        own == LiveFingerprint(page, s)
        fp == IF op \in RawOps THEN NoPrint ELSE LiveFingerprint(q, s)
        kept == [e EXCEPT !.by = "value", !.fp = fp, !.idx = LiveIndex(q, s), !.own = own]
    IN /\ Recording
       /\ page' = q
       /\ IF Possible(page, s, e)
          THEN /\ Record(kept, <<Resolve(page, s)>>,
                         \/ op \in ElementOps /\ (fp # own \/ Mistakable(page, s, kept.idx))
                         \/ op \in RawOps /\ Displaced(page, s)
                         \/ op = "select" /\ Matched("value", arg) # Matched(by, arg))
               /\ ring' = ring \cup Heard(page, q, e, s)
          ELSE /\ lossy' = (lossy \/ q # page)
               /\ UNCHANGED <<events, hits, early, ring>>
       /\ UNCHANGED <<phase, replayVars>>

HandleClick(s) == ElementAction("click", s, "", "", FALSE)

HandleHover(s) == ElementAction("hover", s, "", "", FALSE)

HandleType(s) == ElementAction("type", s, Text, "", FALSE)

(* A select that fails has cleared the selection; firstSpec keeps the spec *)
(* of one that succeeds, not which kind it was.                            *)
HandleSelect(s, c) == ElementAction("select", s, c.spec, c.by, c.number)

HandleCheck(s, want) == ElementAction("check", s, want, "", FALSE)

(* An element that is not rendered cannot be scrolled into view: the       *)
(* handler panics before it did anything.  The replay does not scroll.     *)
HandleMouseDoubleclick(s) ==
    Resolve(page, s) \notin Hidden /\ ElementAction("mouse_doubleclick", s, "", "", FALSE)

(* handleFill: every field is tried; a submit follows only if all were     *)
(* set, and is not recorded.  A field given by ref is recorded without the *)
(* selector it was resolved to, and without a fingerprint.                 *)
Fill(sels, byRef, submit) ==
    LET asked == [i \in DOMAIN sels |-> [sel |-> sels[i], text |-> Text]]
        set == {i \in DOMAIN sels : /\ TakesValue(page, sels[i])
                                    /\ FindElement(page, sels[i]) # NoNode}
        failed == set # DOMAIN sels
        filled == FilledTo(page, asked, set)
        q == IF submit /\ ~failed THEN FormSubmit(filled, sels[1]) ELSE filled
        kept == [i \in DOMAIN sels |->
                    IF byRef THEN [sel |-> 0, text |-> Text, fp |-> NoPrint, idx |-> 0]
                    ELSE [sel |-> sels[i], text |-> Text, fp |-> LiveFingerprint(q, sels[i]),
                          idx |-> LiveIndex(q, sels[i])]]
    IN /\ Recording
       /\ page' = q /\ ring' = ring \cup Heard(page, q, Event("fill"), 0)
       /\ Record([Event("fill") EXCEPT !.fields = kept],
                 [i \in set |-> Resolve(page, sels[i])],
                 \/ failed \/ byRef \/ submit
                 \/ \E i \in DOMAIN sels : \/ Mistakable(page, sels[i], LiveIndex(q, sels[i]))
                                           \/ Shifts(page, sels[i]))
       /\ UNCHANGED <<phase, replayVars>>

(* Actions on the page as a whole.                                         *)
PageEffect(p, e) ==
    CASE e.op = "press" -> PressEnter(p)
      [] e.op = "navigate" -> Navigate(p, e.arg)
      [] e.op = "reload" -> Reload(p)
      [] e.op = "back" -> Traverse(p, -1)
      [] e.op = "forward" -> Traverse(p, 1)
      [] e.op = "scroll" -> Scroll(p, e.by, e.px)
      [] OTHER -> p

PageAction(e) ==
    LET q == PageEffect(page, e) IN
    /\ Recording
    /\ page' = q /\ ring' = ring \cup Heard(page, q, e, 0)
    /\ Record(e, <<>>, \/ e.op = "scroll" /\ e.by \in {"down", "up"} /\ e.px <= 0
                       \/ e.op = "cookies")
    /\ UNCHANGED <<phase, replayVars>>

HandlePress == PageAction(Event("press"))

HandleReload == PageAction(Event("reload"))

HandleBack == PageAction(Event("back"))

HandleForward == PageAction(Event("forward"))

HandleNavigate(url) == PageAction([Event("navigate") EXCEPT !.arg = url])

HandleScroll(direction, pixels) ==
    PageAction([Event("scroll") EXCEPT !.by = direction, !.px = pixels])

HandleMouseMove == PageAction(Event("mouse_move"))

(* cookies stands for the actions that are recorded and that replay does   *)
(* not know: tab_list, scrape, links, mouse_drag, console captures,        *)
(* contexts, sessions and init scripts.                                    *)
Unsupported == PageAction(Event("cookies"))

PageOps == {"press", "reload", "back", "forward", "navigate", "scroll", "mouse_move", "cookies"}

(* handleExpect records the request before it polls, whatever comes of it. *)
(* Scripts of the page may log errors while it waits.                      *)
Expect(F, s, errors) ==
    /\ Recording /\ errors \subseteq {"error"}
    /\ errors # {} => Companion(F)
    /\ Record([Event("expect") EXCEPT !.want = RecordedFields(F), !.asked = F, !.at = s,
                                      !.sel = IF "selector" \in F THEN s ELSE 0],
              <<>>, "ref" \in F \/ ~Condition(page, ring, F, s) \/ errors # {})
    /\ ring' = ring \cup errors
    /\ UNCHANGED <<page, phase, replayVars>>

(* Page scripts render a late element, whoever is at work.                 *)
Appear(n) ==
    /\ n \in page.out /\ phase # "done"
    /\ page' = Render(page, n)
    /\ slipped' = (slipped \/ target # 0)
    /\ UNCHANGED <<ring, phase, eventVars, index, target, report, rhits, livePage, moved>>

-----------------------------------------------------------------------------
(* The replay.                                                             *)

(* It starts on a fresh page, on one the site serves in another order, or  *)
(* on the page the recording left; some of what the rings held is gone.    *)
Start(p) ==
    /\ phase = "live" /\ events # <<>>
    /\ phase' = "replay" /\ page' = p /\ livePage' = page
    /\ \E r \in SUBSET ring :
          /\ ring' = r
          /\ moved' = (r # {} \/ p # Loaded(<<Url0>>, 1, Order))
    /\ index' = 1
    /\ UNCHANGED <<eventVars, target, report, rhits, slipped>>

Cur == events[index]

NextIs(op) == phase = "replay" /\ Cur.op \in op

Pass(q, nodes) ==
    /\ page' = q /\ rhits' = Append(rhits, nodes)
    /\ index' = index + 1 /\ target' = 0
    /\ phase' = IF index = Len(events) THEN "done" ELSE phase
    /\ UNCHANGED <<eventVars, livePage, moved, slipped>>

(* The first step that fails ends the replay.                              *)
Fail(q) ==
    /\ page' = q /\ phase' = "done" /\ target' = 0
    /\ report' = [report EXCEPT !.failed = index,
                                !.total = IF Cur.op = "expect" THEN @ + 1 ELSE @]
    /\ UNCHANGED <<ring, eventVars, index, rhits, livePage, moved, slipped>>

(* resolveRecordedTarget, retried for replayActionWait: the late elements  *)
(* of the page are taken to appear within it.                              *)
\* Mutant: repeated elements are not told apart.
RelocatedFirst(p, s, fp, idx) ==
    IF fp = NoPrint \/ LiveFingerprint(p, s) = fp THEN s ELSE FindByFingerprint(p, fp, 0)

Relocated(p, s, fp, idx) ==
    IF fp = NoPrint \/ LiveFingerprint(p, s) = fp THEN s ELSE FindByFingerprint(p, fp, idx)

\* Mutant: no deadline for an element that never appears.
ResolveTargetForever ==
    /\ NextIs(ElementOps) /\ target = 0
    /\ target' = Relocated(page, Cur.sel, Cur.fp, Cur.idx) /\ target' # 0
    /\ UNCHANGED <<page, ring, phase, eventVars, index, report, rhits, livePage, moved, slipped>>

ResolveTarget ==
    /\ NextIs(ElementOps) /\ target = 0
    /\ LET to == Relocated(page, Cur.sel, Cur.fp, Cur.idx) IN
       \/ /\ to # 0
          /\ target' = to
          /\ report' = [report EXCEPT !.healed = IF to = Cur.sel THEN @ ELSE @ \cup {index}]
          /\ UNCHANGED <<page, ring, phase, eventVars, index, rhits, livePage, moved, slipped>>
       \/ to = 0 /\ Settled(page) /\ Fail(page)

(* The element is looked up anew, by the selector that was resolved.       *)
PerformAt(s) ==
    LET q == Effect(page, s, Cur) IN
    IF Possible(page, s, Cur)
    THEN /\ Pass(q, <<Resolve(page, s)>>)
         /\ ring' = ring \cup Heard(page, q, Cur, s)
         /\ UNCHANGED report
    ELSE Fail(q)

Perform == NextIs(ElementOps) /\ target # 0 /\ PerformAt(target)

PerformRaw == NextIs(RawOps) /\ PerformAt(Cur.sel)

(* replayFill resolves each field in turn, with no report to note a heal   *)
(* in: one that has to be relocated panics, which fails the step.          *)
ReplayFill ==
    /\ NextIs({"fill"})
    /\ LET fs == Cur.fields
           found == [i \in DOMAIN fs |-> Relocated(page, fs[i].sel, fs[i].fp, fs[i].idx)]
           bad == {i \in DOMAIN fs : \/ found[i] # fs[i].sel \/ found[i] = 0
                                     \/ ~TakesValue(page, fs[i].sel)}
           q == FilledTo(page, fs, {i \in DOMAIN fs : \A j \in bad : i < j})
       IN /\ Settled(page) \/ \A i \in DOMAIN fs : fs[i].fp # NoPrint => found[i] # 0
          /\ IF bad = {}
             THEN /\ Pass(q, [i \in DOMAIN fs |-> Resolve(page, fs[i].sel)])
                  /\ UNCHANGED <<ring, report>>
             ELSE Fail(q)

(* A scroll by nothing becomes a scroll by the default.                    *)
Scrolled(e) ==
    IF e.op = "scroll" THEN [e EXCEPT !.px = IF @ > 0 THEN @ ELSE DefaultPixels] ELSE e

ReplayPage ==
    /\ NextIs(PageOps)
    /\ LET q == PageEffect(page, Scrolled(Cur))
       IN IF Cur.op = "cookies" THEN Fail(page)
          ELSE Pass(q, <<>>) /\ ring' = ring \cup Heard(page, q, Cur, 0) /\ UNCHANGED report

(* replayExpect: polled until it holds or its time is up, by which the     *)
(* page has settled.  Errors logged meanwhile are not looked at, whatever  *)
(* the request gave beside the condition.                                  *)
ReplayExpect ==
    /\ NextIs({"expect"})
    /\ LET holds == Condition(page, ring, ReplayedFields(Cur.want), Cur.sel) IN
       \/ /\ holds
          /\ Pass(page, <<>>)
          /\ report' = [report EXCEPT !.total = @ + 1, !.passed = @ + 1]
          /\ UNCHANGED ring
       \/ /\ ~holds /\ Settled(page)
          /\ Fail(page)

(* While a replayed checkpoint waits, scripts of the page log an error.    *)
LogError ==
    /\ NextIs({"expect"}) /\ "error" \notin ring
    /\ ring' = ring \cup {"error"} /\ slipped' = TRUE
    /\ UNCHANGED <<page, phase, eventVars, index, target, report, rhits, livePage, moved>>

ReplayStep == ResolveTarget \/ Perform \/ PerformRaw \/ ReplayFill \/ ReplayPage \/ ReplayExpect

LiveStep ==
    \/ \E s \in Positions :
          \/ HandleClick(s) \/ HandleHover(s) \/ HandleType(s) \/ HandleMouseDoubleclick(s)
          \/ \E c \in Specs : HandleSelect(s, c)
          \/ \E on \in {"on", "off"} : HandleCheck(s, on)
          \/ \E F \in Asked, errors \in {{}, {"error"}} :
                (HasTarget(F) \/ s = 1) /\ Expect(F, s, errors)
    \/ \E sels \in Fills, byRef, submit \in BOOLEAN : Fill(sels, byRef, submit)
    \/ \E url \in {Url0, Url1} : HandleNavigate(url)
    \/ \E d \in {"down", "up", "top", "bottom"}, px \in Pixels : HandleScroll(d, px)
    \/ HandlePress \/ HandleReload \/ HandleBack \/ HandleForward \/ HandleMouseMove
    \/ Unsupported

ReplayNext ==
    \/ LiveStep
    \/ \E p \in {Loaded(<<Url0>>, 1, Order), Loaded(<<Url0>>, 1, Moved), page} : Start(p)
    \/ ReplayStep
    \/ LogError \/ \E n \in Late : Appear(n)

(* A replay works on by itself, and the page's scripts do run.             *)
ReplaySpec ==
    /\ ReplayInit /\ [][ReplayNext]_allVars
    /\ WF_allVars(ReplayStep) /\ \A n \in Late : WF_allVars(Appear(n))

-----------------------------------------------------------------------------
(* Properties.                                                             *)

Shown(p) == [p EXCEPT !.out = {}]

(* A recording whose actions can all be replayed, made on a settled page   *)
(* and replayed from where it started, succeeds, acts on the very elements *)
(* the recorded session acted on, in that order, and leaves the page as    *)
(* that session left it - however late the page renders (replayAction).    *)
ReplayReproduces ==
    phase = "done" /\ ~lossy /\ ~early /\ ~moved /\ ~slipped
        => /\ report.failed = 0 /\ rhits = hits
           /\ Shown(page) = Shown(livePage)

(* A replayed checkpoint passes exactly when the condition its recorded    *)
(* request asked for holds, on the element it was about, and one that      *)
(* fails is reported as the condition it polled, unless it gave a state or *)
(* a count of no element (recordExpect, replayExpect, expectDescribe).     *)
(* Two things of a request do not come back: of one that gave a ref only   *)
(* what is left without its element is asked, and errors logged while a    *)
(* checkpoint waits do not fail it, even if its request said so.           *)
OfNothing(F) == F \cap {"value", "checked", "count", "enabled", "hidden"} # {} /\ ~HasTarget(F)

CheckpointAsserts(e, passed) ==
    /\ passed <=> IF "ref" \in e.asked THEN Condition(page, ring, e.asked \ {"ref"}, 0)
                  ELSE Condition(page, ring, e.asked, e.at)
    /\ ~passed /\ ~OfNothing(e.want) => Described(e.want) = Polled(e.want)

CheckpointsKept ==
    [][phase = "replay" /\ events[index].op = "expect" /\ <<phase, index>>' # <<phase, index>>
           => CheckpointAsserts(events[index], report'.passed > report.passed)]_allVars

-----------------------------------------------------------------------------
(* The exported spec (export.go), step by step, as Playwright runs it.     *)

(* getByRole: an element that shows, of that role, whose name contains the *)
(* given one.                                                              *)
Role(kind) == CASE kind = "text" -> "textbox" [] kind = "check" -> "checkbox"
                [] kind = "select" -> "combobox" [] OTHER -> "button"

ByRole(p, print) ==
    {s \in DOMAIN At(p) : LET n == At(p)[s] IN
        /\ n \notin Hidden /\ Role(Kind[n]) = Role(print[1])
        /\ <<Ident(p, n)[2], print[2]>> \in Containing}

\* Mutant: the locator gives the role and not the name.
ExportedTargetByRole(p, e) ==
    LET twins == {s \in DOMAIN At(p) : Role(Kind[At(p)[s]]) = Role(e.fp[1])}
    IN IF Cardinality(twins) > 1 THEN 0 ELSE Min(twins)

(* An element is named by role and name, and by position if its            *)
(* fingerprint was not the first of its kind: .nth(FPIndex - 1), from      *)
(* zero.  Without a name the recorded selector is used.  Locators are      *)
(* strict: one that matches several elements fails.                        *)
ExportedTarget(p, e) ==
    LET found == ByRole(p, e.fp)
        at == IF e.idx = 0 THEN found
              ELSE {s \in found : Cardinality({r \in found : r < s}) = e.idx - 1}
    IN IF e.fp[2] = "" THEN e.sel
       ELSE IF \E s \in at : at = {s} THEN CHOOSE s \in at : TRUE ELSE 0

(* What the spec's actions wait for.                                       *)
Operable(n) == n # NoNode /\ n \notin Hidden \cup Disabled

(* A recorded fill becomes one fill per field, their positions forgotten   *)
(* (fpFromMap).                                                            *)
ExportedFill(p, fs) ==
    LET ns == [i \in DOMAIN fs |-> Resolve(p, ExportedTarget(p, [fs[i] EXCEPT !.idx = 0]))]
    IN IF \A i \in DOMAIN ns : Operable(ns[i]) THEN SetNativeValue(p, ns, fs) ELSE p

(* selectOption takes the first option that matches; a spec that is a      *)
(* number is written as an empty string (paramString).                     *)
ExportedSelect(p, n, e) ==
    LET matched == Matched("value", IF e.number THEN "" ELSE e.arg)
    IN IF Operable(n) /\ Kind[n] = "select" /\ matched # {}
       THEN [p EXCEPT !.val[n] = ToString(Min(matched))] ELSE p

(* The spec opens the url of the recording; the visits to it that the      *)
(* recording began with are left out.                                      *)
Opening(k) == \A i \in 1 .. k : events[i].op = "navigate" /\ events[i].arg = Url0

(* These become comments.                                                  *)
Skipped == RawOps \cup {"mouse_move", "cookies"}

(* The page a step of the spec leaves, as it was if the step fails.        *)
ExportedStep(p, e) ==
    LET s == ExportedTarget(p, e)
        n == Resolve(p, s)
    IN CASE e.op \in Skipped -> p
         [] e.op = "navigate" -> IF Opening(index) THEN p ELSE Navigate(p, e.arg)
         [] e.op \in {"click", "check"} ->
               IF ~Operable(n) \/ (e.op = "check" /\ p.val[n] = e.arg) THEN p ELSE Click(p, n)
         [] e.op = "type" -> IF ~Operable(n) \/ Kind[n] # "text" THEN p
                             ELSE [p EXCEPT !.val[n] = e.arg, !.focus = n]
         [] e.op = "select" -> ExportedSelect(p, n, e)
         [] e.op = "fill" -> ExportedFill(p, e.fields)
         [] OTHER -> PageEffect(p, Scrolled(e))

InSync == phase = "replay" /\ Settled(page) /\ ~lossy /\ ~early /\ ~moved /\ ~slipped

Unambiguous(e) ==
    LET prints == IF e.op = "fill" THEN {f.fp : f \in ToSet(e.fields)} ELSE {e.fp}
    IN \A print \in prints : \A s, t \in Twins(page, print) \cup ByRole(page, print) : s = t

(* The handlers write to a hidden select and to disabled fields too, what  *)
(* is typed at another element goes where the focus is, and of several     *)
(* options that match the last is taken.                                   *)
Writable(e) ==
    CASE e.op = "type" -> Operable(Resolve(page, e.sel)) /\ e.fp[1] = "text"
      [] e.op = "select" -> /\ Operable(Resolve(page, e.sel)) /\ ~e.number
                            /\ \A i, j \in Matched("value", e.arg) : i = j
      [] e.op = "fill" -> \A i \in DOMAIN e.fields : Operable(Resolve(page, e.fields[i].sel))
      [] OTHER -> TRUE

ReplayedPage(e) ==
    CASE e.op \in ElementOps \cup RawOps -> Effect(page, e.sel, e)
      [] e.op = "fill" -> FilledTo(page, e.fields, DOMAIN e.fields)
      [] OTHER -> PageEffect(page, e)

(* A step of the exported spec leaves the page the recorded action leaves, *)
(* and asserts what its replay polls (buildPlaywrightSpec, specLocator,    *)
(* writeExpectSpec), the visits left out at its beginning included, if the *)
(* step is one the spec has, nothing else shares the element's fingerprint *)
(* or is found by its role and name, and what it writes to shows, is       *)
(* enabled and takes what was recorded.                                    *)
ExportAgrees ==
    InSync /\ Cur.op \notin Skipped /\ Unambiguous(Cur) /\ Writable(Cur) =>
        /\ Shown(ExportedStep(page, Cur)) = Shown(ReplayedPage(Cur))
        /\ Cur.op = "expect" /\ Polled(Cur.want) \notin {"checked", "count", "enabled", "request",
                                                        "noConsoleErrors"}
              => SpecAssertion(Cur.want) = Polled(Cur.want)

(* specLocator disambiguates repeated elements with .nth(fpIndex)          *)
(* (export.go:120-121).                                                    *)
ExportDisambiguates ==
    InSync /\ Cur.op \in ElementOps /\ Cur.idx > 0
        => <<Resolve(page, ExportedTarget(page, Cur))>> = hits[index]

(* A replay that was begun ends.                                           *)
ReplayEnds == phase = "replay" ~> phase = "done"

=============================================================================
