------------------------------ MODULE FormPage ------------------------------
(***************************************************************************)
(* A page as the interaction handlers see it: a document order of elements *)
(* with their state, and what the daemon's injected scripts and CDP input  *)
(* do to it (routes_form.go, routes_interaction.go, elements.go).  The     *)
(* same operations serve a live request and the replay of its recording.   *)
(* Elements are addressed by selector; a selector is a position, as the    *)
(* nth-child paths of elementsJS are.                                      *)
(***************************************************************************)
EXTENDS Integers, SequencesExt

CONSTANTS
    Nodes,      \* the elements of the page
    Kind,       \* what kind of element each is
    Label,      \* their text; elements of one kind may share it
    Pressed,    \* the text of a toggle once it was clicked
    Options,    \* the options of a select, in order: [value, label]
    Hidden,     \* elements that are not rendered
    Disabled,   \* elements that take no clicks
    Late,       \* elements that appear some time after the page has loaded
    Order,      \* the document order the page is served with
    Bottom      \* how far the page scrolls

Kinds == {"text", "check", "select", "button", "toggle", "sort", "submit"}
NoNode == "no node"
NoPrint == <<"", "">>

ASSUME PageAssumption ==
    /\ Order \in [1 .. Len(Order) -> Nodes] /\ Len(Order) \in Nat
    /\ Kind \in [Nodes -> Kinds] /\ NoNode \notin Nodes /\ DOMAIN Options \subseteq Nat
    /\ Hidden \cup Disabled \cup Late \subseteq Nodes
    /\ Bottom \in Nat

Blank(n) == CASE Kind[n] = "check" -> "off"
              [] Kind[n] = "toggle" -> "up"
              [] Kind[n] = "select" -> "none"
              [] OTHER -> ""

(* What a load gives: the elements in the order the site serves them, the   *)
(* late ones still out.  trail is the session history, here its current    *)
(* entry.                                                                  *)
Loaded(trail, here, order) ==
    [trail |-> trail, here |-> here, base |-> order, order |-> order, out |-> Late,
     val |-> [n \in Nodes |-> Blank(n)], focus |-> NoNode, scroll |-> 0, sent |-> 0]

Url(p) == p.trail[p.here]

Reload(p) == Loaded(p.trail, p.here, p.base)

(* A page that is sent to its own url is loaded again, in the same entry.  *)
Navigate(p, url) ==
    IF url = Url(p) THEN Reload(p)
    ELSE Loaded(Append(SubSeq(p.trail, 1, p.here), url), p.here + 1, p.base)

(* Back and forward, by one; at the end of the history nothing happens.    *)
Traverse(p, by) ==
    IF p.here + by \in DOMAIN p.trail THEN Loaded(p.trail, p.here + by, p.base) ELSE p

Settled(p) == p.out = {}

(* The elements a selector can match, all of them once the page settled.   *)
At(p) == IF Settled(p) THEN p.order ELSE SelectSeq(p.order, LAMBDA n : n \notin p.out)

(* resolveOne: the element a selector matches.                             *)
Resolve(p, s) == IF s \in DOMAIN At(p) THEN At(p)[s] ELSE NoNode

(* identityOf: what a fingerprint keeps.  A toggle changes its text.       *)
Ident(p, n) ==
    <<Kind[n], IF Kind[n] = "toggle" /\ p.val[n] = "down" THEN Pressed ELSE Label[n]>>

Twins(p, print) == {s \in DOMAIN At(p) : Ident(p, At(p)[s]) = print}

(* liveElementJS: identity, and how many before it in the document share it. *)
LiveFingerprint(p, s) ==
    IF Resolve(p, s) = NoNode THEN NoPrint ELSE Ident(p, Resolve(p, s))

LiveIndex(p, s) ==
    Cardinality({r \in Twins(p, LiveFingerprint(p, s)) : r < s})

(* findByFingerprint: the selector of the index-th match, 0 if there is none. *)
FindByFingerprint(p, print, index) ==
    LET at == {s \in Twins(p, print) : LiveIndex(p, s) = index}
    IN IF at = {} THEN 0 ELSE CHOOSE s \in at : TRUE

(* findElement: the element, unless it is missing or not visible.          *)
FindElement(p, s) == IF Resolve(p, s) \in Hidden THEN NoNode ELSE Resolve(p, s)

Click(p, n) ==
    IF n \in Disabled THEN p
    ELSE LET q == [p EXCEPT !.focus = n] IN
         CASE Kind[n] = "check"  -> [q EXCEPT !.val[n] = IF @ = "on" THEN "off" ELSE "on"]
           [] Kind[n] = "toggle" -> [q EXCEPT !.val[n] = IF @ = "up" THEN "down" ELSE "up"]
           [] Kind[n] = "sort"   -> [q EXCEPT !.order = Append(Tail(@), Head(@))]
           [] Kind[n] = "submit" -> [q EXCEPT !.sent = @ + 1]
           [] OTHER -> q

(* The dblclick event and no more is dispatched, so that nothing is        *)
(* focused; what the page does on it, here, is to send a request.          *)
DoubleClick(p, n) ==
    IF Kind[n] = "submit" /\ n \notin Disabled THEN [p EXCEPT !.sent = @ + 1] ELSE p

(* Text goes where the focus f is, if that is a field; n was cleared.      *)
Insert(p, n, f, text) ==
    IF f # NoNode /\ Kind[f] = "text"
    THEN [p EXCEPT !.val[f] = IF f = n THEN text ELSE @ \o text] ELSE p

(* handleType clears and focuses the element, then inserts the text: a     *)
(* disabled element does not take the focus.                               *)
Type(p, n, text) ==
    LET f == IF n \in Disabled THEN p.focus ELSE n
        cleared == CASE Kind[n] = "text" -> "" [] Kind[n] = "select" -> "none" [] OTHER -> p.val[n]
    IN Insert([p EXCEPT !.focus = f, !.val[n] = cleared], n, f, text)

PressEnter(p) ==
    IF p.focus # NoNode /\ Kind[p.focus] = "text" THEN [p EXCEPT !.sent = @ + 1] ELSE p

ScrollTo(p, y) == [p EXCEPT !.scroll = Max({0, Min({y, Bottom})})]

Scroll(p, direction, pixels) ==
    CASE direction = "down" -> ScrollTo(p, p.scroll + pixels)
      [] direction = "up" -> ScrollTo(p, p.scroll - pixels)
      [] direction = "top" -> ScrollTo(p, 0)
      [] direction = "bottom" -> ScrollTo(p, Bottom)

(* setNativeValueJS: only text inputs take a value; visibility is no matter. *)
TakesValue(p, s) == Resolve(p, s) # NoNode /\ Kind[Resolve(p, s)] = "text"

(* The elements ns, in turn, are set to the texts of their fields.         *)
SetNativeValue(p, ns, fields) ==
    LET given(n) == {i \in DOMAIN ns : ns[i] = n} IN
    [p EXCEPT !.val = [n \in Nodes |-> IF given(n) = {} THEN p.val[n]
                                       ELSE fields[Max(given(n))].text],
              !.focus = IF DOMAIN ns = {} THEN @ ELSE ns[Max(DOMAIN ns)]]

FormSubmit(p, s) == IF Resolve(p, s) # NoNode THEN [p EXCEPT !.sent = @ + 1] ELSE p

(* selectOptionJS: a value also matches labels, a label values, both as    *)
(* strings; an index the position from zero.                               *)
Matched(by, spec) ==
    {i \in DOMAIN Options :
        IF by = "index" THEN spec = ToString(i - 1)
        ELSE spec \in {Options[i].value, Options[i].label}}

IsSelect(p, s) == Resolve(p, s) # NoNode /\ Kind[Resolve(p, s)] = "select"

(* The selection is cleared before the options are compared: a spec that   *)
(* matches nothing fails and leaves it cleared.  Of several matches a      *)
(* single-choice select keeps the last.                                    *)
SelectOption(p, s, by, spec) ==
    IF ~IsSelect(p, s) THEN p
    ELSE [p EXCEPT !.val[Resolve(p, s)] =
             IF Matched(by, spec) = {} THEN "none" ELSE ToString(Max(Matched(by, spec)))]

Selects(p, s, by, spec) == IsSelect(p, s) /\ Matched(by, spec) # {}

(* Page scripts render an element that was late.                           *)
Render(p, n) == [p EXCEPT !.out = @ \ {n}]

=============================================================================
