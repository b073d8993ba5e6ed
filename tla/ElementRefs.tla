----------------------------- MODULE ElementRefs -----------------------------
(***************************************************************************)
(* Element refs (elements.go, routes_interaction.go:26-121).  /elements    *)
(* numbers the interactive elements of a page; an action names one of the  *)
(* numbers later, when page scripts, navigations and other handlers may    *)
(* have changed the page and the ref store.  An enumeration is an eval in  *)
(* the page and, as a second step, the replacement of the store; anything  *)
(* may happen in between, as between any two evals of one handler.         *)
(*                                                                         *)
(* A page is a map from selectors to the elements they match: a selector   *)
(* keeps its meaning when elements come and go elsewhere, a ref is the     *)
(* rank among the elements present.  Selectors are numbered in document    *)
(* order.                                                                  *)
(***************************************************************************)
EXTENDS Integers, SequencesExt

CONSTANTS
    Nodes,       \* DOM elements
    Ident,       \* their fingerprints (fingerprintOf); nodes may share one
    Slots,       \* selectors, numbered in document order
    Callers,     \* clients, each with one request at a time
    MaxEpochs    \* bound: changes of the page

ASSUME RefAssumption ==
    /\ Ident \in [Nodes -> Range(Ident)]
    /\ Slots \subseteq Nat \ {0} /\ IsFiniteSet(Slots)
    /\ MaxEpochs \in Nat

VARIABLES
    dom,         \* the page: which node each selector that matches gives
    epoch,       \* history: number of changes of the page so far
    document,    \* history: number of navigations so far
    loading,     \* a navigation is under way: an eval may fail
    store,       \* s.elementRefs[page], empty if missing
    pc,          \* per client: the step of its request
    snap,        \* per client: what its request's enumeration evaluated
    ref,         \* per client: the ref of its action
    entry,       \* per client: the stored entry the action looked up
    slot,        \* per client: the selector the action settled on, or None
    listing,     \* per client: the elements it was last given
    start,       \* history, per client: epoch and store at its lookup
    failed       \* history, per client: an eval of its action failed

pageVars == <<dom, epoch, document, loading>>
requestVars == <<pc, snap, ref, entry, slot>>
historyVars == <<start, failed>>
vars == <<pageVars, store, requestVars, listing, historyVars>>

None == 0

Pages == {d \in UNION {[S -> Nodes] : S \in SUBSET Slots} :
             \A i, j \in DOMAIN d : i # j => d[i] # d[j]}

(* elementsJS: entry k is the k-th element of the page, by its selector;   *)
(* the node stands for the fields fingerprintOf reads.                     *)
Rank(d, s) == Cardinality({t \in DOMAIN d : t <= s})
Elements(d) ==
    [k \in 1 .. Cardinality(DOMAIN d) |->
        LET s == CHOOSE s \in DOMAIN d : Rank(d, s) = k IN [slot |-> s, node |-> d[s]]]

(* An enumeration, and when it was evaluated.                              *)
Snapshot == [elems |-> Elements(dom), epoch |-> epoch, document |-> document]
Nothing == [elems |-> <<>>, epoch |-> 0, document |-> 0]

Entries == [slot : Slots, node : Nodes]

NoEntry == [slot |-> None]

Steps == {"idle", "list", "listStore", "lookup", "verify", "fresh", "freshStore", "retarget",
          "retargetStore", "act", "miss", "missStore", "load", "invalidate"}

Snapshots == [elems : Seq(Entries), epoch : 0 .. epoch, document : 0 .. document]

TypeOK ==
    /\ dom \in Pages /\ epoch \in 0 .. MaxEpochs /\ document \in Nat /\ loading \in BOOLEAN
    /\ store \in Snapshots
    /\ pc \in [Callers -> Steps]
    /\ snap \in [Callers -> Snapshots] /\ listing \in [Callers -> Snapshots]
    /\ ref \in [Callers -> Nat]
    /\ entry \in [Callers -> Entries \cup {NoEntry}]
    /\ slot \in [Callers -> Slots \cup {None}]
    /\ \A c \in Callers : pc[c] = "act" => slot[c] \in Slots
    /\ failed \in [Callers -> BOOLEAN]

Init ==
    /\ dom \in Pages
    /\ epoch = 0 /\ document = 0 /\ loading = FALSE
    /\ store = Nothing
    /\ pc = [c \in Callers |-> "idle"]
    /\ snap = [c \in Callers |-> Nothing]
    /\ ref = [c \in Callers |-> None]
    /\ entry = [c \in Callers |-> NoEntry]
    /\ slot = [c \in Callers |-> None]
    /\ listing = [c \in Callers |-> Nothing]
    /\ start = [c \in Callers |-> [epoch |-> 0, store |-> Nothing]]
    /\ failed = [c \in Callers |-> FALSE]

Goto(c, step) == pc' = [pc EXCEPT ![c] = step]

(* A request is over; what it worked on is forgotten.                      *)
Done(c) ==
    /\ Goto(c, "idle")
    /\ snap' = [snap EXCEPT ![c] = Nothing]
    /\ ref' = [ref EXCEPT ![c] = None]
    /\ entry' = [entry EXCEPT ![c] = NoEntry]
    /\ slot' = [slot EXCEPT ![c] = None]
    /\ start' = [start EXCEPT ![c] = [epoch |-> 0, store |-> Nothing]]
    /\ failed' = [failed EXCEPT ![c] = FALSE]

(* enumerateElements: the eval, which may fail while a page is loading...  *)
Enumerate(c, step, next) ==
    /\ pc[c] = step
    /\ Goto(c, next)
    /\ snap' = [snap EXCEPT ![c] = Snapshot]
    /\ UNCHANGED <<pageVars, store, ref, entry, slot, listing, historyVars>>

EnumerateFails(c, step) == pc[c] = step /\ loading

(* ... and the replacement of the store.                                   *)
Replace(c, step) == pc[c] = step /\ store' = snap[c] /\ UNCHANGED pageVars

-----------------------------------------------------------------------------
(* /elements.                                                              *)

ElementsRequest(c) ==
    /\ pc[c] = "idle"
    /\ Goto(c, "list")
    /\ UNCHANGED <<pageVars, store, snap, ref, entry, slot, listing, historyVars>>

ElementsEval(c) == Enumerate(c, "list", "listStore")

ElementsReply(c) ==
    \/ /\ Replace(c, "listStore")
       /\ listing' = [listing EXCEPT ![c] = snap[c]]
       /\ Done(c)
    \/ /\ EnumerateFails(c, "list")
       /\ Done(c)
       /\ UNCHANGED <<pageVars, store, listing>>

-----------------------------------------------------------------------------
(* An action by ref: resolveElementTarget.                                 *)

(* The client names an element of its listing.                             *)
ActionRequest(c) ==
    /\ pc[c] = "idle"
    /\ \E k \in DOMAIN listing[c].elems : ref' = [ref EXCEPT ![c] = k]
    /\ Goto(c, "lookup")
    /\ UNCHANGED <<pageVars, store, snap, entry, slot, listing, historyVars>>

(* Mutant: the entry after the one the ref names.                          *)
LookupRefInStoreOffByOne(c) ==
    /\ pc[c] = "lookup"
    /\ IF ref[c] + 1 > Len(store.elems)
         THEN Goto(c, "fresh") /\ UNCHANGED entry
         ELSE /\ entry' = [entry EXCEPT ![c] = store.elems[ref[c] + 1]]
              /\ Goto(c, "verify")
    /\ start' = [start EXCEPT ![c] = [epoch |-> epoch, store |-> store]]
    /\ UNCHANGED <<pageVars, store, snap, ref, slot, listing, failed>>

LookupRefInStore(c) ==
    /\ pc[c] = "lookup"
    /\ IF ref[c] > Len(store.elems)
         THEN Goto(c, "fresh") /\ UNCHANGED entry
         ELSE /\ entry' = [entry EXCEPT ![c] = store.elems[ref[c]]]
              /\ Goto(c, "verify")
    /\ start' = [start EXCEPT ![c] = [epoch |-> epoch, store |-> store]]
    /\ UNCHANGED <<pageVars, store, snap, ref, slot, listing, failed>>

(* Nothing stored: the fresh element at that rank is the answer.           *)
FreshEval(c) == Enumerate(c, "fresh", "freshStore")

Settle(c, s) ==
    /\ Goto(c, "act")
    /\ slot' = [slot EXCEPT ![c] = s]
    /\ UNCHANGED <<snap, ref, entry, listing, start>>

FreshStore(c) ==
    \/ /\ Replace(c, "freshStore")
       /\ IF ref[c] > Len(snap[c].elems)
            THEN Done(c) /\ UNCHANGED listing
            ELSE Settle(c, snap[c].elems[ref[c]].slot) /\ UNCHANGED failed
    \/ /\ EnumerateFails(c, "fresh")
       /\ Done(c)
       /\ UNCHANGED <<pageVars, store, listing>>

(* The page's element at a selector has the identity wanted.               *)
Matches(s, node) == s \in DOMAIN dom /\ Ident[dom[s]] = Ident[node]

(* Mutant: the recorded selector is taken at its word.                     *)
VerifyRefIdentityTrusts(c) ==
    /\ pc[c] = "verify"
    /\ Settle(c, entry[c].slot)
    /\ UNCHANGED <<pageVars, store, failed>>

(* verifyRefIdentity: the recorded selector still gives the identity, or   *)
(* the page is enumerated to look for it.                                  *)
VerifyRefIdentity(c) ==
    /\ pc[c] = "verify"
    /\ \/ /\ Matches(entry[c].slot, entry[c].node)
          /\ Settle(c, entry[c].slot)
          /\ UNCHANGED failed
       \/ /\ ~Matches(entry[c].slot, entry[c].node) \/ loading
          /\ Goto(c, "retarget")
          /\ failed' = [failed EXCEPT ![c] = loading]
          /\ UNCHANGED <<snap, ref, entry, slot, listing, start>>
    /\ UNCHANGED <<pageVars, store>>

RetargetEval(c) == Enumerate(c, "retarget", "retargetStore")

Survivors(c) == {k \in DOMAIN snap[c].elems : Ident[snap[c].elems[k].node] = Ident[entry[c].node]}

(* A client answered with candidates may go on with their refs.            *)
Shown(c) == \/ UNCHANGED listing
            \/ listing' = [listing EXCEPT ![c] = snap[c]]

(* The first element with the identity, or an error and candidates.        *)
RetargetStore(c) ==
    /\ Replace(c, "retargetStore")
    /\ \/ \E k \in Survivors(c) : /\ \A j \in Survivors(c) : k <= j
                                  /\ Settle(c, snap[c].elems[k].slot) /\ UNCHANGED failed
       \/ Survivors(c) = {} /\ Done(c) /\ Shown(c)

(* The enumeration failed: the recorded selector, unverified.              *)
RetargetFails(c) ==
    /\ EnumerateFails(c, "retarget")
    /\ Settle(c, entry[c].slot)
    /\ failed' = [failed EXCEPT ![c] = TRUE]
    /\ UNCHANGED <<pageVars, store>>

(* findElement and the action: on the node the selector gives now; if      *)
(* there is none, or it is hidden, candidates are enumerated for the reply.*)
Act(c) ==
    /\ pc[c] = "act"
    /\ \/ slot[c] \in DOMAIN dom /\ Done(c)
       \/ Goto(c, "miss") /\ UNCHANGED <<snap, ref, entry, slot, historyVars>>
    /\ UNCHANGED <<pageVars, store, listing>>

CandidatesEval(c) == Enumerate(c, "miss", "missStore")

CandidatesReply(c) ==
    \/ /\ Replace(c, "missStore")
       /\ Done(c) /\ Shown(c)
    \/ /\ EnumerateFails(c, "miss")
       /\ Done(c)
       /\ UNCHANGED <<pageVars, store, listing>>

-----------------------------------------------------------------------------
(* The page.                                                               *)

(* A script changes the page.                                              *)
PageChanges ==
    /\ epoch < MaxEpochs
    /\ epoch' = epoch + 1
    /\ dom' \in Pages \ {dom}
    /\ UNCHANGED <<document, loading, store, requestVars, listing, historyVars>>

(* A link, a script, or the reload, back and forward handlers: a new       *)
(* document, and no word to the ref store.                                 *)
PageNavigates ==
    /\ epoch < MaxEpochs
    /\ epoch' = epoch + 1
    /\ document' = document + 1
    /\ dom' \in Pages
    /\ UNCHANGED <<loading, store, requestVars, listing, historyVars>>

(* handleNavigate: the navigation, its end, and then invalidateElementRefs.*)
NavigateRequest(c) ==
    /\ pc[c] = "idle" /\ ~loading
    /\ loading' = TRUE
    /\ Goto(c, "load")
    /\ UNCHANGED <<dom, epoch, document, store, snap, ref, entry, slot, listing, historyVars>>

NavigateLoaded(c) ==
    /\ pc[c] = "load" /\ epoch < MaxEpochs
    /\ epoch' = epoch + 1
    /\ document' = document + 1
    /\ dom' \in Pages
    /\ loading' = FALSE
    /\ Goto(c, "invalidate")
    /\ UNCHANGED <<store, snap, ref, entry, slot, listing, historyVars>>

InvalidateElementRefs(c) ==
    /\ pc[c] = "invalidate"
    /\ store' = Nothing
    /\ Done(c)
    /\ UNCHANGED <<pageVars, listing>>

Next ==
    \/ PageChanges \/ PageNavigates
    \/ \E c \in Callers :
           \/ ElementsRequest(c) \/ ElementsEval(c) \/ ElementsReply(c)
           \/ ActionRequest(c) \/ LookupRefInStore(c) \/ FreshEval(c) \/ FreshStore(c)
           \/ VerifyRefIdentity(c) \/ RetargetEval(c) \/ RetargetStore(c) \/ RetargetFails(c)
           \/ Act(c) \/ CandidatesEval(c) \/ CandidatesReply(c)
           \/ NavigateRequest(c) \/ NavigateLoaded(c) \/ InvalidateElementRefs(c)

Spec == Init /\ [][Next]_vars

-----------------------------------------------------------------------------

(* What the client meant, and what its action is about to hit.             *)
Meant(c) == listing[c].elems[ref[c]].node
Hits(c) == pc[c] = "act" /\ slot[c] \in DOMAIN dom
Quiet(c) == epoch = start[c].epoch

(* If the store still holds the client's listing when its ref is looked up *)
(* and the page then keeps still, the action hits an element with the      *)
(* identity the client was shown, or nothing, whatever the page did before *)
(* and whatever other handlers do to the store meanwhile.  The one         *)
(* exception is an eval that fails because a navigation is under way.      *)
RefKeepsIdentity ==
    \A c \in Callers :
        Hits(c) /\ Quiet(c) /\ ~failed[c] /\ start[c].store.elems = listing[c].elems
            => Ident[dom[slot[c]]] = Ident[Meant(c)]

(* While the page is unchanged since the listing was made, a ref hits the  *)
(* very element, also among twins, unless another handler has put back an  *)
(* enumeration of an older page (elements.go:33).                          *)
FromThisPage(c) == start[c].store.elems \in {<<>>, Elements(dom)}

RefStableWhileQuiet ==
    \A c \in Callers :
        Hits(c) /\ epoch = listing[c].epoch /\ ~failed[c] /\ FromThisPage(c)
            => dom[slot[c]] = Meant(c)

(* routes_interaction.go:24: the verification "prevents refs from silently *)
(* landing on unrelated elements when the DOM shifts between 'elements'    *)
(* and the action": in one document, for one client, on a page that keeps  *)
(* still during the action.                                                *)
NeverLandsElsewhere ==
    \A c \in Callers :
        Hits(c) /\ Quiet(c) /\ ~failed[c] /\ listing[c].document = document
            => Ident[dom[slot[c]]] = Ident[Meant(c)]

=============================================================================
