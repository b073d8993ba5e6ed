------------------------------ MODULE DomainRef ------------------------------
(***************************************************************************)
(* The per-page reference counter of a CDP domain (internal/daemon/        *)
(* domain_ref.go).  Goroutines acquire and release lists of pages; the     *)
(* domain of a page is enabled when its count leaves zero and disabled     *)
(* when it returns to zero.  The count changes under d.mu, but onEnable    *)
(* and onDisable run after the unlock, so the callbacks of two goroutines  *)
(* interleave freely: `pending' holds what each goroutine still has to     *)
(* call.                                                                   *)
(*                                                                         *)
(* A list of pages may name a page twice (networkCapturingPages can), so   *)
(* an argument is a multiplicity function Pages -> Nat.  The order of the  *)
(* list decides the order of the callbacks only; every order is a legal    *)
(* list, and here the callbacks of one call run in any order.              *)
(***************************************************************************)
EXTENDS Integers, FiniteSets

CONSTANTS
    Pages,    \* the pages of the browser (TargetIDs)
    Threads,  \* goroutines that call acquirePages and releasePages
    MaxRefs,  \* bound: no count of a page is driven above this
    MaxMult   \* bound: occurrences of one page in one argument list

ASSUME BoundsAssumption == MaxRefs \in Nat /\ MaxMult \in Nat
ASSUME ThreadsAssumption == IsFiniteSet(Threads)

VARIABLES
    refs,     \* d.refs; a page that is not in the Go map has count 0
    enabled,  \* the browser's side: is the domain on for the page?
    pending,  \* per goroutine: the callbacks of its current call still to run
    raced,    \* history: pages on which callbacks of two goroutines were due
              \* at the same time
    failed,   \* history: pages on which a CDP call of a callback failed
    made      \* history: per page, onEnable calls made minus onDisable calls

vars == <<refs, enabled, pending, raced, failed, made>>

(* An argument list, by how often it names each page. *)
PageLists == [Pages -> 0 .. MaxMult]

Idle == [kind |-> "none", pages |-> {}]

(* The callbacks one call leaves behind, to run after the unlock. *)
Callbacks == [kind : {"none", "enable", "disable"}, pages : SUBSET Pages]

TypeOK ==
    /\ refs \in [Pages -> Nat]
    /\ enabled \in [Pages -> BOOLEAN]
    /\ pending \in [Threads -> Callbacks]
    /\ raced \in SUBSET Pages
    /\ failed \in SUBSET Pages
    /\ made \in [Pages -> Int]

(* No goroutine has a callback on p still to run. *)
Quiet(p) == \A t \in Threads : p \notin pending[t].pages

(* activeForPage: what the rest of the daemon may ask of the counter. *)
ActiveForPage(p) == refs[p] > 0

Init ==
    /\ refs = [p \in Pages |-> 0]
    /\ enabled = [p \in Pages |-> FALSE]
    /\ pending = [t \in Threads |-> Idle]
    /\ raced = {}
    /\ failed = {}
    /\ made = [p \in Pages |-> 0]

(* The callbacks of a call by t are due: the pages another goroutine also  *)
(* has callbacks on have raced.                                            *)
Schedule(t, kind, pages) ==
    /\ pending' = [pending EXCEPT ![t] =
                      IF pages = {} THEN Idle
                                    ELSE [kind |-> kind, pages |-> pages]]
    /\ raced' = raced \cup {p \in pages : ~Quiet(p)}

(* Mutants: a callback for every page listed, whatever its count, on       *)
(* acquiring and on releasing; a failed CDP call that is tried again.      *)
AcquirePagesAnyCount(t, list) ==
    /\ pending[t] = Idle
    /\ refs' = [p \in Pages |-> refs[p] + list[p]]
    /\ Schedule(t, "enable", {p \in Pages : list[p] > 0})
    /\ UNCHANGED <<enabled, failed, made>>

ReleasePagesAnyCount(t, list) ==
    /\ pending[t] = Idle
    /\ refs' = [p \in Pages |-> IF list[p] >= refs[p] THEN 0 ELSE refs[p] - list[p]]
    /\ Schedule(t, "disable", {p \in Pages : refs[p] > 0 /\ list[p] > 0})
    /\ UNCHANGED <<enabled, failed, made>>

CallbackRetried(t, p) ==
    /\ p \in pending[t].pages
    /\ failed' = failed \cup {p}
    /\ UNCHANGED <<refs, enabled, pending, raced, made>>

(* acquirePages up to the unlock: every occurrence counts, and a page      *)
(* whose count was zero is to be enabled once.                             *)
AcquirePages(t, list) ==
    /\ pending[t] = Idle
    /\ refs' = [p \in Pages |-> refs[p] + list[p]]
    /\ Schedule(t, "enable", {p \in Pages : list[p] > 0 /\ refs[p] = 0})
    /\ UNCHANGED <<enabled, failed, made>>

(* releasePages up to the unlock: a release below zero is a no-op, and a   *)
(* page whose count reaches zero is to be disabled once.                   *)
ReleasePages(t, list) ==
    /\ pending[t] = Idle
    /\ refs' = [p \in Pages |->
                   IF list[p] >= refs[p] THEN 0 ELSE refs[p] - list[p]]
    /\ Schedule(t, "disable", {p \in Pages : refs[p] > 0 /\ list[p] >= refs[p]})
    /\ UNCHANGED <<enabled, failed, made>>

(* One callback of t returns.  Its CDP error is discarded by the caller.   *)
Callback(t, p) ==
    /\ p \in pending[t].pages
    /\ pending' = [pending EXCEPT ![t] =
                      IF pending[t].pages = {p} THEN Idle
                      ELSE [kind |-> pending[t].kind, pages |-> pending[t].pages \ {p}]]
    /\ \/ /\ enabled' = [enabled EXCEPT ![p] = (pending[t].kind = "enable")]
          /\ failed' = failed
       \/ /\ enabled' = enabled
          /\ failed' = failed \cup {p}
    /\ made' = [made EXCEPT ![p] =
                   IF pending[t].kind = "enable" THEN @ + 1 ELSE @ - 1]
    /\ UNCHANGED <<refs, raced>>

Next ==
    \E t \in Threads :
        \/ \E list \in PageLists :
               /\ \A p \in Pages : refs[p] + list[p] <= MaxRefs
               /\ AcquirePages(t, list)
        \/ \E list \in PageLists : ReleasePages(t, list)
        \/ \E p \in Pages : Callback(t, p)

Spec == Init /\ [][Next]_vars

(* A goroutine that owes a callback makes the call: rod's Call returns or  *)
(* fails, and nothing between the unlock and the loop can block.           *)
FairSpec == Spec /\ \A t \in Threads : WF_vars(\E p \in Pages : Callback(t, p))

-----------------------------------------------------------------------------

(* On a page whose callbacks never overlapped and never failed, the domain *)
(* is on exactly when the count is positive, as soon as the callbacks have *)
(* run: the reason the captures may take and drop pages independently.     *)
DomainFollowsCount ==
    \A p \in Pages :
        Quiet(p) /\ p \notin raced /\ p \notin failed
            => (enabled[p] <=> ActiveForPage(p))

(* However the goroutines interleave, each page's enables and disables,    *)
(* made or due, differ by one while its count is positive and not at all   *)
(* while it is zero: no transition is announced twice or dropped.          *)
Owing(kind, p) == {t \in Threads : pending[t].kind = kind /\ p \in pending[t].pages}

CallbacksBalance ==
    \A p \in Pages :
        made[p] + Cardinality(Owing("enable", p)) - Cardinality(Owing("disable", p))
            = IF ActiveForPage(p) THEN 1 ELSE 0

(* Every callback that is due is eventually made.                          *)
CallbacksRun ==
    \A t \in Threads, p \in Pages :
        p \in pending[t].pages ~> p \notin pending[t].pages

=============================================================================
