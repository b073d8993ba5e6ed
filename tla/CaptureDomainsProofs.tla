------------------------- MODULE CaptureDomainsProofs -------------------------
(* Proofs about CaptureDomains, for any pages, any finite set of handlers  *)
(* and any bounds.  First those of DomainRef, the counter it extends.      *)
EXTENDS CaptureDomains, FiniteSetTheorems, TLAPS

-----------------------------------------------------------------------------
(* The counter.                                                            *)

(* The steps keep the shape of the counter, for a list of any length: the  *)
(* bounds are not what keeps it.                                           *)
LEMMA AcquireTypes ==
  ASSUME TypeOK, NEW t \in Threads, NEW list \in [Pages -> Nat], AcquirePages(t, list)
  PROVE  TypeOK'
BY DEF TypeOK, Callbacks, AcquirePages, Schedule, Idle

LEMMA ReleaseTypes ==
  ASSUME TypeOK, NEW t \in Threads, NEW list \in [Pages -> Nat], ReleasePages(t, list)
  PROVE  TypeOK'
BY DEF TypeOK, Callbacks, ReleasePages, Schedule, Idle

LEMMA CallbackTypes ==
  ASSUME TypeOK, NEW t \in Threads, NEW p \in Pages, Callback(t, p)
  PROVE  TypeOK'
<1> USE DEF TypeOK, Callbacks
<1>1. enabled' \in [Pages -> BOOLEAN]
  <2>1. (pending[t].kind = "enable") \in BOOLEAN
    OBVIOUS
  <2>2. CASE enabled' = [enabled EXCEPT ![p] = (pending[t].kind = "enable")]
    BY <2>1, <2>2, Zenon
  <2>3. CASE enabled' = enabled
    BY <2>3
  <2>4. QED
    BY <2>2, <2>3 DEF Callback
<1>2. pending' \in [Threads -> [kind : {"none", "enable", "disable"}, pages : SUBSET Pages]]
  BY DEF Callback, Idle
<1>3. refs' = refs /\ raced' = raced /\ failed' \in SUBSET Pages /\ made' \in [Pages -> Int]
  BY DEF Callback
<1>4. QED
  BY <1>1, <1>2, <1>3

LEMMA ListsAreMultiplicities == PageLists \subseteq [Pages -> Nat]
BY BoundsAssumption DEF PageLists

(* The counter and the pending callbacks keep their shape.                 *)
THEOREM TypeCorrect == Spec => []TypeOK
<1>1. Init => TypeOK
  BY DEF Init, TypeOK, Callbacks, Idle
<1>2. TypeOK /\ [Next]_vars => TypeOK'
  <2> SUFFICES ASSUME TypeOK, [Next]_vars PROVE TypeOK'
    OBVIOUS
  <2>1. CASE UNCHANGED vars
    BY <2>1 DEF vars, TypeOK, Callbacks
  <2>2. QED
    BY <2>1, AcquireTypes, ReleaseTypes, CallbackTypes, ListsAreMultiplicities DEF Next
<1>3. QED
  BY <1>1, <1>2, PTL DEF Spec

-----------------------------------------------------------------------------

(* A goroutine without a call owes no callback.                            *)
IdleOwesNothing == \A t \in Threads : pending[t].kind = "none" => pending[t].pages = {}

(* While a page is undisturbed at most one goroutine owes it a callback,   *)
(* the count already stands where that callback will put the domain, and   *)
(* the domain still stands on the other side.                              *)
UndisturbedInv ==
    \A p \in Pages : p \notin raced /\ p \notin failed =>
        /\ \A t, u \in Threads :
               p \in pending[t].pages /\ p \in pending[u].pages => t = u
        /\ \A t \in Threads : p \in pending[t].pages =>
               /\ (pending[t].kind = "enable" <=> refs[p] > 0)
               /\ (enabled[p] <=> ~(refs[p] > 0))
        /\ Quiet(p) => (enabled[p] <=> refs[p] > 0)

IInv == TypeOK /\ IdleOwesNothing /\ UndisturbedInv

LEMMA InitIInv == Init => IInv
BY DEF Init, IInv, TypeOK, Callbacks, Idle, IdleOwesNothing, UndisturbedInv, Quiet

(* The unlocked half of a call: scheduling callbacks for the pages whose   *)
(* count crossed zero keeps the page accounted for, or marks it raced.     *)
LEMMA AcquireIInv ==
  ASSUME IInv, TypeOK', NEW t \in Threads, NEW list \in [Pages -> Nat],
         AcquirePages(t, list)
  PROVE  IInv'
<1> USE DEF IInv, TypeOK, Callbacks
<1>1. IdleOwesNothing'
  BY DEF AcquirePages, Schedule, Idle, IdleOwesNothing
<1>2. UndisturbedInv'
  <2> SUFFICES ASSUME NEW p \in Pages, p \notin raced', p \notin failed'
               PROVE
        /\ \A a, b \in Threads :
               p \in pending'[a].pages /\ p \in pending'[b].pages => a = b
        /\ \A a \in Threads : p \in pending'[a].pages =>
               /\ (pending'[a].kind = "enable" <=> refs'[p] > 0)
               /\ (enabled'[p] <=> ~(refs'[p] > 0))
        /\ Quiet(p)' => (enabled'[p] <=> refs'[p] > 0)
    BY DEF UndisturbedInv
  <2>1. p \notin raced /\ p \notin failed /\ enabled' = enabled /\ pending[t].pages = {}
    BY DEF AcquirePages, Schedule, Idle
  <2>2. refs'[p] = refs[p] + list[p] /\ list[p] \in Nat /\ refs[p] \in Nat
    BY DEF AcquirePages
  <2>3. \A a \in Threads : a # t => pending'[a] = pending[a]
    BY DEF AcquirePages, Schedule
  <2>4. CASE list[p] > 0 /\ refs[p] = 0
    <3>1. Quiet(p)
      BY <2>4 DEF AcquirePages, Schedule
    <3>2. p \in pending'[t].pages /\ pending'[t].kind = "enable"
      BY <2>4 DEF AcquirePages, Schedule
    <3>3. ~enabled[p]
      BY <2>1, <2>4, <3>1 DEF UndisturbedInv
    <3>4. QED
      BY <2>1, <2>2, <2>3, <2>4, <3>1, <3>2, <3>3 DEF Quiet
  <2>5. CASE ~(list[p] > 0 /\ refs[p] = 0)
    <3>1. p \notin pending'[t].pages
      BY <2>1, <2>5 DEF AcquirePages, Schedule, Idle
    <3>2. (refs'[p] > 0) <=> (refs[p] > 0)
      BY <2>2, <2>5
    <3>3. Quiet(p)' <=> Quiet(p)
      BY <2>1, <2>3, <3>1 DEF Quiet
    <3>4. QED
      BY <2>1, <2>3, <3>1, <3>2, <3>3 DEF UndisturbedInv
  <2>6. QED
    BY <2>4, <2>5
<1>3. QED
  BY <1>1, <1>2

LEMMA ReleaseIInv ==
  ASSUME IInv, TypeOK', NEW t \in Threads, NEW list \in [Pages -> Nat],
         ReleasePages(t, list)
  PROVE  IInv'
<1> USE DEF IInv, TypeOK, Callbacks
<1>1. IdleOwesNothing'
  BY DEF ReleasePages, Schedule, Idle, IdleOwesNothing
<1>2. UndisturbedInv'
  <2> SUFFICES ASSUME NEW p \in Pages, p \notin raced', p \notin failed'
               PROVE
        /\ \A a, b \in Threads :
               p \in pending'[a].pages /\ p \in pending'[b].pages => a = b
        /\ \A a \in Threads : p \in pending'[a].pages =>
               /\ (pending'[a].kind = "enable" <=> refs'[p] > 0)
               /\ (enabled'[p] <=> ~(refs'[p] > 0))
        /\ Quiet(p)' => (enabled'[p] <=> refs'[p] > 0)
    BY DEF UndisturbedInv
  <2>1. p \notin raced /\ p \notin failed /\ enabled' = enabled /\ pending[t].pages = {}
    BY DEF ReleasePages, Schedule, Idle
  <2>2. /\ refs'[p] = IF list[p] >= refs[p] THEN 0 ELSE refs[p] - list[p]
        /\ list[p] \in Nat /\ refs[p] \in Nat
    BY DEF ReleasePages
  <2>3. \A a \in Threads : a # t => pending'[a] = pending[a]
    BY DEF ReleasePages, Schedule
  <2>4. CASE refs[p] > 0 /\ list[p] >= refs[p]
    <3>1. Quiet(p)
      BY <2>4 DEF ReleasePages, Schedule
    <3>2. p \in pending'[t].pages /\ pending'[t].kind = "disable"
      BY <2>4 DEF ReleasePages, Schedule
    <3>3. enabled[p]
      BY <2>1, <2>4, <3>1 DEF UndisturbedInv
    <3>4. QED
      BY <2>1, <2>2, <2>3, <2>4, <3>1, <3>2, <3>3 DEF Quiet
  <2>5. CASE ~(refs[p] > 0 /\ list[p] >= refs[p])
    <3>1. p \notin pending'[t].pages
      BY <2>1, <2>5 DEF ReleasePages, Schedule, Idle
    <3>2. (refs'[p] > 0) <=> (refs[p] > 0)
      BY <2>2, <2>5
    <3>3. Quiet(p)' <=> Quiet(p)
      BY <2>1, <2>3, <3>1 DEF Quiet
    <3>4. QED
      BY <2>1, <2>3, <3>1, <3>2, <3>3 DEF UndisturbedInv
  <2>6. QED
    BY <2>4, <2>5
<1>3. QED
  BY <1>1, <1>2

(* A callback that succeeds moves the domain to the count's side; one that *)
(* fails takes the page out of the claim.                                  *)
LEMMA CallbackIInv ==
  ASSUME IInv, TypeOK', NEW t \in Threads, NEW q \in Pages, Callback(t, q)
  PROVE  IInv'
<1> USE DEF IInv, TypeOK, Callbacks
<1>1. IdleOwesNothing'
  BY DEF Callback, Idle, IdleOwesNothing
<1>2. UndisturbedInv'
  <2> SUFFICES ASSUME NEW p \in Pages, p \notin raced', p \notin failed'
               PROVE
        /\ \A a, b \in Threads :
               p \in pending'[a].pages /\ p \in pending'[b].pages => a = b
        /\ \A a \in Threads : p \in pending'[a].pages =>
               /\ (pending'[a].kind = "enable" <=> refs'[p] > 0)
               /\ (enabled'[p] <=> ~(refs'[p] > 0))
        /\ Quiet(p)' => (enabled'[p] <=> refs'[p] > 0)
    BY DEF UndisturbedInv
  <2>1. p \notin raced /\ p \notin failed /\ refs' = refs
    BY DEF Callback
  <2>2. \A a \in Threads : a # t => pending'[a] = pending[a]
    BY DEF Callback
  <2>3. pending'[t].pages = pending[t].pages \ {q}
    BY DEF Callback, Idle
  <2>4. pending'[t].pages # {} => pending'[t].kind = pending[t].kind
    BY DEF Callback, Idle
  <2>5. CASE p = q
    <3>1. enabled'[p] <=> pending[t].kind = "enable"
      BY <2>5 DEF Callback
    <3>2. pending[t].kind = "enable" <=> refs[p] > 0
      BY <2>1, <2>5 DEF Callback, UndisturbedInv
    <3>3. \A a \in Threads : p \notin pending'[a].pages
      BY <2>1, <2>2, <2>3, <2>5 DEF Callback, UndisturbedInv
    <3>4. QED
      BY <2>1, <3>1, <3>2, <3>3
  <2>6. CASE p # q
    <3>1. enabled'[p] = enabled[p]
      BY <2>6 DEF Callback
    <3>2. \A a \in Threads : p \in pending'[a].pages <=> p \in pending[a].pages
      BY <2>2, <2>3, <2>6
    <3>3. \A a \in Threads : p \in pending'[a].pages => pending'[a].kind = pending[a].kind
      BY <2>2, <2>4
    <3>4. Quiet(p)' <=> Quiet(p)
      BY <3>2 DEF Quiet
    <3>5. QED
      BY <2>1, <3>1, <3>2, <3>3, <3>4 DEF UndisturbedInv
  <2>7. QED
    BY <2>5, <2>6
<1>3. QED
  BY <1>1, <1>2

(* For any pages and goroutines: on a page whose callbacks never           *)
(* overlapped and never failed, the domain is on exactly when its count is *)
(* positive, once the callbacks have run (domain_ref.go).                  *)
THEOREM DomainFollowsCountHolds == Spec => []DomainFollowsCount
<1>1. IInv /\ TypeOK' /\ [Next]_vars => IInv'
  <2> SUFFICES ASSUME IInv, TypeOK', [Next]_vars PROVE IInv'
    OBVIOUS
  <2>1. CASE UNCHANGED vars
    BY <2>1 DEF vars, IInv, TypeOK, IdleOwesNothing, UndisturbedInv, Quiet
  <2>2. QED
    BY <2>1, AcquireIInv, ReleaseIInv, CallbackIInv, ListsAreMultiplicities DEF Next
<1>2. IInv => DomainFollowsCount
  BY DEF IInv, UndisturbedInv, DomainFollowsCount, ActiveForPage
<1>3. QED
  BY InitIInv, TypeCorrect, <1>1, <1>2, PTL DEF Spec

-----------------------------------------------------------------------------

LEMMA OwingFinite ==
  ASSUME NEW kind, NEW p
  PROVE  IsFiniteSet(Owing(kind, p)) /\ Cardinality(Owing(kind, p)) \in Nat
BY ThreadsAssumption, FS_Subset, FS_CardinalityType DEF Owing

(* What a call does to the goroutines owing p a callback: the caller joins *)
(* those owing the scheduled kind when p's count crosses zero.             *)
LEMMA ScheduleOwing ==
  ASSUME TypeOK, NEW t \in Threads, pending[t] = Idle,
         NEW kind \in {"enable", "disable"}, NEW pages \in SUBSET Pages,
         Schedule(t, kind, pages), NEW p \in Pages, NEW k \in {"enable", "disable"}
  PROVE  Cardinality(Owing(k, p)') =
            IF k = kind /\ p \in pages THEN Cardinality(Owing(k, p)) + 1
                                       ELSE Cardinality(Owing(k, p))
<1>1. t \notin Owing(k, p)
  BY DEF Owing, Idle
<1>2. CASE k = kind /\ p \in pages
  <2>1. Owing(k, p)' = Owing(k, p) \cup {t}
    BY <1>2 DEF Owing, Schedule, TypeOK, Idle
  <2>2. QED
    BY <1>1, <1>2, <2>1, OwingFinite, FS_AddElement
<1>3. CASE ~(k = kind /\ p \in pages)
  <2>1. Owing(k, p)' = Owing(k, p)
    BY <1>1, <1>3 DEF Owing, Schedule, TypeOK, Idle
  <2>2. QED
    BY <1>3, <2>1
<1>4. QED
  BY <1>2, <1>3

(* A callback that returns takes its goroutine out of those owing p.       *)
LEMMA CallbackOwing ==
  ASSUME TypeOK, IdleOwesNothing, NEW t \in Threads, NEW q \in Pages, Callback(t, q),
         NEW p \in Pages, NEW k \in {"enable", "disable"}
  PROVE  Cardinality(Owing(k, p)') =
            IF k = pending[t].kind /\ p = q THEN Cardinality(Owing(k, p)) - 1
                                            ELSE Cardinality(Owing(k, p))
<1>1. /\ \A a \in Threads : a # t => pending'[a] = pending[a]
      /\ pending'[t].pages = pending[t].pages \ {q}
      /\ pending'[t].pages # {} => pending'[t].kind = pending[t].kind
  BY DEF Callback, Idle, TypeOK, Callbacks
<1>2. CASE k = pending[t].kind /\ p = q
  <2>1. Owing(k, p)' = Owing(k, p) \ {t} /\ t \in Owing(k, p)
    BY <1>1, <1>2 DEF Owing, Callback, TypeOK, Callbacks
  <2>2. QED
    BY <1>2, <2>1, OwingFinite, FS_RemoveElement
<1>3. CASE ~(k = pending[t].kind /\ p = q)
  <2>1. Owing(k, p)' = Owing(k, p)
    BY <1>1, <1>3 DEF Owing, TypeOK, Callbacks
  <2>2. QED
    BY <1>3, <2>1
<1>4. QED
  BY <1>2, <1>3

(* For any pages and goroutines: however calls interleave, enables and     *)
(* disables of a page, made or due, differ by one while its count is       *)
(* positive and not at all while it is zero (domain_ref.go).               *)
THEOREM CallbacksBalanceHolds == Spec => []CallbacksBalance
<1>1. Init => IdleOwesNothing /\ CallbacksBalance
  <2> SUFFICES ASSUME Init PROVE IdleOwesNothing /\ CallbacksBalance
    OBVIOUS
  <2>1. \A k \in {"enable", "disable"}, p \in Pages : Owing(k, p) = {}
    BY DEF Init, Owing, Idle
  <2>2. IdleOwesNothing
    BY DEF Init, Idle, IdleOwesNothing
  <2>3. ASSUME NEW p \in Pages
        PROVE  /\ made[p] = 0 /\ refs[p] = 0
               /\ Cardinality(Owing("enable", p)) = 0 /\ Cardinality(Owing("disable", p)) = 0
    BY <2>1, FS_EmptySet DEF Init
  <2>4. QED
    BY <2>2, <2>3 DEF CallbacksBalance, ActiveForPage
<1>2. TypeOK /\ IdleOwesNothing /\ CallbacksBalance /\ [Next]_vars
         => IdleOwesNothing' /\ CallbacksBalance'
  <2> SUFFICES ASSUME TypeOK, IdleOwesNothing, CallbacksBalance, [Next]_vars
               PROVE  IdleOwesNothing' /\ CallbacksBalance'
    OBVIOUS
  <2> USE BoundsAssumption DEF TypeOK, Callbacks
  <2>1. ASSUME NEW t \in Threads, NEW list \in PageLists, AcquirePages(t, list)
        PROVE  IdleOwesNothing' /\ CallbacksBalance'
    <3> DEFINE crossing == {p \in Pages : list[p] > 0 /\ refs[p] = 0}
    <3>1. IdleOwesNothing'
      BY <2>1 DEF AcquirePages, Schedule, Idle, IdleOwesNothing
    <3>2. ASSUME NEW p \in Pages
          PROVE  made'[p] + Cardinality(Owing("enable", p)') - Cardinality(Owing("disable", p)')
                    = IF refs'[p] > 0 THEN 1 ELSE 0
      <4>1. /\ Cardinality(Owing("enable", p)') = IF p \in crossing
                    THEN Cardinality(Owing("enable", p)) + 1 ELSE Cardinality(Owing("enable", p))
            /\ Cardinality(Owing("disable", p)') = Cardinality(Owing("disable", p))
        <5>1. pending[t] = Idle /\ Schedule(t, "enable", crossing) /\ crossing \in SUBSET Pages
          BY <2>1 DEF AcquirePages
        <5> HIDE DEF crossing
        <5>2. QED
          BY <5>1, ScheduleOwing
      <4>2. made'[p] = made[p] /\ refs'[p] = refs[p] + list[p] /\ list[p] \in Nat
        BY <2>1 DEF AcquirePages, PageLists
      <4>3. /\ refs[p] \in Nat /\ made[p] \in Int
            /\ Cardinality(Owing("enable", p)) \in Nat /\ Cardinality(Owing("disable", p)) \in Nat
        BY OwingFinite
      <4>4. made[p] + Cardinality(Owing("enable", p)) - Cardinality(Owing("disable", p))
               = IF refs[p] > 0 THEN 1 ELSE 0
        BY DEF CallbacksBalance, ActiveForPage
      <4>5. QED
        BY <4>1, <4>2, <4>3, <4>4
    <3>3. QED
      BY <3>1, <3>2 DEF CallbacksBalance, ActiveForPage
  <2>2. ASSUME NEW t \in Threads, NEW list \in PageLists, ReleasePages(t, list)
        PROVE  IdleOwesNothing' /\ CallbacksBalance'
    <3> DEFINE crossing == {p \in Pages : refs[p] > 0 /\ list[p] >= refs[p]}
    <3>1. IdleOwesNothing'
      BY <2>2 DEF ReleasePages, Schedule, Idle, IdleOwesNothing
    <3>2. ASSUME NEW p \in Pages
          PROVE  made'[p] + Cardinality(Owing("enable", p)') - Cardinality(Owing("disable", p)')
                    = IF refs'[p] > 0 THEN 1 ELSE 0
      <4>1. /\ Cardinality(Owing("disable", p)') = IF p \in crossing
                    THEN Cardinality(Owing("disable", p)) + 1 ELSE Cardinality(Owing("disable", p))
            /\ Cardinality(Owing("enable", p)') = Cardinality(Owing("enable", p))
        <5>1. pending[t] = Idle /\ Schedule(t, "disable", crossing) /\ crossing \in SUBSET Pages
          BY <2>2 DEF ReleasePages
        <5> HIDE DEF crossing
        <5>2. QED
          BY <5>1, ScheduleOwing
      <4>2. /\ made'[p] = made[p] /\ list[p] \in Nat
            /\ refs'[p] = IF list[p] >= refs[p] THEN 0 ELSE refs[p] - list[p]
        BY <2>2 DEF ReleasePages, PageLists
      <4>3. /\ refs[p] \in Nat /\ made[p] \in Int
            /\ Cardinality(Owing("enable", p)) \in Nat /\ Cardinality(Owing("disable", p)) \in Nat
        BY OwingFinite
      <4>4. made[p] + Cardinality(Owing("enable", p)) - Cardinality(Owing("disable", p))
               = IF refs[p] > 0 THEN 1 ELSE 0
        BY DEF CallbacksBalance, ActiveForPage
      <4>5. QED
        BY <4>1, <4>2, <4>3, <4>4
    <3>3. QED
      BY <3>1, <3>2 DEF CallbacksBalance, ActiveForPage
  <2>3. ASSUME NEW t \in Threads, NEW q \in Pages, Callback(t, q)
        PROVE  IdleOwesNothing' /\ CallbacksBalance'
    <3>1. IdleOwesNothing'
      BY <2>3 DEF Callback, Idle, IdleOwesNothing
    <3>2. ASSUME NEW p \in Pages
          PROVE  made'[p] + Cardinality(Owing("enable", p)') - Cardinality(Owing("disable", p)')
                    = IF refs'[p] > 0 THEN 1 ELSE 0
      <4>1. /\ Cardinality(Owing("enable", p)') = IF "enable" = pending[t].kind /\ p = q
                    THEN Cardinality(Owing("enable", p)) - 1 ELSE Cardinality(Owing("enable", p))
            /\ Cardinality(Owing("disable", p)') = IF "disable" = pending[t].kind /\ p = q
                    THEN Cardinality(Owing("disable", p)) - 1 ELSE Cardinality(Owing("disable", p))
        BY <2>3, CallbackOwing
      <4>2. /\ refs'[p] = refs[p]
            /\ made'[p] = IF p # q THEN made[p]
                          ELSE IF pending[t].kind = "enable" THEN made[p] + 1 ELSE made[p] - 1
        BY <2>3 DEF Callback
      <4>3. pending[t].kind \in {"enable", "disable"}
        BY <2>3 DEF Callback, IdleOwesNothing
      <4>4. /\ made[p] \in Int
            /\ Cardinality(Owing("enable", p)) \in Nat /\ Cardinality(Owing("disable", p)) \in Nat
        BY OwingFinite
      <4>5. made[p] + Cardinality(Owing("enable", p)) - Cardinality(Owing("disable", p))
               = IF refs[p] > 0 THEN 1 ELSE 0
        BY DEF CallbacksBalance, ActiveForPage
      <4>6. QED
        BY <4>1, <4>2, <4>3, <4>4, <4>5
    <3>3. QED
      BY <3>1, <3>2 DEF CallbacksBalance, ActiveForPage
  <2>4. CASE UNCHANGED vars
    BY <2>4 DEF vars, IdleOwesNothing, CallbacksBalance, ActiveForPage, Owing
  <2>5. QED
    BY <2>1, <2>2, <2>3, <2>4 DEF Next
<1>3. QED
  BY <1>1, <1>2, TypeCorrect, PTL DEF Spec

-----------------------------------------------------------------------------
(* Who holds the references.                                               *)

Lists == [Pages -> Nat]
Locals == [pos : Nat, then : {"idle", "activate", "opened"}, old : SUBSET Pages]

(* The types of what is not the counter's.                                 *)
HandlersOK ==
    /\ pc \in [Threads -> Steps]
    /\ arg \in [Threads -> Lists]
    /\ local \in [Threads -> Locals]

RestOK ==
    /\ unopened \in SUBSET Pages /\ open \in SUBSET Pages
    /\ activePg \in Pages \cup {NoPage} /\ pageOrder \in Seq(Pages)
    /\ capturing \in BOOLEAN /\ allTabs \in BOOLEAN
    /\ capPages \in Lists
    /\ stray \in [Pages -> Int] /\ crossed \in SUBSET Pages

(* A handler about to write to the order has one page in hand.             *)
Writing == {"append", "remove"}
OneInHand == \A t \in Threads : pc[t] \in Writing => \E p \in Pages : arg[t] = Once({p})

(* Only a removal that crossed another write returns too much.             *)
NoneShort == \A p \in Pages \ crossed : stray[p] >= 0

CaptureInv == HandlersOK /\ RestOK /\ IInv /\ OneInHand /\ NoneShort /\ RefsAccounted

-----------------------------------------------------------------------------
(* The places of a page in the order.                                      *)

Count(s, p) == Cardinality(Positions(s, p))

LEMMA PositionsFinite ==
  ASSUME NEW s \in Seq(Pages), NEW p
  PROVE  IsFiniteSet(Positions(s, p)) /\ Count(s, p) \in Nat
<1>1. 1 \in Int /\ Len(s) \in Int
  OBVIOUS
<1>2. IsFiniteSet(1 .. Len(s))
  BY <1>1, FS_Interval
<1>3. Positions(s, p) \subseteq 1 .. Len(s)
  BY DEF Positions
<1>4. QED
  BY <1>2, <1>3, FS_Subset, FS_CardinalityType DEF Count

LEMMA EmptyCount == \A p : Count(<<>>, p) = 0
<1>1. \A p : Positions(<<>>, p) = {}
  BY DEF Positions
<1>2. QED
  BY <1>1, FS_EmptySet DEF Count

LEMMA AppendCount ==
  ASSUME NEW s \in Seq(Pages), NEW q \in Pages, NEW p \in Pages
  PROVE  Count(Append(s, q), p) = Count(s, p) + (IF p = q THEN 1 ELSE 0)
<1>1. IsFiniteSet(Positions(s, p)) /\ Count(s, p) \in Nat
  BY PositionsFinite
<1>2. Len(s) + 1 \notin Positions(s, p)
  BY DEF Positions
<1>3. CASE p = q
  <2>1. Positions(Append(s, q), p) = Positions(s, p) \cup {Len(s) + 1}
    BY <1>3 DEF Positions
  <2>2. QED
    BY <1>1, <1>2, <1>3, <2>1, FS_AddElement DEF Count
<1>4. CASE p # q
  <2>1. Positions(Append(s, q), p) = Positions(s, p)
    BY <1>4 DEF Positions
  <2>2. QED
    BY <1>1, <1>4, <2>1 DEF Count
<1>5. QED
  BY <1>3, <1>4

LEMMA WithoutIsOrder ==
  ASSUME NEW s \in Seq(Pages), NEW i \in 1 .. Len(s)
  PROVE  Without(s, i) \in Seq(Pages) /\ Len(Without(s, i)) = Len(s) - 1
<1>1. Len(s) \in Nat /\ Len(s) - 1 \in Nat
  OBVIOUS
<1>2. ASSUME NEW k \in 1 .. Len(s) - 1
      PROVE  (IF k < i THEN s[k] ELSE s[k + 1]) \in Pages
  BY <1>1
<1>3. QED
  BY <1>1, <1>2 DEF Without

(* The elements after the removed one move down: each of the other places  *)
(* of p is one place after it.                                             *)
LEMMA WithoutCount ==
  ASSUME NEW s \in Seq(Pages), NEW i \in 1 .. Len(s), NEW p \in Pages
  PROVE  Count(Without(s, i), p) = Count(s, p) - (IF s[i] = p THEN 1 ELSE 0)
<1> DEFINE w == Without(s, i)
           A == Positions(w, p)
           B == Positions(s, p) \ {i}
           up == [k \in A |-> IF k < i THEN k ELSE k + 1]
<1>1. w \in Seq(Pages) /\ Len(w) = Len(s) - 1 /\ Len(s) \in Nat /\ i \in Nat
  BY WithoutIsOrder
<1>2. DOMAIN w = 1 .. Len(s) - 1 /\ \A k \in 1 .. Len(s) - 1 : w[k] = IF k < i THEN s[k] ELSE s[k + 1]
  BY DEF Without
<1>3. A \subseteq 1 .. Len(s) - 1 /\ \A k \in 1 .. Len(s) - 1 : k \in A <=> w[k] = p
  BY <1>2 DEF Positions
<1>4. B \subseteq 1 .. Len(s) /\ \A k \in 1 .. Len(s) : k \in B <=> k # i /\ s[k] = p
  BY DEF Positions
<1> HIDE DEF w, A, B
<1>5. up \in [A -> B]
  <2> SUFFICES ASSUME NEW k \in A PROVE (IF k < i THEN k ELSE k + 1) \in B
    OBVIOUS
  <2>1. k \in 1 .. Len(s) - 1 /\ w[k] = p
    BY <1>3
  <2>2. CASE k < i
    BY <1>1, <1>2, <1>4, <2>1, <2>2
  <2>3. CASE ~(k < i)
    <3>1. k + 1 \in 1 .. Len(s) /\ k + 1 # i /\ s[k + 1] = p
      BY <1>1, <1>2, <2>1, <2>3
    <3>2. QED
      BY <1>4, <2>3, <3>1
  <2>4. QED
    BY <2>2, <2>3
<1>6. \A k, l \in A : up[k] = up[l] => k = l
  BY <1>1, <1>3
<1>7. \A b \in B : \E k \in A : up[k] = b
  <2> SUFFICES ASSUME NEW b \in B PROVE \E k \in A : up[k] = b
    OBVIOUS
  <2>1. b \in 1 .. Len(s) /\ b # i /\ s[b] = p
    BY <1>4
  <2>2. CASE b < i
    <3>1. b \in 1 .. Len(s) - 1 /\ w[b] = p
      BY <1>1, <1>2, <2>1, <2>2
    <3>2. b \in A
      BY <1>3, <3>1
    <3>3. QED
      BY <2>2, <3>2
  <2>3. CASE ~(b < i)
    <3>1. b - 1 \in 1 .. Len(s) - 1 /\ ~(b - 1 < i) /\ b - 1 + 1 = b
      BY <1>1, <2>1, <2>3
    <3>2. w[b - 1] = p
      BY <1>2, <2>1, <3>1
    <3>3. b - 1 \in A
      BY <1>3, <3>1, <3>2
    <3>4. QED
      BY <3>1, <3>3
  <2>4. QED
    BY <2>2, <2>3
<1>8. up \in Bijection(A, B)
  <2> HIDE DEF up
  <2>1. up \in Injection(A, B)
    BY <1>5, <1>6, Zenon DEF Injection, IsInjective
  <2>2. up \in Surjection(A, B)
    BY <1>5, <1>7, Zenon DEF Surjection
  <2>3. QED
    BY <2>1, <2>2, Zenon DEF Bijection
<1>9. IsFiniteSet(A) /\ Cardinality(A) \in Nat
  BY <1>1, PositionsFinite DEF A, Count
<1>10. Cardinality(B) = Cardinality(A)
  <2>1. ExistsBijection(A, B)
    BY <1>8, Zenon DEF ExistsBijection
  <2>2. QED
    BY <1>9, <2>1, FS_Bijection
<1>11. IsFiniteSet(Positions(s, p)) /\ Count(s, p) \in Nat
  BY PositionsFinite
<1>12. Cardinality(B) = Count(s, p) - (IF i \in Positions(s, p) THEN 1 ELSE 0)
  <2>1. CASE i \in Positions(s, p)
    BY <1>11, <2>1, FS_RemoveElement DEF B, Count
  <2>2. CASE i \notin Positions(s, p)
    <3>1. B = Positions(s, p)
      BY <2>2 DEF B
    <3>2. QED
      BY <1>11, <2>2, <3>1 DEF Count
  <2>3. QED
    BY <2>1, <2>2
<1>13. (i \in Positions(s, p)) <=> (s[i] = p)
  BY DEF Positions
<1>14. QED
  BY <1>10, <1>11, <1>12, <1>13 DEF A, w, Count

LEMMA MovedDownIsOrder ==
  ASSUME NEW s \in Seq(Pages), NEW i \in 1 .. Len(s)
  PROVE  MovedDown(s, i) \in Seq(Pages)
<1>1. ASSUME NEW k \in 1 .. Len(s)
      PROVE  (IF k < i \/ k = Len(s) THEN s[k] ELSE s[k + 1]) \in Pages
  OBVIOUS
<1>2. QED
  BY <1>1 DEF MovedDown

-----------------------------------------------------------------------------
(* The places that handlers at steps sc, with lists ar, have still to take *)
(* or give back: the one of handler t, and those of the others.            *)

PlacesOf(sc, ar, steps, p) ==
    UNION {{u} \X (1 .. ar[u][p]) : u \in {v \in Threads : sc[v] \in steps}}
Own(sc, ar, t, steps, p) == IF sc[t] \in steps THEN {t} \X (1 .. ar[t][p]) ELSE {}
Others(sc, ar, t, steps, p) ==
    UNION {{u} \X (1 .. ar[u][p]) : u \in {v \in Threads \ {t} : sc[v] \in steps}}

LEMMA UpTo ==
  ASSUME NEW n \in Nat
  PROVE  IsFiniteSet(1 .. n) /\ Cardinality(1 .. n) = n
<1>1. 1 \in Int /\ n \in Int
  OBVIOUS
<1>2. IsFiniteSet(1 .. n) /\ Cardinality(1 .. n) = IF 1 > n THEN 0 ELSE n - 1 + 1
  BY <1>1, FS_Interval
<1>3. QED
  BY <1>2

LEMMA OwnCounted ==
  ASSUME NEW sc, NEW ar \in [Threads -> Lists], NEW t \in Threads, NEW steps, NEW p \in Pages
  PROVE  /\ IsFiniteSet(Own(sc, ar, t, steps, p))
         /\ Cardinality(Own(sc, ar, t, steps, p)) = IF sc[t] \in steps THEN ar[t][p] ELSE 0
<1>1. ar[t][p] \in Nat
  BY DEF Lists
<1>2. IsFiniteSet(1 .. ar[t][p]) /\ Cardinality(1 .. ar[t][p]) = ar[t][p]
  BY <1>1, UpTo
<1>3. IsFiniteSet({t}) /\ Cardinality({t}) = 1
  BY FS_Singleton
<1>4. /\ IsFiniteSet({t} \X (1 .. ar[t][p]))
      /\ Cardinality({t} \X (1 .. ar[t][p])) = Cardinality({t}) * Cardinality(1 .. ar[t][p])
  BY <1>2, <1>3, FS_Product
<1>5. CASE sc[t] \in steps
  BY <1>1, <1>2, <1>3, <1>4, <1>5 DEF Own
<1>6. CASE sc[t] \notin steps
  BY <1>6, FS_EmptySet DEF Own
<1>7. QED
  BY <1>5, <1>6

LEMMA OthersFinite ==
  ASSUME NEW sc, NEW ar \in [Threads -> Lists], NEW t \in Threads, NEW steps, NEW p \in Pages
  PROVE  IsFiniteSet(Others(sc, ar, t, steps, p))
<1> DEFINE T == {v \in Threads \ {t} : sc[v] \in steps}
           f == [u \in T |-> {u} \X (1 .. ar[u][p])]
           I == {{u} \X (1 .. ar[u][p]) : u \in T}
<1>1. IsFiniteSet(T)
  BY ThreadsAssumption, FS_Subset
<1>2. f \in Surjection(T, I)
  BY DEF Surjection
<1>3. IsFiniteSet(I)
  BY <1>1, <1>2, FS_Surjection
<1>4. ASSUME NEW s \in I PROVE IsFiniteSet(s)
  <2>1. PICK u \in T : s = {u} \X (1 .. ar[u][p])
    BY <1>4
  <2>2. IsFiniteSet({u}) /\ IsFiniteSet(1 .. ar[u][p])
    <3>1. ar[u][p] \in Nat
      BY DEF Lists
    <3>2. QED
      BY <3>1, FS_Singleton, UpTo
  <2>3. QED
    BY <2>1, <2>2, FS_Product
<1>5. QED
  BY <1>3, <1>4, FS_UNION DEF Others

LEMMA PlacesSplit ==
  ASSUME NEW sc, NEW ar \in [Threads -> Lists], NEW t \in Threads, NEW steps, NEW p \in Pages
  PROVE  /\ Cardinality(PlacesOf(sc, ar, steps, p))
                = Cardinality(Others(sc, ar, t, steps, p))
                     + (IF sc[t] \in steps THEN ar[t][p] ELSE 0)
         /\ Cardinality(Others(sc, ar, t, steps, p)) \in Nat
<1> DEFINE O == Others(sc, ar, t, steps, p)
           W == Own(sc, ar, t, steps, p)
<1>1. PlacesOf(sc, ar, steps, p) = O \cup W
  BY DEF PlacesOf, Others, Own
<1>2. O \cap W = {}
  BY DEF Others, Own
<1>3. IsFiniteSet(O) /\ Cardinality(O) \in Nat
  BY OthersFinite, FS_CardinalityType
<1>4. IsFiniteSet(W) /\ Cardinality(W) = IF sc[t] \in steps THEN ar[t][p] ELSE 0
  BY OwnCounted
<1>5. ar[t][p] \in Nat
  BY DEF Lists
<1> HIDE DEF O, W
<1>6. Cardinality(O \cup W) = Cardinality(O) + Cardinality(W) - Cardinality(O \cap W)
  BY <1>3, <1>4, FS_Union
<1>7. Cardinality(O \cap W) = 0
  BY <1>2, FS_EmptySet
<1>8. QED
  BY <1>1, <1>3, <1>4, <1>5, <1>6, <1>7 DEF O

(* A handler that goes on to another step, with another list, owes what it *)
(* owes there instead of what it owed here.                                *)
Due(t, steps, p) == IF pc[t] \in steps THEN arg[t][p] ELSE 0

LEMMA GotoOwes ==
  ASSUME HandlersOK, NEW t \in Threads, NEW s \in Steps, NEW pages \in Lists,
         Goto(t, s, pages), NEW steps, NEW p \in Pages
  PROVE  /\ Owed(steps, p) \in Nat /\ Owed(steps, p)' \in Nat
         /\ Owed(steps, p)' = Owed(steps, p) - Due(t, steps, p)
                                 + (IF s \in steps THEN pages[p] ELSE 0)
<1>0. arg \in [Threads -> Lists] /\ arg' \in [Threads -> Lists] /\ pc \in [Threads -> Steps]
  BY DEF HandlersOK, Goto
<1>1. /\ pc'[t] = s /\ arg'[t] = pages
      /\ \A u \in Threads \ {t} : pc'[u] = pc[u] /\ arg'[u] = arg[u]
  BY <1>0 DEF Goto
<1>2. Others(pc', arg', t, steps, p) = Others(pc, arg, t, steps, p)
  BY <1>1 DEF Others
<1>3. /\ Cardinality(PlacesOf(pc, arg, steps, p))
             = Cardinality(Others(pc, arg, t, steps, p)) + Due(t, steps, p)
      /\ Cardinality(Others(pc, arg, t, steps, p)) \in Nat
  BY <1>0, PlacesSplit DEF Due
<1>4. Cardinality(PlacesOf(pc', arg', steps, p))
         = Cardinality(Others(pc', arg', t, steps, p))
              + (IF pc'[t] \in steps THEN arg'[t][p] ELSE 0)
  BY <1>0, PlacesSplit
<1>5. Due(t, steps, p) \in Nat /\ pages[p] \in Nat
  BY <1>0 DEF Due, Lists
<1>6. /\ Owed(steps, p) = Cardinality(PlacesOf(pc, arg, steps, p))
      /\ Owed(steps, p)' = Cardinality(PlacesOf(pc', arg', steps, p))
  BY DEF Owed, Places, PlacesOf
<1>7. QED
  BY <1>1, <1>2, <1>3, <1>4, <1>5, <1>6

LEMMA SameOwed ==
  ASSUME UNCHANGED <<pc, arg>>, NEW steps, NEW p
  PROVE  Owed(steps, p)' = Owed(steps, p)
BY DEF Owed, Places

-----------------------------------------------------------------------------
(* The shapes that the steps keep.                                         *)

LEMMA OnceIsList == \A S : Once(S) \in Lists /\ NoPages \in Lists
BY DEF Once, NoPages, Lists

LEMMA PlusIsList ==
  ASSUME NEW f \in Lists, NEW g \in Lists
  PROVE  Plus(f, g) \in Lists /\ \A p \in Pages : Plus(f, g)[p] = f[p] + g[p]
BY DEF Plus, Lists

LEMMA PlusStray ==
  ASSUME NEW f \in [Pages -> Int], NEW g \in Lists
  PROVE  Plus(f, g) \in [Pages -> Int] /\ \A p \in Pages : Plus(f, g)[p] = f[p] + g[p]
BY DEF Plus, Lists

LEMMA GotoTypes ==
  ASSUME HandlersOK, NEW t \in Threads, NEW s \in Steps, NEW pages \in Lists, Goto(t, s, pages)
  PROVE  /\ pc' \in [Threads -> Steps] /\ arg' \in [Threads -> Lists]
         /\ pc'[t] = s /\ arg'[t] = pages
         /\ \A u \in Threads \ {t} : pc'[u] = pc[u] /\ arg'[u] = arg[u]
BY DEF HandlersOK, Goto

LEMMA StepsOfHandlers ==
  /\ "idle" \in Steps /\ "lookup" \in Steps /\ "lookupActive" \in Steps /\ "append" \in Steps
  /\ "acquireThenApply" \in Steps /\ "apply" \in Steps /\ "remove" \in Steps
  /\ "releaseThenClose" \in Steps /\ "close" \in Steps /\ "closeOthers" \in Steps
  /\ "reset" \in Steps /\ "activate" \in Steps /\ "nextTab" \in Steps /\ "opened" \in Steps
  /\ "setAll" \in Steps /\ "setTab" \in Steps /\ "acquire" \in Steps /\ "release" \in Steps
BY DEF Steps

(* A handler that is done, or returns from trackPage.                      *)
LEMMA FinishGoes ==
  ASSUME HandlersOK, NEW t \in Threads, Finish(t)
  PROVE  Goto(t, "idle", NoPages) /\ local' \in [Threads -> Locals]
BY DEF Finish, HandlersOK, Locals, NoLocals

LEMMA ReturnGoes ==
  ASSUME HandlersOK, NEW t \in Threads, Return(t)
  PROVE  /\ local' \in [Threads -> Locals]
         /\ \E s \in {"idle", "activate", "opened"}, pages \in Lists : Goto(t, s, pages)
<1>1. /\ local \in [Threads -> Locals] /\ arg[t] \in Lists
      /\ local[t].then \in {"idle", "activate", "opened"}
  BY DEF HandlersOK, Locals
<1>2. CASE Finish(t)
  BY <1>2, FinishGoes, OnceIsList
<1>3. CASE Goto(t, local[t].then, arg[t]) /\ UNCHANGED local
  BY <1>1, <1>3
<1>4. QED
  BY <1>2, <1>3 DEF Return

(* What none of them touches.                                              *)
LEMMA CounterStays == UNCHANGED vars /\ IInv => IInv' /\ TypeOK' /\ TypeOK
BY DEF vars, IInv, TypeOK, Callbacks, IdleOwesNothing, UndisturbedInv, Quiet

-----------------------------------------------------------------------------
(* The account.                                                            *)

Acquiring == {"acquire", "acquireThenApply"}
Releasing == {"release", "releaseThenClose"}
Claimed(p) == Count(pageOrder, p) + capPages[p] + stray[p]
At0(b, n) == IF b THEN n ELSE 0

LEMMA Account ==
  RefsAccounted <=> \A p \in Pages :
      refs[p] + Owed(Acquiring, p) - Owed(Releasing, p) = Claimed(p)
BY DEF RefsAccounted, ToAcquire, ToRelease, Acquiring, Releasing, Claimed, Count

LEMMA ClaimedIsInt ==
  ASSUME RestOK, NEW p \in Pages
  PROVE  /\ Claimed(p) \in Int /\ capPages[p] \in Nat /\ stray[p] \in Int
         /\ Count(pageOrder, p) \in Nat
BY PositionsFinite DEF RestOK, Lists, Claimed

(* What a step of one handler changes of a page's account: its count, what *)
(* the handler owes at its steps s with the list given, and its claims.    *)
Balanced(t, s, pages, p) ==
    (refs'[p] - refs[p])
        + (At0(s \in Acquiring, pages[p]) - Due(t, Acquiring, p))
        - (At0(s \in Releasing, pages[p]) - Due(t, Releasing, p))
    = Claimed(p)' - Claimed(p)

(* A step of one handler keeps the invariant when the account balances.    *)
LEMMA MovesKeep ==
  ASSUME CaptureInv, IInv', RestOK', local' \in [Threads -> Locals],
         NEW t \in Threads, NEW s \in Steps, NEW pages \in Lists, Goto(t, s, pages),
         s \in Writing => \E p \in Pages : pages = Once({p}),
         NoneShort', \A p \in Pages : Balanced(t, s, pages, p)
  PROVE  CaptureInv'
<1>1. HandlersOK /\ RestOK /\ OneInHand /\ RefsAccounted /\ TypeOK /\ TypeOK'
  BY DEF CaptureInv, IInv
<1>2. /\ HandlersOK' /\ pc'[t] = s /\ arg'[t] = pages
      /\ \A u \in Threads \ {t} : pc'[u] = pc[u] /\ arg'[u] = arg[u]
  BY <1>1, GotoTypes DEF HandlersOK
<1>3. OneInHand'
  BY <1>1, <1>2 DEF OneInHand
<1>4. RefsAccounted'
  <2> SUFFICES ASSUME NEW p \in Pages
               PROVE  refs'[p] + Owed(Acquiring, p)' - Owed(Releasing, p)' = Claimed(p)'
    BY DEF RefsAccounted, ToAcquire, ToRelease, Acquiring, Releasing, Claimed, Count
  <2>1. refs[p] + Owed(Acquiring, p) - Owed(Releasing, p) = Claimed(p)
    BY <1>1, Account
  <2>2. /\ Owed(Acquiring, p) \in Nat /\ Owed(Acquiring, p)' \in Nat
        /\ Owed(Acquiring, p)' = Owed(Acquiring, p) - Due(t, Acquiring, p)
                                    + At0(s \in Acquiring, pages[p])
    BY <1>1, GotoOwes DEF At0
  <2>3. /\ Owed(Releasing, p) \in Nat /\ Owed(Releasing, p)' \in Nat
        /\ Owed(Releasing, p)' = Owed(Releasing, p) - Due(t, Releasing, p)
                                    + At0(s \in Releasing, pages[p])
    BY <1>1, GotoOwes DEF At0
  <2>4. Claimed(p) \in Int
    BY <1>1, ClaimedIsInt
  <2>5. Claimed(p)' \in Int
    <3>1. pageOrder' \in Seq(Pages) /\ capPages' \in Lists /\ stray' \in [Pages -> Int]
      BY DEF RestOK
    <3>2. Count(pageOrder', p) \in Nat
      BY <3>1, PositionsFinite
    <3>3. Claimed(p)' = Count(pageOrder', p) + capPages'[p] + stray'[p]
      BY DEF Claimed, Count
    <3>4. QED
      BY <3>1, <3>2, <3>3 DEF Lists
  <2>6. /\ refs[p] \in Int /\ refs'[p] \in Int
        /\ At0(s \in Acquiring, pages[p]) \in Int /\ At0(s \in Releasing, pages[p]) \in Int
        /\ Due(t, Acquiring, p) \in Int /\ Due(t, Releasing, p) \in Int
    BY <1>1 DEF TypeOK, HandlersOK, Lists, At0, Due
  <2>7. (refs'[p] - refs[p])
            + (At0(s \in Acquiring, pages[p]) - Due(t, Acquiring, p))
            - (At0(s \in Releasing, pages[p]) - Due(t, Releasing, p))
        = Claimed(p)' - Claimed(p)
    BY DEF Balanced
  <2>8. QED
    BY <2>1, <2>2, <2>3, <2>4, <2>5, <2>6, <2>7
<1>5. QED
  BY <1>2, <1>3, <1>4 DEF CaptureInv

(* So does one between steps that owe nothing, and claims what it did.     *)
LEMMA PlainKeeps ==
  ASSUME CaptureInv, RestOK', local' \in [Threads -> Locals],
         NEW t \in Threads, NEW s \in Steps, NEW pages \in Lists, Goto(t, s, pages),
         s \in Writing => \E p \in Pages : pages = Once({p}),
         UNCHANGED vars, UNCHANGED <<pageOrder, capPages, stray, crossed>>,
         pc[t] \notin Acquiring \cup Releasing, s \notin Acquiring \cup Releasing
  PROVE  CaptureInv'
<1>1. RestOK /\ IInv /\ NoneShort /\ TypeOK
  BY DEF CaptureInv, IInv
<1>2. IInv' /\ UNCHANGED refs
  BY <1>1, CounterStays DEF vars
<1>3. NoneShort'
  BY <1>1 DEF NoneShort
<1>4. ASSUME NEW p \in Pages PROVE Balanced(t, s, pages, p)
  <2>1. /\ Due(t, Acquiring, p) = 0 /\ Due(t, Releasing, p) = 0
        /\ At0(s \in Acquiring, pages[p]) = 0 /\ At0(s \in Releasing, pages[p]) = 0
    BY DEF Due, At0
  <2>2. Claimed(p) \in Int /\ refs[p] \in Int /\ refs'[p] = refs[p]
    BY <1>1, <1>2, ClaimedIsInt DEF TypeOK
  <2>3. Claimed(p)' = Claimed(p)
    BY DEF Claimed, Count
  <2>4. QED
    BY <2>1, <2>2, <2>3 DEF Balanced
<1>5. QED
  BY <1>2, <1>3, <1>4, MovesKeep

(* And one that leaves the handlers where they are.                        *)
LEMMA StillKeeps ==
  ASSUME CaptureInv, RestOK', UNCHANGED <<pc, arg, local>>, IInv', UNCHANGED refs,
         UNCHANGED <<pageOrder, capPages, stray, crossed>>
  PROVE  CaptureInv'
<1>1. HandlersOK' /\ OneInHand' /\ NoneShort'
  BY DEF CaptureInv, HandlersOK, OneInHand, NoneShort
<1>2. RefsAccounted'
  BY SameOwed DEF CaptureInv, RefsAccounted, ToAcquire, ToRelease
<1>3. QED
  BY <1>1, <1>2 DEF CaptureInv

-----------------------------------------------------------------------------
(* The steps of the tab handlers.                                          *)

LEMMA TabNewKeeps ==
  ASSUME CaptureInv, NEW t \in Threads, NEW foreground \in BOOLEAN, TabNew(t, foreground)
  PROVE  CaptureInv'
<1>1. PICK p \in unopened :
         /\ unopened' = unopened \ {p} /\ open' = open \cup {p}
         /\ activePg' = IF foreground THEN p ELSE activePg
         /\ Goto(t, IF foreground THEN "lookupActive" ELSE "lookup", Once({p}))
  BY DEF TabNew, OpenPage
<1>2. PICK s \in {"lookup", "lookupActive"} : Goto(t, s, Once({p}))
  BY <1>1
<1>3. /\ UNCHANGED vars /\ UNCHANGED <<pageOrder, capturing, allTabs, capPages, stray, crossed>>
      /\ UNCHANGED local /\ pc[t] = "idle" /\ HandlersOK /\ RestOK
  BY DEF TabNew, At, captureVars, CaptureInv
<1>4. RestOK'
  BY <1>1, <1>3 DEF RestOK
<1>5. /\ local' \in [Threads -> Locals] /\ s \in Steps /\ Once({p}) \in Lists
      /\ s \notin Writing /\ s \notin Acquiring \cup Releasing
      /\ pc[t] \notin Acquiring \cup Releasing
  BY <1>3, StepsOfHandlers, OnceIsList DEF HandlersOK, Writing, Acquiring, Releasing
<1>6. QED
  BY <1>2, <1>3, <1>4, <1>5, PlainKeeps

LEMMA NavigateKeeps ==
  ASSUME CaptureInv, NEW t \in Threads, Navigate(t)
  PROVE  CaptureInv'
<1>1. PICK p \in unopened :
         /\ unopened' = unopened \ {p} /\ open' = open \cup {p} /\ activePg' = p
         /\ Goto(t, "lookup", Once({p}))
  BY DEF Navigate, OpenPage
<1>2. /\ UNCHANGED vars /\ UNCHANGED <<pageOrder, capturing, allTabs, capPages, stray, crossed>>
      /\ UNCHANGED local /\ pc[t] = "idle" /\ HandlersOK /\ RestOK
  BY DEF Navigate, At, captureVars, CaptureInv
<1>3. RestOK'
  BY <1>1, <1>2 DEF RestOK
<1>4. /\ local' \in [Threads -> Locals] /\ "lookup" \in Steps /\ Once({p}) \in Lists
      /\ "lookup" \notin Writing /\ "lookup" \notin Acquiring \cup Releasing
      /\ pc[t] \notin Acquiring \cup Releasing
  BY <1>2, StepsOfHandlers, OnceIsList DEF HandlersOK, Writing, Acquiring, Releasing
<1>5. QED
  BY <1>1, <1>2, <1>3, <1>4, PlainKeeps

LEMMA PopupKeeps ==
  ASSUME CaptureInv, Popup
  PROVE  CaptureInv'
<1>1. /\ UNCHANGED <<activePg, pageOrder, capturing, allTabs, capPages, pc, arg, local, stray, crossed>>
      /\ UNCHANGED vars /\ unopened' \in SUBSET Pages /\ open' \in SUBSET Pages
      /\ RestOK /\ IInv
  BY DEF Popup, OpenPage, captureVars, CaptureInv, RestOK
<1>2. RestOK' /\ IInv' /\ UNCHANGED refs
  BY <1>1, CounterStays DEF RestOK, vars
<1>3. QED
  BY <1>1, <1>2, StillKeeps

LEMMA TabSwitchKeeps ==
  ASSUME CaptureInv, NEW t \in Threads, TabSwitch(t)
  PROVE  CaptureInv'
<1>1. /\ UNCHANGED <<unopened, open, pageOrder, capturing, allTabs, capPages, pc, arg, local, stray, crossed>>
      /\ UNCHANGED vars /\ activePg' \in Pages /\ RestOK /\ IInv
  BY DEF TabSwitch, captureVars, CaptureInv, RestOK
<1>2. RestOK' /\ IInv' /\ UNCHANGED refs
  BY <1>1, CounterStays DEF RestOK, vars
<1>3. QED
  BY <1>1, <1>2, StillKeeps

LEMMA TrackLookupKeeps ==
  ASSUME CaptureInv, NEW t \in Threads, TrackLookup(t)
  PROVE  CaptureInv'
<1>1. PICK p \in Pages \cup {NoPage} :
         IF p = NoPage THEN Finish(t)
         ELSE IF Positions(pageOrder, p) # {} THEN Return(t)
         ELSE Goto(t, "append", Once({p})) /\ UNCHANGED local
  BY DEF TrackLookup, CaptureInv, RestOK
<1>2. /\ UNCHANGED vars
      /\ UNCHANGED <<unopened, open, activePg, pageOrder, capturing, allTabs, capPages, stray, crossed>>
      /\ pc[t] \notin Acquiring \cup Releasing /\ HandlersOK /\ RestOK
  BY DEF TrackLookup, At, tabVars, captureVars, CaptureInv, Acquiring, Releasing
<1>3. RestOK'
  BY <1>2 DEF RestOK
<1>4. \E s \in {"idle", "activate", "opened", "append"}, pages \in Lists :
         /\ Goto(t, s, pages) /\ local' \in [Threads -> Locals]
         /\ s = "append" => \E q \in Pages : pages = Once({q})
  <2>1. CASE Finish(t)
    BY <1>2, <2>1, FinishGoes, OnceIsList
  <2>2. CASE Return(t)
    BY <1>2, <2>2, ReturnGoes
  <2>3. CASE p \in Pages /\ Goto(t, "append", Once({p})) /\ UNCHANGED local
    BY <1>2, <2>3, OnceIsList DEF HandlersOK
  <2>4. QED
    BY <1>1, <2>1, <2>2, <2>3
<1>5. PICK s \in {"idle", "activate", "opened", "append"}, pages \in Lists :
         /\ Goto(t, s, pages) /\ local' \in [Threads -> Locals]
         /\ s = "append" => \E q \in Pages : pages = Once({q})
  BY <1>4
<1>6. /\ s \in Steps /\ s \notin Acquiring \cup Releasing
      /\ s \in Writing => \E q \in Pages : pages = Once({q})
  BY <1>5, StepsOfHandlers DEF Writing, Acquiring, Releasing
<1>7. QED
  BY <1>2, <1>3, <1>5, <1>6, PlainKeeps

(* The baseline that the new place claims is acquired in the next step; if *)
(* the place is lost the claim stays with the strays.                      *)
LEMMA TrackAppendKeeps ==
  ASSUME CaptureInv, NEW t \in Threads, TrackAppend(t)
  PROVE  CaptureInv'
<1>1. /\ UNCHANGED vars
      /\ UNCHANGED <<unopened, open, activePg, capturing, allTabs, capPages, local, crossed>>
      /\ pc[t] = "append" /\ Goto(t, "acquireThenApply", arg[t])
      /\ HandlersOK /\ RestOK /\ IInv /\ OneInHand /\ NoneShort
  BY DEF TrackAppend, At, captureVars, CaptureInv
<1>2. PICK p \in Pages :
         /\ arg[t][p] = 1
         /\ pageOrder' \in Appended(pageOrder, p, Raced(t))
         /\ stray' = IF pageOrder' = pageOrder THEN Plus(stray, Once({p})) ELSE stray
  BY DEF TrackAppend
<1>3. arg[t] = Once({p}) /\ arg[t] \in Lists /\ stray \in [Pages -> Int]
      /\ pageOrder \in Seq(Pages)
  BY <1>1, <1>2 DEF OneInHand, Writing, Once, HandlersOK, RestOK
<1>4. pageOrder' = Append(pageOrder, p) \/ pageOrder' = pageOrder
  BY <1>2 DEF Appended
<1>5. pageOrder' = Append(pageOrder, p) => pageOrder' # pageOrder
  <2>1. Len(Append(pageOrder, p)) = Len(pageOrder) + 1 /\ Len(pageOrder) \in Nat
    BY <1>3
  <2>2. ASSUME Append(pageOrder, p) = pageOrder PROVE FALSE
    <3>1. Len(Append(pageOrder, p)) = Len(pageOrder)
      BY <2>2, Zenon
    <3>2. QED
      BY <2>1, <3>1
  <2>3. Append(pageOrder, p) # pageOrder
    BY <2>2
  <2>4. QED
    BY <2>3
<1>6. /\ Plus(stray, Once({p})) \in [Pages -> Int]
      /\ \A q \in Pages : Plus(stray, Once({p}))[q] = stray[q] + IF q = p THEN 1 ELSE 0
  <2>1. Once({p}) \in Lists /\ \A q \in Pages : Once({p})[q] = IF q = p THEN 1 ELSE 0
    BY OnceIsList DEF Once
  <2> DEFINE one == Once({p})
  <2> HIDE DEF one
  <2>2. /\ Plus(stray, one) \in [Pages -> Int]
        /\ \A q \in Pages : Plus(stray, one)[q] = stray[q] + one[q]
    <3>1. one \in Lists
      BY <2>1 DEF one
    <3>2. QED
      BY <1>3, <3>1, PlusStray
  <2>3. \A q \in Pages : one[q] = IF q = p THEN 1 ELSE 0
    BY <2>1 DEF one
  <2>4. \A q \in Pages : Plus(stray, one)[q] = stray[q] + IF q = p THEN 1 ELSE 0
    BY <2>2, <2>3
  <2>5. QED
    BY <2>2, <2>4, Zenon DEF one
<1>7. ASSUME NEW q \in Pages
      PROVE  /\ Claimed(q)' = Claimed(q) + (IF q = p THEN 1 ELSE 0)
             /\ stray[q] \in Int /\ stray'[q] \in Int /\ stray'[q] >= stray[q]
  <2>1. Claimed(q)' = Count(pageOrder', q) + capPages[q] + stray'[q]
    BY <1>1 DEF Claimed, Count
  <2>2. /\ capPages[q] \in Nat /\ stray[q] \in Int /\ Count(pageOrder, q) \in Nat
        /\ Claimed(q) = Count(pageOrder, q) + capPages[q] + stray[q]
    BY <1>1, ClaimedIsInt DEF Claimed
  <2>3. CASE pageOrder' = Append(pageOrder, p)
    <3>1. Count(pageOrder', q) = Count(pageOrder, q) + (IF q = p THEN 1 ELSE 0)
      BY <1>3, <2>3, AppendCount
    <3>2. stray' = stray
      BY <1>2, <1>5, <2>3
    <3>3. QED
      BY <2>1, <2>2, <3>1, <3>2
  <2>4. CASE pageOrder' = pageOrder
    BY <1>2, <1>6, <2>1, <2>2, <2>4
  <2>5. QED
    BY <1>4, <2>3, <2>4
<1>8. RestOK'
  <2>1. pageOrder' \in Seq(Pages)
    BY <1>3, <1>4
  <2>2. stray' \in [Pages -> Int]
    BY <1>2, <1>3, <1>6
  <2>3. QED
    BY <1>1, <2>1, <2>2 DEF RestOK
<1>9. NoneShort'
  BY <1>1, <1>7 DEF NoneShort
<1>10. IInv' /\ TypeOK
  BY <1>1, CounterStays
<1>11. ASSUME NEW q \in Pages PROVE Balanced(t, "acquireThenApply", arg[t], q)
  <2>1. /\ Due(t, Acquiring, q) = 0 /\ Due(t, Releasing, q) = 0
        /\ At0("acquireThenApply" \in Acquiring, arg[t][q]) = arg[t][q]
        /\ At0("acquireThenApply" \in Releasing, arg[t][q]) = 0
    BY <1>1 DEF Due, At0, Acquiring, Releasing
  <2>2. arg[t][q] = IF q = p THEN 1 ELSE 0
    BY <1>3 DEF Once
  <2>3. refs'[q] = refs[q] /\ refs[q] \in Int /\ Claimed(q) \in Int
    BY <1>1, <1>10, ClaimedIsInt DEF vars, TypeOK
  <2>4. QED
    BY <1>7, <2>1, <2>2, <2>3 DEF Balanced
<1>12. local' \in [Threads -> Locals] /\ "acquireThenApply" \notin Writing
  BY <1>1 DEF HandlersOK, Writing
<1>13. QED
  BY <1>1, <1>3, <1>8, <1>9, <1>10, <1>11, <1>12, MovesKeep, StepsOfHandlers

(* The page joins the session and the reference it needs comes next.       *)
LEMMA ApplyKeeps ==
  ASSUME CaptureInv, NEW t \in Threads, ApplyDomainsToNewPage(t)
  PROVE  CaptureInv'
<1>1. /\ UNCHANGED <<unopened, open, activePg, pageOrder, capturing, allTabs, stray, crossed>>
      /\ UNCHANGED vars
      /\ pc[t] = "apply" /\ HandlersOK /\ RestOK /\ IInv /\ NoneShort
  BY DEF ApplyDomainsToNewPage, At, tabVars, CaptureInv
<1>2. arg[t] \in Lists /\ capPages \in Lists
  BY <1>1 DEF HandlersOK, RestOK
<1>3. IInv' /\ TypeOK' /\ TypeOK /\ NoneShort'
  BY <1>1, CounterStays DEF NoneShort
<1>4. CASE capPages' = Plus(capPages, arg[t]) /\ Goto(t, "acquire", arg[t]) /\ UNCHANGED local
  <2>1. capPages' \in Lists /\ \A q \in Pages : capPages'[q] = capPages[q] + arg[t][q]
    BY <1>2, <1>4, PlusIsList
  <2>2. RestOK' /\ local' \in [Threads -> Locals] /\ "acquire" \notin Writing
    BY <1>1, <1>4, <2>1 DEF RestOK, HandlersOK, Writing
  <2>3. ASSUME NEW q \in Pages PROVE Balanced(t, "acquire", arg[t], q)
    <3>1. /\ Due(t, Acquiring, q) = 0 /\ Due(t, Releasing, q) = 0
          /\ At0("acquire" \in Acquiring, arg[t][q]) = arg[t][q]
          /\ At0("acquire" \in Releasing, arg[t][q]) = 0
      BY <1>1 DEF Due, At0, Acquiring, Releasing
    <3>2. /\ refs'[q] = refs[q] /\ refs[q] \in Int /\ arg[t][q] \in Int
          /\ capPages[q] \in Int /\ stray[q] \in Int /\ Count(pageOrder, q) \in Int
      BY <1>1, <1>2, <1>3, ClaimedIsInt DEF vars, TypeOK, Lists
    <3>3. Claimed(q)' = Claimed(q) + arg[t][q] /\ Claimed(q) \in Int
      BY <1>1, <2>1, <3>2 DEF Claimed, Count
    <3>4. QED
      BY <3>1, <3>2, <3>3 DEF Balanced
  <2>4. QED
    BY <1>2, <1>3, <1>4, <2>2, <2>3, MovesKeep, StepsOfHandlers
<1>5. CASE capPages' = capPages /\ Return(t)
  <2>1. PICK s \in {"idle", "activate", "opened"}, pages \in Lists : Goto(t, s, pages)
    BY <1>1, <1>5, ReturnGoes
  <2>2. local' \in [Threads -> Locals] /\ RestOK'
    BY <1>1, <1>5, ReturnGoes DEF RestOK
  <2>3. /\ s \in Steps /\ s \notin Writing /\ s \notin Acquiring \cup Releasing
        /\ pc[t] \notin Acquiring \cup Releasing
    BY <1>1, StepsOfHandlers DEF Writing, Acquiring, Releasing
  <2>4. QED
    BY <1>1, <1>5, <2>1, <2>2, <2>3, PlainKeeps
<1>6. QED
  BY <1>4, <1>5 DEF ApplyDomainsToNewPage

LEMMA TabCloseKeeps ==
  ASSUME CaptureInv, NEW t \in Threads, TabClose(t)
  PROVE  CaptureInv'
<1>1. /\ UNCHANGED vars
      /\ UNCHANGED <<unopened, open, activePg, pageOrder, capturing, allTabs, capPages, stray, crossed>>
      /\ pc[t] = "idle" /\ HandlersOK /\ RestOK
  BY DEF TabClose, At, tabVars, captureVars, CaptureInv
<1>2. PICK p \in Pages :
         \/ Goto(t, "close", Once({p})) /\ UNCHANGED local
         \/ \E i \in First(pageOrder, p) :
                /\ Goto(t, "remove", Once({p}))
                /\ local' = [local EXCEPT ![t].pos = i]
  BY <1>1 DEF TabClose, RestOK
<1>3. First(pageOrder, p) \subseteq Nat
  <2>1. pageOrder \in Seq(Pages)
    BY <1>1 DEF RestOK
  <2>2. QED
    BY <2>1 DEF First, Positions
<1>4. \E s \in {"close", "remove"} : Goto(t, s, Once({p})) /\ local' \in [Threads -> Locals]
  BY <1>1, <1>2, <1>3 DEF HandlersOK, Locals
<1>5. PICK s \in {"close", "remove"} : Goto(t, s, Once({p})) /\ local' \in [Threads -> Locals]
  BY <1>4
<1>6. /\ s \in Steps /\ s \notin Acquiring \cup Releasing /\ Once({p}) \in Lists
      /\ pc[t] \notin Acquiring \cup Releasing /\ RestOK'
  BY <1>1, StepsOfHandlers, OnceIsList DEF Acquiring, Releasing, RestOK
<1>7. QED
  BY <1>1, <1>5, <1>6, PlainKeeps

(* What is removed is claimed no more, and one reference is given back.    *)
(* When the page's own entry was removed, and nothing raced it, the two    *)
(* agree and no reference is lost or missing.                              *)
LEMMA RemovedIsOrder ==
  ASSUME NEW s \in Seq(Pages), NEW i \in 1 .. Len(s), NEW b, NEW r \in Removed(s, i, b)
  PROVE  r \in Seq(Pages)
BY WithoutIsOrder, MovedDownIsOrder DEF Removed

LEMMA UntrackRemoveKeeps ==
  ASSUME CaptureInv, NEW t \in Threads, UntrackRemove(t)
  PROVE  CaptureInv'
<1> DEFINE i == local[t].pos
<1>1. /\ UNCHANGED vars
      /\ UNCHANGED <<unopened, open, activePg, capturing, allTabs, capPages>>
      /\ pc[t] = "remove" /\ HandlersOK /\ RestOK /\ IInv /\ OneInHand /\ NoneShort
  BY DEF UntrackRemove, At, captureVars, CaptureInv
<1>2. CASE Finish(t) /\ UNCHANGED <<pageOrder, stray, crossed>>
  <2>1. Goto(t, "idle", NoPages) /\ local' \in [Threads -> Locals]
    BY <1>1, <1>2, FinishGoes
  <2>2. RestOK'
    BY <1>1, <1>2 DEF RestOK
  <2>3. /\ "idle" \notin Writing /\ "idle" \notin Acquiring \cup Releasing
        /\ pc[t] \notin Acquiring \cup Releasing
    BY <1>1 DEF Writing, Acquiring, Releasing
  <2>4. QED
    BY <1>1, <1>2, <2>1, <2>2, <2>3, PlainKeeps, StepsOfHandlers, OnceIsList
<1>3. CASE i \in DOMAIN pageOrder
  <2>1. PICK p \in Pages :
           /\ arg[t][p] = 1
           /\ pageOrder' \in Removed(pageOrder, i, Raced(t))
           /\ stray' = [q \in Pages |->
                           stray[q] + Cardinality(Positions(pageOrder, q))
                                    - Cardinality(Positions(pageOrder', q)) - arg[t][q]]
           /\ crossed' = IF pageOrder[i] = p /\ ~Raced(t) THEN crossed
                         ELSE crossed \cup {q \in Pages : stray'[q] < stray[q]}
           /\ Goto(t, "releaseThenClose", arg[t])
           /\ local' = [local EXCEPT ![t].pos = 0]
    BY <1>3 DEF UntrackRemove
  <2>2. /\ arg[t] = Once({p}) /\ arg[t] \in Lists /\ pageOrder \in Seq(Pages)
        /\ stray \in [Pages -> Int] /\ crossed \in SUBSET Pages
    BY <1>1, <2>1 DEF OneInHand, Writing, Once, HandlersOK, RestOK
  <2>3. i \in 1 .. Len(pageOrder)
    BY <1>3, <2>2
  <2>4. pageOrder' \in Seq(Pages)
    BY <2>1, <2>2, <2>3, RemovedIsOrder
  <2>5. ASSUME NEW q \in Pages
        PROVE  /\ stray'[q] = stray[q] + Count(pageOrder, q) - Count(pageOrder', q) - arg[t][q]
               /\ stray[q] \in Int /\ Count(pageOrder, q) \in Nat /\ Count(pageOrder', q) \in Nat
               /\ arg[t][q] \in Nat /\ stray'[q] \in Int
    <3>1. stray[q] \in Int /\ Count(pageOrder, q) \in Nat /\ Count(pageOrder', q) \in Nat
          /\ arg[t][q] \in Nat
      BY <2>2, <2>4, PositionsFinite DEF Lists
    <3>2. stray'[q] = stray[q] + Count(pageOrder, q) - Count(pageOrder', q) - arg[t][q]
      BY <2>1 DEF Count
    <3>3. QED
      BY <3>1, <3>2
  <2>6. RestOK'
    <3>1. stray' \in [Pages -> Int]
      BY <2>1, <2>5 DEF Count
    <3>2. crossed' \in SUBSET Pages
      BY <2>1, <2>2
    <3>3. QED
      BY <1>1, <2>4, <3>1, <3>2 DEF RestOK
  <2>7. NoneShort'
    <3> SUFFICES ASSUME NEW q \in Pages, q \notin crossed' PROVE stray'[q] >= 0
      BY DEF NoneShort
    <3>1. q \notin crossed /\ stray[q] >= 0
      BY <1>1, <2>1 DEF NoneShort
    <3>2. CASE pageOrder[i] = p /\ ~Raced(t)
      <4>1. pageOrder' = Without(pageOrder, i)
        BY <2>1, <3>2 DEF Removed
      <4>2. Count(pageOrder', q) = Count(pageOrder, q) - (IF p = q THEN 1 ELSE 0)
        BY <2>2, <2>3, <3>2, <4>1, WithoutCount
      <4>3. arg[t][q] = IF p = q THEN 1 ELSE 0
        BY <2>2 DEF Once
      <4>4. QED
        BY <2>5, <3>1, <4>2, <4>3
    <3>3. CASE ~(pageOrder[i] = p /\ ~Raced(t))
      <4>1. ~(stray'[q] < stray[q])
        BY <2>1, <3>3
      <4>2. QED
        BY <2>5, <3>1, <4>1
    <3>4. QED
      BY <3>2, <3>3
  <2>8. IInv' /\ TypeOK
    BY <1>1, CounterStays
  <2>9. ASSUME NEW q \in Pages PROVE Balanced(t, "releaseThenClose", arg[t], q)
    <3>1. /\ Due(t, Acquiring, q) = 0 /\ Due(t, Releasing, q) = 0
          /\ At0("releaseThenClose" \in Acquiring, arg[t][q]) = 0
          /\ At0("releaseThenClose" \in Releasing, arg[t][q]) = arg[t][q]
      BY <1>1 DEF Due, At0, Acquiring, Releasing
    <3>2. refs'[q] = refs[q] /\ refs[q] \in Int /\ capPages[q] \in Nat
      BY <1>1, <2>8, ClaimedIsInt DEF vars, TypeOK
    <3>3. /\ Claimed(q) = Count(pageOrder, q) + capPages[q] + stray[q]
          /\ Claimed(q)' = Count(pageOrder', q) + capPages[q] + stray'[q]
      BY <1>1 DEF Claimed, Count
    <3>4. Claimed(q)' - Claimed(q) = 0 - arg[t][q]
      BY <2>5, <3>2, <3>3
    <3>5. QED
      BY <2>5, <3>1, <3>2, <3>4 DEF Balanced
  <2>10. local' \in [Threads -> Locals] /\ "releaseThenClose" \notin Writing
    BY <1>1, <2>1 DEF HandlersOK, Locals, Writing
  <2>11. QED
    BY <2>1, <2>2, <2>6, <2>7, <2>8, <2>9, <2>10, MovesKeep, StepsOfHandlers
<1>4. QED
  BY <1>2, <1>3 DEF UntrackRemove

LEMMA ClosePageKeeps ==
  ASSUME CaptureInv, NEW t \in Threads, ClosePage(t)
  PROVE  CaptureInv'
<1>1. /\ pc[t] = "close" /\ Finish(t) /\ HandlersOK /\ RestOK
      /\ open' \subseteq open /\ activePg' \in {NoPage, activePg}
      /\ UNCHANGED vars
      /\ UNCHANGED <<unopened, pageOrder, capturing, allTabs, capPages, stray, crossed>>
  BY DEF ClosePage, At, captureVars, CaptureInv
<1>2. Goto(t, "idle", NoPages) /\ local' \in [Threads -> Locals] /\ RestOK'
  BY <1>1, FinishGoes DEF RestOK
<1>3. /\ "idle" \notin Writing /\ "idle" \notin Acquiring \cup Releasing
      /\ pc[t] \notin Acquiring \cup Releasing
  BY <1>1 DEF Writing, Acquiring, Releasing
<1>4. QED
  BY <1>1, <1>2, <1>3, PlainKeeps, StepsOfHandlers, OnceIsList

-----------------------------------------------------------------------------
(* The steps of the sessions.                                              *)

(* What the reset of the order drops from the account stays with the       *)
(* strays.                                                                 *)
LEMMA ResetKeeps ==
  ASSUME CaptureInv, NEW t \in Threads, ResetOrder(t),
         NEW s \in Steps, NEW pages \in Lists, Goto(t, s, pages), local' \in [Threads -> Locals],
         UNCHANGED vars, UNCHANGED <<unopened, open, activePg, capturing, allTabs, capPages, crossed>>,
         pc[t] \notin Acquiring \cup Releasing, s \notin Acquiring \cup Releasing \cup Writing
  PROVE  CaptureInv'
<1>1. RestOK /\ IInv /\ NoneShort /\ pageOrder \in Seq(Pages) /\ stray \in [Pages -> Int]
  BY DEF CaptureInv, RestOK
<1>2. CASE UNCHANGED <<pageOrder, stray>>
  <2>1. RestOK'
    BY <1>1, <1>2 DEF RestOK
  <2>2. QED
    BY <1>2, <2>1, PlainKeeps
<1>3. CASE pageOrder' = <<>> /\ stray' = Plus(stray, Forgotten)
  <2>1. Forgotten \in Lists /\ \A q \in Pages : Forgotten[q] = Count(pageOrder, q)
    BY <1>1, PositionsFinite DEF Forgotten, Lists, Count
  <2>2. stray' \in [Pages -> Int] /\ \A q \in Pages : stray'[q] = stray[q] + Count(pageOrder, q)
    BY <1>1, <1>3, <2>1, PlusStray
  <2>3. RestOK'
    BY <1>1, <1>3, <2>2 DEF RestOK
  <2>4. ASSUME NEW q \in Pages
        PROVE  /\ Claimed(q) \in Int /\ capPages[q] \in Nat /\ stray[q] \in Int
               /\ Count(pageOrder, q) \in Nat
    BY <1>1, ClaimedIsInt
  <2>5. NoneShort'
    BY <1>1, <2>2, <2>4 DEF NoneShort
  <2>6. IInv' /\ TypeOK
    BY <1>1, CounterStays
  <2>7. ASSUME NEW q \in Pages PROVE Balanced(t, s, pages, q)
    <3>1. /\ Due(t, Acquiring, q) = 0 /\ Due(t, Releasing, q) = 0
          /\ At0(s \in Acquiring, pages[q]) = 0 /\ At0(s \in Releasing, pages[q]) = 0
      BY DEF Due, At0
    <3>2. Claimed(q)' = Claimed(q)
      <4>1. Claimed(q)' = 0 + capPages[q] + stray'[q]
        BY <1>3, EmptyCount DEF Claimed, Count
      <4>2. Claimed(q) = Count(pageOrder, q) + capPages[q] + stray[q]
        BY DEF Claimed
      <4>3. QED
        BY <2>2, <2>4, <4>1, <4>2
    <3>3. refs'[q] = refs[q] /\ refs[q] \in Int
      BY <2>6 DEF vars, TypeOK
    <3>4. QED
      BY <2>4, <3>1, <3>2, <3>3 DEF Balanced
  <2>8. QED
    BY <2>3, <2>5, <2>6, <2>7, MovesKeep
<1>4. QED
  BY <1>2, <1>3 DEF ResetOrder

LEMMA SessionNewKeeps ==
  ASSUME CaptureInv, NEW t \in Threads, SessionNew(t)
  PROVE  CaptureInv'
<1>1. /\ pc[t] = "idle" /\ UNCHANGED vars
      /\ UNCHANGED <<pageOrder, capturing, allTabs, capPages, stray, crossed>>
      /\ HandlersOK /\ RestOK
  BY DEF SessionNew, At, captureVars, CaptureInv
<1>2. PICK pages \in Lists : Goto(t, "closeOthers", pages) /\ local' \in [Threads -> Locals]
  BY <1>1, OnceIsList DEF SessionNew, HandlersOK, RestOK, Locals
<1>3. unopened' \in SUBSET Pages /\ open' \in SUBSET Pages /\ activePg' \in Pages \cup {NoPage}
  BY <1>1 DEF SessionNew, OpenPage, RestOK
<1>4. RestOK'
  BY <1>1, <1>3 DEF RestOK
<1>5. /\ "closeOthers" \notin Writing /\ "closeOthers" \notin Acquiring \cup Releasing
      /\ pc[t] \notin Acquiring \cup Releasing
  BY <1>1 DEF Writing, Acquiring, Releasing
<1>6. QED
  BY <1>1, <1>2, <1>4, <1>5, PlainKeeps, StepsOfHandlers

LEMMA SessionNewCloseKeeps ==
  ASSUME CaptureInv, NEW t \in Threads, SessionNewClose(t)
  PROVE  CaptureInv'
<1>1. /\ pc[t] = "closeOthers" /\ UNCHANGED vars
      /\ UNCHANGED <<pageOrder, capturing, allTabs, capPages, stray, crossed>>
      /\ HandlersOK /\ RestOK
  BY DEF SessionNewClose, At, captureVars, CaptureInv
<1>2. PICK pages \in Lists : Goto(t, "reset", pages) /\ local' \in [Threads -> Locals]
  BY <1>1, OnceIsList DEF SessionNewClose, HandlersOK, RestOK, Locals
<1>3. unopened' \in SUBSET Pages /\ open' \in SUBSET Pages /\ activePg' \in Pages \cup {NoPage}
  BY <1>1 DEF SessionNewClose, OpenPage, RestOK
<1>4. RestOK'
  BY <1>1, <1>3 DEF RestOK
<1>5. /\ "reset" \notin Writing /\ "reset" \notin Acquiring \cup Releasing
      /\ pc[t] \notin Acquiring \cup Releasing
  BY <1>1 DEF Writing, Acquiring, Releasing
<1>6. QED
  BY <1>1, <1>2, <1>4, <1>5, PlainKeeps, StepsOfHandlers

LEMMA SessionNewResetKeeps ==
  ASSUME CaptureInv, NEW t \in Threads, SessionNewReset(t)
  PROVE  CaptureInv'
<1>1. /\ pc[t] = "reset" /\ UNCHANGED vars /\ ResetOrder(t)
      /\ UNCHANGED <<unopened, open, activePg, capturing, allTabs, capPages, crossed>>
      /\ HandlersOK /\ RestOK
  BY DEF SessionNewReset, At, captureVars, CaptureInv
<1>2. PICK pages \in Lists : Goto(t, "lookup", pages) /\ local' \in [Threads -> Locals]
  BY <1>1, OnceIsList DEF SessionNewReset, HandlersOK, RestOK, Locals
<1>3. /\ "lookup" \notin Acquiring \cup Releasing \cup Writing
      /\ pc[t] \notin Acquiring \cup Releasing
  BY <1>1 DEF Writing, Acquiring, Releasing
<1>4. QED
  BY <1>1, <1>2, <1>3, ResetKeeps, StepsOfHandlers

LEMMA SessionNewActiveKeeps ==
  ASSUME CaptureInv, NEW t \in Threads, SessionNewActive(t)
  PROVE  CaptureInv'
<1>1. /\ pc[t] = "activate" /\ UNCHANGED vars
      /\ UNCHANGED <<pageOrder, capturing, allTabs, capPages, stray, crossed>>
      /\ HandlersOK /\ RestOK
  BY DEF SessionNewActive, At, captureVars, CaptureInv
<1>2. PICK pages \in Lists : Goto(t, "idle", pages) /\ local' \in [Threads -> Locals]
  BY <1>1, FinishGoes, OnceIsList DEF SessionNewActive
<1>3. unopened' \in SUBSET Pages /\ open' \in SUBSET Pages /\ activePg' \in Pages \cup {NoPage}
  BY <1>1 DEF SessionNewActive, OpenPage, RestOK
<1>4. RestOK'
  BY <1>1, <1>3 DEF RestOK
<1>5. /\ "idle" \notin Writing /\ "idle" \notin Acquiring \cup Releasing
      /\ pc[t] \notin Acquiring \cup Releasing
  BY <1>1 DEF Writing, Acquiring, Releasing
<1>6. QED
  BY <1>1, <1>2, <1>4, <1>5, PlainKeeps, StepsOfHandlers

LEMMA ResumeStartKeeps ==
  ASSUME CaptureInv, NEW t \in Threads, ResumeStart(t)
  PROVE  CaptureInv'
<1>1. /\ pc[t] = "idle" /\ UNCHANGED vars /\ ResetOrder(t)
      /\ UNCHANGED <<unopened, open, activePg, capturing, allTabs, capPages, crossed>>
      /\ HandlersOK /\ RestOK
  BY DEF ResumeStart, At, captureVars, CaptureInv
<1>2. PICK pages \in Lists : Goto(t, "nextTab", pages) /\ local' \in [Threads -> Locals]
  BY <1>1, OnceIsList DEF ResumeStart, HandlersOK, RestOK, Locals
<1>3. /\ "nextTab" \notin Acquiring \cup Releasing \cup Writing
      /\ pc[t] \notin Acquiring \cup Releasing
  BY <1>1 DEF Writing, Acquiring, Releasing
<1>4. QED
  BY <1>1, <1>2, <1>3, ResetKeeps, StepsOfHandlers

LEMMA ResumeOpenKeeps ==
  ASSUME CaptureInv, NEW t \in Threads, ResumeOpen(t)
  PROVE  CaptureInv'
<1>1. /\ pc[t] = "nextTab" /\ UNCHANGED vars
      /\ UNCHANGED <<pageOrder, capturing, allTabs, capPages, stray, crossed>>
      /\ HandlersOK /\ RestOK
  BY DEF ResumeOpen, At, captureVars, CaptureInv
<1>2. PICK pages \in Lists : Goto(t, "lookup", pages) /\ local' \in [Threads -> Locals]
  BY <1>1, OnceIsList DEF ResumeOpen, HandlersOK, RestOK, Locals
<1>3. unopened' \in SUBSET Pages /\ open' \in SUBSET Pages /\ activePg' \in Pages \cup {NoPage}
  BY <1>1 DEF ResumeOpen, OpenPage, RestOK
<1>4. RestOK'
  BY <1>1, <1>3 DEF RestOK
<1>5. /\ "lookup" \notin Writing /\ "lookup" \notin Acquiring \cup Releasing
      /\ pc[t] \notin Acquiring \cup Releasing
  BY <1>1 DEF Writing, Acquiring, Releasing
<1>6. QED
  BY <1>1, <1>2, <1>4, <1>5, PlainKeeps, StepsOfHandlers

LEMMA ResumeOpenedKeeps ==
  ASSUME CaptureInv, NEW t \in Threads, ResumeOpened(t)
  PROVE  CaptureInv'
<1>1. /\ pc[t] = "opened" /\ UNCHANGED vars
      /\ UNCHANGED <<pageOrder, capturing, allTabs, capPages, stray, crossed>>
      /\ HandlersOK /\ RestOK
  BY DEF ResumeOpened, At, captureVars, CaptureInv
<1>2. PICK pages \in Lists : Goto(t, "nextTab", pages) /\ local' \in [Threads -> Locals]
  BY <1>1, OnceIsList DEF ResumeOpened, HandlersOK, RestOK, Locals
<1>3. unopened' \in SUBSET Pages /\ open' \in SUBSET Pages /\ activePg' \in Pages \cup {NoPage}
  BY <1>1 DEF ResumeOpened, OpenPage, RestOK
<1>4. RestOK'
  BY <1>1, <1>3 DEF RestOK
<1>5. /\ "nextTab" \notin Writing /\ "nextTab" \notin Acquiring \cup Releasing
      /\ pc[t] \notin Acquiring \cup Releasing
  BY <1>1 DEF Writing, Acquiring, Releasing
<1>6. QED
  BY <1>1, <1>2, <1>4, <1>5, PlainKeeps, StepsOfHandlers

LEMMA ResumeCloseKeeps ==
  ASSUME CaptureInv, NEW t \in Threads, ResumeClose(t)
  PROVE  CaptureInv'
<1>1. /\ pc[t] = "nextTab" /\ UNCHANGED vars
      /\ UNCHANGED <<pageOrder, capturing, allTabs, capPages, stray, crossed>>
      /\ HandlersOK /\ RestOK
  BY DEF ResumeClose, At, captureVars, CaptureInv
<1>2. PICK pages \in Lists : Goto(t, "idle", pages) /\ local' \in [Threads -> Locals]
  BY <1>1, FinishGoes, OnceIsList DEF ResumeClose
<1>3. unopened' \in SUBSET Pages /\ open' \in SUBSET Pages /\ activePg' \in Pages \cup {NoPage}
  BY <1>1 DEF ResumeClose, OpenPage, RestOK
<1>4. RestOK'
  BY <1>1, <1>3 DEF RestOK
<1>5. /\ "idle" \notin Writing /\ "idle" \notin Acquiring \cup Releasing
      /\ pc[t] \notin Acquiring \cup Releasing
  BY <1>1 DEF Writing, Acquiring, Releasing
<1>6. QED
  BY <1>1, <1>2, <1>4, <1>5, PlainKeeps, StepsOfHandlers

-----------------------------------------------------------------------------
(* The steps of the captures.                                              *)

LEMMA CaptureStartKeeps ==
  ASSUME CaptureInv, NEW t \in Threads, CaptureStart(t)
  PROVE  CaptureInv'
<1>1. PICK all \in BOOLEAN, S \in SUBSET open : Goto(t, IF all THEN "setAll" ELSE "setTab", Once(S))
  BY DEF CaptureStart
<1>2. /\ pc[t] = "idle" /\ HandlersOK /\ RestOK /\ UNCHANGED vars
      /\ UNCHANGED <<unopened, open, activePg, pageOrder, capturing, allTabs, capPages, local, stray, crossed>>
  BY DEF CaptureStart, At, CaptureInv, tabVars, captureVars
<1>3. PICK s \in {"setAll", "setTab"} : Goto(t, s, Once(S))
  BY <1>1
<1>4. s \in Steps /\ Once(S) \in Lists /\ RestOK' /\ local' \in [Threads -> Locals]
  BY <1>2, StepsOfHandlers, OnceIsList DEF RestOK, HandlersOK
<1>5. /\ s \notin Writing /\ s \notin Acquiring \cup Releasing
      /\ pc[t] \notin Acquiring \cup Releasing
  BY <1>2 DEF Writing, Acquiring, Releasing
<1>6. QED
  BY <1>2, <1>3, <1>4, <1>5, PlainKeeps

(* The session before is claimed by nobody any more but by the loss.       *)
LEMMA CaptureSetKeeps ==
  ASSUME CaptureInv, NEW t \in Threads, CaptureSet(t)
  PROVE  CaptureInv'
<1>1. /\ pc[t] \in {"setAll", "setTab"} /\ capturing' = TRUE /\ allTabs' = (pc[t] = "setAll")
      /\ stray' = Plus(stray, capPages) /\ capPages' = arg[t] /\ Goto(t, "acquire", arg[t])
      /\ UNCHANGED vars /\ UNCHANGED <<unopened, open, activePg, pageOrder, local, crossed>>
      /\ HandlersOK /\ RestOK /\ IInv /\ NoneShort
  BY DEF CaptureSet, At, CaptureInv, tabVars
<1>2. arg[t] \in Lists /\ stray \in [Pages -> Int] /\ capPages \in Lists
  BY <1>1 DEF HandlersOK, RestOK
<1>3. stray' \in [Pages -> Int] /\ \A q \in Pages : stray'[q] = stray[q] + capPages[q]
  BY <1>1, <1>2, PlusStray
<1>4. ASSUME NEW q \in Pages
      PROVE  /\ stray[q] \in Int /\ capPages[q] \in Nat /\ arg[t][q] \in Nat
             /\ Count(pageOrder, q) \in Nat /\ Claimed(q) \in Int
  BY <1>1, <1>2, ClaimedIsInt DEF Lists
<1>5. RestOK'
  <2>1. allTabs' \in BOOLEAN /\ capturing' \in BOOLEAN
    BY <1>1
  <2>2. QED
    BY <1>1, <1>2, <1>3, <2>1 DEF RestOK
<1>6. NoneShort'
  BY <1>1, <1>3, <1>4 DEF NoneShort
<1>7. IInv' /\ TypeOK
  BY <1>1, CounterStays
<1>8. ASSUME NEW q \in Pages PROVE Balanced(t, "acquire", arg[t], q)
  <2>1. /\ Due(t, Acquiring, q) = 0 /\ Due(t, Releasing, q) = 0
        /\ At0("acquire" \in Acquiring, arg[t][q]) = arg[t][q]
        /\ At0("acquire" \in Releasing, arg[t][q]) = 0
    BY <1>1 DEF Due, At0, Acquiring, Releasing
  <2>2. Claimed(q)' = Claimed(q) + arg[t][q]
    <3>1. Claimed(q)' = Count(pageOrder, q) + arg[t][q] + stray'[q]
      BY <1>1 DEF Claimed, Count
    <3>2. QED
      BY <1>3, <1>4, <3>1 DEF Claimed
  <2>3. refs'[q] = refs[q] /\ refs[q] \in Int
    BY <1>1, <1>7 DEF vars, TypeOK
  <2>4. QED
    BY <1>4, <2>1, <2>2, <2>3 DEF Balanced
<1>9. local' \in [Threads -> Locals] /\ "acquire" \notin Writing
  BY <1>1 DEF HandlersOK, Writing
<1>10. QED
  BY <1>1, <1>2, <1>5, <1>6, <1>7, <1>8, <1>9, MovesKeep, StepsOfHandlers

LEMMA CaptureStopKeeps ==
  ASSUME CaptureInv, NEW t \in Threads, CaptureStop(t)
  PROVE  CaptureInv'
<1>1. /\ pc[t] = "idle" /\ capturing' = FALSE /\ capPages' = NoPages
      /\ Goto(t, "release", capPages)
      /\ UNCHANGED vars
      /\ UNCHANGED <<unopened, open, activePg, pageOrder, allTabs, local, stray, crossed>>
      /\ HandlersOK /\ RestOK /\ IInv /\ NoneShort
  BY DEF CaptureStop, At, CaptureInv, tabVars
<1>2. capPages \in Lists /\ NoPages \in Lists /\ \A q \in Pages : NoPages[q] = 0
  BY <1>1, OnceIsList DEF RestOK, NoPages
<1>3. RestOK' /\ local' \in [Threads -> Locals] /\ "release" \notin Writing
  BY <1>1, <1>2 DEF RestOK, HandlersOK, Writing
<1>4. IInv' /\ TypeOK /\ NoneShort'
  BY <1>1, CounterStays DEF NoneShort
<1>5. ASSUME NEW q \in Pages PROVE Balanced(t, "release", capPages, q)
  <2>1. /\ Due(t, Acquiring, q) = 0 /\ Due(t, Releasing, q) = 0
        /\ At0("release" \in Acquiring, capPages[q]) = 0
        /\ At0("release" \in Releasing, capPages[q]) = capPages[q]
    BY <1>1 DEF Due, At0, Acquiring, Releasing
  <2>2. /\ Claimed(q) \in Int /\ capPages[q] \in Nat /\ stray[q] \in Int
        /\ Count(pageOrder, q) \in Nat
    BY <1>1, ClaimedIsInt
  <2>3. Claimed(q)' = Count(pageOrder, q) + 0 + stray[q]
    BY <1>1, <1>2 DEF Claimed, Count
  <2>4. Claimed(q)' = Claimed(q) - capPages[q]
    BY <2>2, <2>3 DEF Claimed
  <2>5. refs'[q] = refs[q] /\ refs[q] \in Int
    BY <1>1, <1>4 DEF vars, TypeOK
  <2>6. QED
    BY <2>1, <2>2, <2>4, <2>5 DEF Balanced
<1>6. QED
  BY <1>1, <1>2, <1>3, <1>4, <1>5, MovesKeep, StepsOfHandlers

-----------------------------------------------------------------------------
(* The counter's steps, of lists of any length.                            *)

LEMMA AcquireCounter ==
  ASSUME IInv, NEW t \in Threads, NEW list \in Lists, AcquirePages(t, list)
  PROVE  IInv' /\ TypeOK' /\ TypeOK /\ \A q \in Pages : refs'[q] = refs[q] + list[q]
<1>1. TypeOK
  BY DEF IInv
<1>2. TypeOK'
  BY <1>1, AcquireTypes DEF Lists
<1>3. IInv'
  BY <1>2, AcquireIInv DEF Lists
<1>4. QED
  BY <1>1, <1>2, <1>3 DEF AcquirePages

LEMMA ReleaseCounter ==
  ASSUME IInv, NEW t \in Threads, NEW list \in Lists, ReleasePages(t, list)
  PROVE  /\ IInv' /\ TypeOK' /\ TypeOK
         /\ \A q \in Pages : refs'[q] = IF list[q] >= refs[q] THEN 0 ELSE refs[q] - list[q]
<1>1. TypeOK
  BY DEF IInv
<1>2. TypeOK'
  BY <1>1, ReleaseTypes DEF Lists
<1>3. IInv'
  BY <1>2, ReleaseIInv DEF Lists
<1>4. QED
  BY <1>1, <1>2, <1>3 DEF ReleasePages

(* References are taken as they were claimed.                              *)
LEMMA AcquireKeeps ==
  ASSUME CaptureInv, NEW t \in Threads, Acquire(t)
  PROVE  CaptureInv'
<1>1. /\ AcquirePages(t, arg[t]) /\ pc[t] \in Acquiring
      /\ UNCHANGED <<unopened, open, activePg, pageOrder, capturing, allTabs, capPages, stray, crossed>>
      /\ HandlersOK /\ RestOK /\ IInv /\ NoneShort
  BY DEF Acquire, CaptureInv, Acquiring, tabVars, captureVars
<1>2. arg[t] \in Lists /\ local \in [Threads -> Locals]
  BY <1>1 DEF HandlersOK
<1>3. \E s \in {"idle", "activate", "opened", "apply"}, pages \in Lists :
         Goto(t, s, pages) /\ local' \in [Threads -> Locals]
  <2>1. CASE Return(t)
    BY <1>1, <2>1, ReturnGoes
  <2>2. CASE Goto(t, "apply", arg[t]) /\ UNCHANGED local
    BY <1>2, <2>2
  <2>3. QED
    BY <2>1, <2>2 DEF Acquire
<1>4. PICK s \in {"idle", "activate", "opened", "apply"}, pages \in Lists :
         Goto(t, s, pages) /\ local' \in [Threads -> Locals]
  BY <1>3
<1>5. s \in Steps /\ s \notin Writing
  BY StepsOfHandlers DEF Writing
<1>6. IInv' /\ TypeOK' /\ TypeOK /\ \A q \in Pages : refs'[q] = refs[q] + arg[t][q]
  BY <1>1, <1>2, AcquireCounter
<1>7. RestOK' /\ NoneShort'
  BY <1>1 DEF RestOK, NoneShort
<1>8. ASSUME NEW q \in Pages PROVE Balanced(t, s, pages, q)
  <2>1. /\ Due(t, Acquiring, q) = arg[t][q] /\ Due(t, Releasing, q) = 0
        /\ At0(s \in Acquiring, pages[q]) = 0 /\ At0(s \in Releasing, pages[q]) = 0
    BY <1>1 DEF Due, At0, Acquiring, Releasing
  <2>2. /\ refs'[q] = refs[q] + arg[t][q] /\ refs[q] \in Int /\ arg[t][q] \in Int
    BY <1>2, <1>6 DEF TypeOK, Lists
  <2>3. Claimed(q)' = Claimed(q) /\ Claimed(q) \in Int
    BY <1>1, ClaimedIsInt DEF Claimed, Count
  <2>4. QED
    BY <2>1, <2>2, <2>3 DEF Balanced
<1>9. QED
  BY <1>4, <1>5, <1>6, <1>7, <1>8, MovesKeep

(* What the counter does not let go below zero is lost with its claim.     *)
LEMMA ReleaseKeeps ==
  ASSUME CaptureInv, NEW t \in Threads, Release(t)
  PROVE  CaptureInv'
<1>1. /\ ReleasePages(t, arg[t]) /\ pc[t] \in Releasing
      /\ stray' = [p \in Pages |->
                      stray[p] + IF arg[t][p] > refs[p] THEN arg[t][p] - refs[p] ELSE 0]
      /\ UNCHANGED <<unopened, open, activePg, pageOrder, capturing, allTabs, capPages, crossed>>
      /\ HandlersOK /\ RestOK /\ IInv /\ NoneShort
  BY DEF Release, CaptureInv, Releasing, tabVars, captureVars
<1>2. arg[t] \in Lists /\ local \in [Threads -> Locals]
  BY <1>1 DEF HandlersOK
<1>3. \E s \in {"idle", "close"}, pages \in Lists :
         Goto(t, s, pages) /\ local' \in [Threads -> Locals]
  <2>1. CASE Finish(t)
    BY <1>1, <2>1, FinishGoes, OnceIsList
  <2>2. CASE Goto(t, "close", arg[t]) /\ UNCHANGED local
    BY <1>2, <2>2
  <2>3. QED
    BY <2>1, <2>2 DEF Release
<1>4. PICK s \in {"idle", "close"}, pages \in Lists :
         Goto(t, s, pages) /\ local' \in [Threads -> Locals]
  BY <1>3
<1>5. s \in Steps /\ s \notin Writing
  BY StepsOfHandlers DEF Writing
<1>6. /\ IInv' /\ TypeOK' /\ TypeOK
      /\ \A q \in Pages : refs'[q] = IF arg[t][q] >= refs[q] THEN 0 ELSE refs[q] - arg[t][q]
  BY <1>1, <1>2, ReleaseCounter
<1>7. ASSUME NEW q \in Pages
      PROVE  /\ stray[q] \in Int /\ arg[t][q] \in Nat /\ refs[q] \in Nat /\ capPages[q] \in Nat
             /\ Count(pageOrder, q) \in Nat
             /\ stray'[q] = stray[q] + IF arg[t][q] > refs[q] THEN arg[t][q] - refs[q] ELSE 0
             /\ stray'[q] \in Int /\ stray'[q] >= stray[q]
  <2>1. /\ stray[q] \in Int /\ arg[t][q] \in Nat /\ refs[q] \in Nat /\ capPages[q] \in Nat
        /\ Count(pageOrder, q) \in Nat
    BY <1>1, <1>2, <1>6, ClaimedIsInt DEF Lists, TypeOK
  <2>2. stray'[q] = stray[q] + IF arg[t][q] > refs[q] THEN arg[t][q] - refs[q] ELSE 0
    BY <1>1
  <2>3. QED
    BY <2>1, <2>2
<1>8. RestOK' /\ NoneShort'
  <2>1. stray' \in [Pages -> Int]
    BY <1>1, <1>7
  <2>2. RestOK'
    BY <1>1, <2>1 DEF RestOK
  <2>3. NoneShort'
    BY <1>1, <1>7 DEF NoneShort
  <2>4. QED
    BY <2>2, <2>3
<1>9. ASSUME NEW q \in Pages PROVE Balanced(t, s, pages, q)
  <2>1. /\ Due(t, Acquiring, q) = 0 /\ Due(t, Releasing, q) = arg[t][q]
        /\ At0(s \in Acquiring, pages[q]) = 0 /\ At0(s \in Releasing, pages[q]) = 0
    BY <1>1 DEF Due, At0, Acquiring, Releasing
  <2>2. /\ Claimed(q) = Count(pageOrder, q) + capPages[q] + stray[q]
        /\ Claimed(q)' = Count(pageOrder, q) + capPages[q] + stray'[q]
    BY <1>1 DEF Claimed, Count
  <2>3. refs'[q] = IF arg[t][q] >= refs[q] THEN 0 ELSE refs[q] - arg[t][q]
    BY <1>6
  <2>4. QED
    BY <1>7, <2>1, <2>2, <2>3 DEF Balanced
<1>10. QED
  BY <1>4, <1>5, <1>6, <1>8, <1>9, MovesKeep

LEMMA CallbackKeeps ==
  ASSUME CaptureInv, NEW t \in Threads, HandlerCallback(t)
  PROVE  CaptureInv'
<1>1. PICK p \in Pages : Callback(t, p)
  BY DEF HandlerCallback
<1>2. /\ UNCHANGED <<unopened, open, activePg, pageOrder, capturing, allTabs, capPages,
                     pc, arg, local, stray, crossed>>
      /\ RestOK /\ IInv
  BY DEF HandlerCallback, CaptureInv, tabVars, captureVars
<1>3. UNCHANGED refs
  BY <1>1 DEF Callback
<1>4. TypeOK'
  BY <1>1, <1>2, CallbackTypes DEF IInv
<1>5. IInv'
  BY <1>1, <1>2, <1>4, CallbackIInv
<1>6. RestOK'
  BY <1>2 DEF RestOK
<1>7. QED
  BY <1>2, <1>3, <1>5, <1>6, StillKeeps

-----------------------------------------------------------------------------
(* No handler at one of these steps that has p in its list: nothing owed.  *)
LEMMA NothingOwed ==
  ASSUME NEW steps, NEW p \in Pages,
         \A t \in Threads : pc[t] \in steps => arg[t][p] = 0
  PROVE  Owed(steps, p) = 0
<1>1. 1 .. 0 = {}
  OBVIOUS
<1>2. Places(steps, p) = {}
  BY <1>1 DEF Places
<1>3. QED
  BY <1>2, FS_EmptySet DEF Owed

LEMMA InitCapture == CaptureInit => CaptureInv
<1> SUFFICES ASSUME CaptureInit PROVE CaptureInv
  OBVIOUS
<1>1. HandlersOK /\ RestOK
  <2>1. NoPages \in Lists /\ NoPages \in [Pages -> Int] /\ NoLocals \in Locals /\ "idle" \in Steps
    BY StepsOfHandlers DEF NoPages, Lists, NoLocals, Locals
  <2>2. HandlersOK
    BY <2>1 DEF CaptureInit, HandlersOK
  <2>3. /\ unopened \in SUBSET Pages /\ open \in SUBSET Pages
        /\ activePg \in Pages \cup {NoPage} /\ pageOrder \in Seq(Pages)
    BY DEF CaptureInit
  <2>4. /\ capturing \in BOOLEAN /\ allTabs \in BOOLEAN /\ capPages \in Lists
        /\ stray \in [Pages -> Int] /\ crossed \in SUBSET Pages
    <3>1. capturing = FALSE /\ allTabs = TRUE /\ capPages = NoPages /\ stray = NoPages /\ crossed = {}
      BY DEF CaptureInit
    <3>2. QED
      BY <2>1, <3>1
  <2>5. QED
    BY <2>2, <2>3, <2>4 DEF RestOK
<1>2. IInv /\ refs = [p \in Pages |-> 0]
  BY InitIInv DEF CaptureInit, Init, Idle
<1>3. OneInHand /\ NoneShort
  BY DEF CaptureInit, OneInHand, NoneShort, Writing, NoPages
<1>4. ASSUME NEW p \in Pages
      PROVE  refs[p] + ToAcquire(p) - ToRelease(p)
                = Cardinality(Positions(pageOrder, p)) + capPages[p] + stray[p]
  <2>1. ToAcquire(p) = 0 /\ ToRelease(p) = 0
    BY NothingOwed DEF CaptureInit, ToAcquire, ToRelease
  <2>2. refs[p] = 0 /\ capPages[p] = 0 /\ stray[p] = 0
    BY <1>2 DEF CaptureInit, NoPages
  <2>3. Cardinality(Positions(pageOrder, p)) = 0
    BY EmptyCount DEF CaptureInit, Count
  <2>4. QED
    BY <2>1, <2>2, <2>3
<1>5. QED
  BY <1>1, <1>2, <1>3, <1>4 DEF CaptureInv, RefsAccounted

LEMMA StepCapture == CaptureInv /\ [CaptureNext]_allVars => CaptureInv'
<1> SUFFICES ASSUME CaptureInv, [CaptureNext]_allVars PROVE CaptureInv'
  OBVIOUS
<1>1. CASE UNCHANGED allVars
  <2>1. /\ UNCHANGED <<unopened, open, activePg, pageOrder, capturing, allTabs, capPages,
                       pc, arg, local, stray, crossed>>
        /\ UNCHANGED vars
    BY <1>1 DEF allVars, tabVars, captureVars
  <2>2. RestOK' /\ IInv' /\ UNCHANGED refs
    BY <2>1, CounterStays DEF CaptureInv, RestOK, vars
  <2>3. QED
    BY <2>1, <2>2, StillKeeps
<1>2. ASSUME NEW t \in Threads, Tracking(t) PROVE CaptureInv'
  BY <1>2, TabNewKeeps, NavigateKeeps, TrackLookupKeeps, TrackAppendKeeps, ApplyKeeps DEF Tracking
<1>3. ASSUME NEW t \in Threads, Closing(t) PROVE CaptureInv'
  BY <1>3, TabSwitchKeeps, TabCloseKeeps, UntrackRemoveKeeps, ClosePageKeeps DEF Closing
<1>4. ASSUME NEW t \in Threads, Session(t) PROVE CaptureInv'
  BY <1>4, SessionNewKeeps, SessionNewCloseKeeps, SessionNewResetKeeps, SessionNewActiveKeeps,
     ResumeStartKeeps, ResumeOpenKeeps, ResumeOpenedKeeps, ResumeCloseKeeps DEF Session
<1>5. ASSUME NEW t \in Threads, Capture(t) PROVE CaptureInv'
  BY <1>5, CaptureStartKeeps, CaptureSetKeeps, CaptureStopKeeps DEF Capture
<1>6. QED
  BY <1>1, <1>2, <1>3, <1>4, <1>5, PopupKeeps, AcquireKeeps, ReleaseKeeps, CallbackKeeps
  DEF CaptureNext

(* The inductive invariant: types, the counter's own invariant for lists   *)
(* of any length, the one page in hand of a handler that writes to the     *)
(* order, no reference returned too much but by a removal that crossed     *)
(* another write, and the account of every page's references.              *)
THEOREM CaptureInvHolds == CaptureSpec => []CaptureInv
BY InitCapture, StepCapture, PTL DEF CaptureSpec

(* For any pages, handlers and bounds: whatever tab handlers, session      *)
(* resets, capture starts and stops interleave on the unlocked order,      *)
(* every page's count is one per place it has in the order, plus its       *)
(* places in the running session, plus what overwritten sessions, early    *)
(* releases, resets and undone writes left behind, once what the handlers  *)
(* have decided on is taken and given back (domain_ref.go,                 *)
(* page_management.go, routes_network.go, routes_session.go).              *)
THEOREM RefsAccountedHolds == CaptureSpec => []RefsAccounted
<1>1. CaptureInv => RefsAccounted
  BY DEF CaptureInv
<1>2. QED
  BY <1>1, CaptureInvHolds, PTL

(* For any pages, handlers and bounds: a page in the order that no removal *)
(* crossing another write has left short keeps its baseline reference;     *)
(* once no handler is about to touch its count it still has one, and its   *)
(* domain is on unless callbacks on it overlapped or failed (trackPage,    *)
(* untrackPage, handleNetworkCaptureStop).                                 *)
THEOREM BaselineHeldHolds == CaptureSpec => []BaselineHeld
<1>1. CaptureInv => BaselineHeld
  <2> SUFFICES ASSUME CaptureInv, NEW p \in Pages \ crossed,
                      Positions(pageOrder, p) # {}, Settled(p)
               PROVE  /\ ActiveForPage(p)
                      /\ p \notin raced /\ p \notin failed => enabled[p]
    BY DEF BaselineHeld
  <2>1. RestOK /\ UndisturbedInv /\ TypeOK /\ RefsAccounted /\ NoneShort
    BY DEF CaptureInv, IInv
  <2>2. /\ refs[p] \in Nat /\ capPages[p] \in Nat /\ stray[p] \in Int /\ stray[p] >= 0
        /\ Count(pageOrder, p) \in Nat /\ IsFiniteSet(Positions(pageOrder, p))
    BY <2>1, ClaimedIsInt, PositionsFinite DEF TypeOK, NoneShort, RestOK
  <2>3. Count(pageOrder, p) # 0
    BY <2>2, FS_EmptySet DEF Count
  <2>4. \A t \in Threads : pc[t] # "idle" => arg[t][p] = 0
    BY DEF Settled
  <2>5. ToAcquire(p) = 0 /\ ToRelease(p) = 0
    BY <2>4, NothingOwed DEF ToAcquire, ToRelease
  <2>6. refs[p] = Count(pageOrder, p) + capPages[p] + stray[p]
    BY <2>1, <2>2, <2>5 DEF RefsAccounted, Count
  <2>7. refs[p] > 0
    BY <2>2, <2>3, <2>6
  <2>8. Quiet(p)
    BY DEF Settled, Quiet
  <2>9. QED
    BY <2>1, <2>7, <2>8 DEF UndisturbedInv, ActiveForPage
<1>2. QED
  BY <1>1, CaptureInvHolds, PTL

=============================================================================
