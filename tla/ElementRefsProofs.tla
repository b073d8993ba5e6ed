--------------------------- MODULE ElementRefsProofs ---------------------------
(* Proofs about ElementRefs, for any nodes and fingerprints, any finite    *)
(* set of selectors, any clients and any number of page changes.           *)
EXTENDS ElementRefs, SequenceTheorems, FiniteSetTheorems, TLAPS

-----------------------------------------------------------------------------
(* Enumerations.                                                           *)

LEMMA UpTo ==
  ASSUME NEW n \in Nat
  PROVE  IsFiniteSet(1 .. n) /\ Cardinality(1 .. n) = n
<1>1. 1 \in Int /\ n \in Int
  OBVIOUS
<1>2. IsFiniteSet(1 .. n) /\ Cardinality(1 .. n) = IF 1 > n THEN 0 ELSE n - 1 + 1
  BY <1>1, FS_Interval
<1>3. QED
  BY <1>2

LEMMA PageShape ==
  ASSUME NEW d \in Pages
  PROVE  /\ DOMAIN d \subseteq Slots /\ d \in [DOMAIN d -> Nodes]
         /\ DOMAIN d \subseteq Nat /\ IsFiniteSet(DOMAIN d) /\ Cardinality(DOMAIN d) \in Nat
<1>1. PICK S \in SUBSET Slots : d \in [S -> Nodes]
  BY DEF Pages
<1>2. DOMAIN d = S
  BY <1>1
<1>3. DOMAIN d \subseteq Slots /\ d \in [DOMAIN d -> Nodes] /\ DOMAIN d \subseteq Nat
  BY <1>1, <1>2, RefAssumption
<1>4. IsFiniteSet(DOMAIN d)
  BY <1>3, RefAssumption, FS_Subset
<1>5. QED
  BY <1>3, <1>4, FS_CardinalityType

(* Every rank is some selector's: ranks tell selectors apart, and there    *)
(* are as many of one as of the other.                                     *)
LEMMA RanksTaken ==
  ASSUME NEW d \in Pages, NEW k \in 1 .. Cardinality(DOMAIN d)
  PROVE  \E s \in DOMAIN d : Rank(d, s) = k
<1> DEFINE D == DOMAIN d
           n == Cardinality(D)
           Upto(s) == {t \in D : t <= s}
           f == [s \in D |-> Rank(d, s)]
<1>1. D \subseteq Nat /\ IsFiniteSet(D) /\ n \in Nat
  BY PageShape
<1>2. ASSUME NEW s \in D
      PROVE  /\ IsFiniteSet(Upto(s)) /\ Cardinality(Upto(s)) \in Nat
             /\ Cardinality(Upto(s)) <= n /\ Rank(d, s) = Cardinality(Upto(s))
  <2>1. Upto(s) \subseteq D
    OBVIOUS
  <2>2. IsFiniteSet(Upto(s)) /\ Cardinality(Upto(s)) <= n
    BY <1>1, <2>1, FS_Subset
  <2>3. QED
    BY <2>2, FS_CardinalityType DEF Rank
<1>3. ASSUME NEW s \in D PROVE Rank(d, s) \in 1 .. n
  <2>1. s \in Upto(s)
    BY <1>1
  <2>2. Cardinality(Upto(s)) # 0
    BY <1>2, <2>1, FS_EmptySet
  <2>3. QED
    BY <1>1, <1>2, <2>2
<1>4. ASSUME NEW s \in D, NEW t \in D, s < t PROVE Rank(d, s) < Rank(d, t)
  <2>1. Upto(s) \subseteq Upto(t) /\ t \in Upto(t) /\ t \notin Upto(s)
    BY <1>1, <1>4
  <2>2. Upto(s) \in SUBSET Upto(t) /\ Upto(s) # Upto(t)
    BY <2>1
  <2> HIDE DEF Upto
  <2>3. /\ Cardinality(Upto(s)) <= Cardinality(Upto(t))
        /\ Cardinality(Upto(s)) # Cardinality(Upto(t))
    BY <1>2, <2>2, FS_Subset
  <2>4. QED
    BY <1>2, <2>3
<1>5. f \in Injection(D, 1 .. n)
  <2>1. f \in [D -> 1 .. n]
    BY <1>3
  <2>2. ASSUME NEW s \in D, NEW t \in D, s # t PROVE f[s] # f[t]
    <3>1. s < t \/ t < s
      BY <1>1, <2>2
    <3>2. f[s] < f[t] \/ f[t] < f[s]
      BY <1>4, <3>1
    <3>3. f[s] \in Nat /\ f[t] \in Nat
      BY <1>3, <1>1
    <3>4. QED
      BY <3>2, <3>3
  <2>3. QED
    BY <2>1, <2>2 DEF Injection, IsInjective
<1>6. IsFiniteSet(1 .. n) /\ Cardinality(1 .. n) = n
  BY <1>1, UpTo
<1> HIDE DEF f, n
<1>7. f \in Surjection(D, 1 .. n)
  BY <1>5, <1>6, FS_Injection DEF n
<1>8. PICK s \in D : f[s] = k
  BY <1>7 DEF Surjection, n
<1>9. QED
  BY <1>8 DEF f

LEMMA Enumeration ==
  ASSUME NEW d \in Pages
  PROVE  /\ Elements(d) \in Seq(Entries)
         /\ \A k \in DOMAIN Elements(d) :
                Elements(d)[k].slot \in DOMAIN d /\ d[Elements(d)[k].slot] = Elements(d)[k].node
<1> DEFINE n == Cardinality(DOMAIN d)
<1>1. /\ DOMAIN d \subseteq Slots /\ d \in [DOMAIN d -> Nodes] /\ n \in Nat
  BY PageShape
<1>2. DOMAIN Elements(d) = 1 .. n
  BY DEF Elements
<1>3. ASSUME NEW k \in 1 .. n
      PROVE  \E s \in DOMAIN d : Elements(d)[k] = [slot |-> s, node |-> d[s]]
  BY <1>3, RanksTaken DEF Elements
<1>4. Elements(d) \in [1 .. n -> Entries]
  <2>1. ASSUME NEW k \in 1 .. n PROVE Elements(d)[k] \in Entries
    <3>1. PICK s \in DOMAIN d : Elements(d)[k] = [slot |-> s, node |-> d[s]]
      BY <1>3
    <3>2. s \in Slots /\ d[s] \in Nodes
      BY <1>1
    <3>3. QED
      BY <3>1, <3>2 DEF Entries
  <2>2. Elements(d) = [k \in 1 .. n |-> Elements(d)[k]]
    BY DEF Elements
  <2> HIDE DEF n
  <2>3. QED
    BY <2>1, <2>2
<1>5. Elements(d) \in Seq(Entries)
  BY <1>1, <1>4, SeqDef
<1>6. QED
  BY <1>2, <1>3, <1>5

-----------------------------------------------------------------------------
(* The invariant, per client c with the listing l it was last given.       *)

(* An enumeration of this very page lists what the page shows now.         *)
Current(s) == s.epoch = epoch /\ s.elems # <<>> => s.elems = Elements(dom)

Resolving == {"lookup", "verify", "fresh", "freshStore", "retarget", "retargetStore", "act"}
LookedUp == Resolving \ {"lookup"}
Stored == {"verify", "retarget", "retargetStore"}

(* The entry the action looked up: its ref, in the store of that moment.   *)
Before(c) == start[c].store.elems

Request(c) ==
    /\ pc[c] \in Resolving => ref[c] \in DOMAIN listing[c].elems
    /\ pc[c] \in LookedUp => listing[c].epoch <= start[c].epoch
    /\ pc[c] \in Stored => ref[c] \in DOMAIN Before(c) /\ entry[c] = Before(c)[ref[c]]
    /\ pc[c] \in {"fresh", "freshStore"} => ref[c] \notin DOMAIN Before(c)
    /\ pc[c] \in {"freshStore", "retargetStore"} => start[c].epoch <= snap[c].epoch

(* The page is looked through only when the recorded selector has lost the *)
(* identity, as long as nothing changed and no eval failed.                *)
Verified(c) ==
    pc[c] \in {"retarget", "retargetStore"} /\ Quiet(c) /\ ~failed[c]
        => ~Matches(entry[c].slot, entry[c].node)

(* What the action settled on.                                             *)
Settled(c) ==
    Hits(c) /\ Quiet(c) /\ ~failed[c] =>
        /\ Before(c) = listing[c].elems => Ident[dom[slot[c]]] = Ident[Meant(c)]
        /\ epoch = listing[c].epoch /\ FromThisPage(c) => dom[slot[c]] = Meant(c)

ClientInv(c) == Current(snap[c]) /\ Current(listing[c]) /\ Request(c) /\ Verified(c) /\ Settled(c)

RefInv == \A c \in Callers : ClientInv(c)

-----------------------------------------------------------------------------
(* Types.                                                                  *)

Starts == [epoch : 0 .. epoch, store : Snapshots]

Shape == TypeOK /\ start \in [Callers -> Starts]

LEMMA SnapshotTyped ==
  ASSUME TypeOK
  PROVE  Snapshot \in Snapshots /\ Nothing \in Snapshots /\ [epoch |-> 0, store |-> Nothing] \in Starts
<1>1. /\ dom \in Pages /\ epoch \in Nat /\ document \in Nat
  BY RefAssumption DEF TypeOK
<1>2. Elements(dom) \in Seq(Entries) /\ <<>> \in Seq(Entries)
  BY <1>1, Enumeration
<1>3. QED
  BY <1>1, <1>2 DEF Snapshot, Nothing, Snapshots, Starts

LEMMA InitShape == Init => Shape
<1> SUFFICES ASSUME Init PROVE Shape
  OBVIOUS
<1>1. epoch = 0 /\ document = 0 /\ dom \in Pages
  BY DEF Init
<1>2. Nothing \in Snapshots /\ [epoch |-> 0, store |-> Nothing] \in Starts
  <2>1. <<>> \in Seq(Entries)
    OBVIOUS
  <2>2. QED
    BY <1>1, <2>1 DEF Nothing, Snapshots, Starts
<1>3. epoch \in 0 .. MaxEpochs /\ document \in Nat /\ store \in Snapshots
  BY <1>1, <1>2, RefAssumption DEF Init
<1>4. loading \in BOOLEAN
  BY DEF Init
<1>5. /\ pc \in [Callers -> Steps] /\ \A c \in Callers : pc[c] # "act"
      /\ snap \in [Callers -> Snapshots] /\ listing \in [Callers -> Snapshots]
  BY <1>2 DEF Init, Steps
<1>6. /\ ref \in [Callers -> Nat] /\ entry \in [Callers -> Entries \cup {NoEntry}]
      /\ slot \in [Callers -> Slots \cup {None}]
  BY DEF Init, None
<1>7. start \in [Callers -> Starts] /\ failed \in [Callers -> BOOLEAN]
  BY <1>2 DEF Init
<1>8. QED
  BY <1>1, <1>3, <1>4, <1>5, <1>6, <1>7 DEF Shape, TypeOK

LEMMA StillTypes ==
  ASSUME UNCHANGED <<epoch, document>>
  PROVE  Snapshots' = Snapshots /\ Starts' = Starts
BY DEF Snapshots, Starts

(* What was typed stays so when the page moves on.                         *)
LEMMA MovedTypes ==
  ASSUME epoch \in Nat, document \in Nat, epoch' = epoch + 1,
         document' \in {document, document + 1}
  PROVE  /\ \A s \in Snapshots : s \in Snapshots'
         /\ \A s \in Starts : s \in Starts'
<1>1. \A s \in Snapshots : s \in Snapshots'
  BY DEF Snapshots
<1>2. QED
  BY <1>1 DEF Starts

LEMMA DoneKeeps ==
  ASSUME Shape, NEW c \in Callers, Done(c)
  PROVE  /\ pc' \in [Callers -> Steps] /\ pc'[c] = "idle" /\ snap' \in [Callers -> Snapshots]
         /\ ref' \in [Callers -> Nat] /\ entry' \in [Callers -> Entries \cup {NoEntry}]
         /\ slot' \in [Callers -> Slots \cup {None}] /\ start' \in [Callers -> Starts]
         /\ failed' \in [Callers -> BOOLEAN]
         /\ \A u \in Callers \ {c} : pc'[u] = pc[u] /\ slot'[u] = slot[u]
BY SnapshotTyped DEF Shape, TypeOK, Done, Goto, Steps, None

(* A ref comes from the client's listing, an entry from the store.         *)
LEMMA RefOfListing ==
  ASSUME Shape, NEW c \in Callers, Request(c), pc[c] \in Resolving
  PROVE  ref[c] \in Nat /\ ref[c] >= 1
BY DEF Shape, TypeOK, Request, Snapshots

LEMMA EntryStored ==
  ASSUME Shape, NEW c \in Callers, Request(c), pc[c] \in Stored
  PROVE  /\ Before(c) \in Seq(Entries) /\ ref[c] \in DOMAIN Before(c)
         /\ entry[c] = Before(c)[ref[c]] /\ entry[c] \in Entries /\ entry[c].slot \in Slots
<1>1. Before(c) \in Seq(Entries)
  BY DEF Shape, Starts, Snapshots, Before
<1>2. ref[c] \in DOMAIN Before(c) /\ entry[c] = Before(c)[ref[c]]
  BY DEF Request
<1>3. entry[c] \in Entries
  BY <1>1, <1>2
<1>4. QED
  BY <1>1, <1>2, <1>3 DEF Entries

(* Types keep while the page does: what a step of client c may change.     *)
LEMMA StillShape ==
  ASSUME Shape, NEW c \in Callers, UNCHANGED <<dom, epoch, document>>, loading' \in BOOLEAN,
         store' \in Snapshots, listing' \in [Callers -> Snapshots],
         pc' \in [Callers -> Steps], snap' \in [Callers -> Snapshots],
         ref' \in [Callers -> Nat], entry' \in [Callers -> Entries \cup {NoEntry}],
         slot' \in [Callers -> Slots \cup {None}], start' \in [Callers -> Starts],
         failed' \in [Callers -> BOOLEAN],
         pc'[c] = "act" => slot'[c] \in Slots,
         \A u \in Callers \ {c} : pc'[u] = pc[u] /\ slot'[u] = slot[u]
  PROVE  Shape'
<1>1. Snapshots' = Snapshots /\ Starts' = Starts
  BY StillTypes
<1>2. dom' \in Pages /\ epoch' \in 0 .. MaxEpochs /\ document' \in Nat
  BY DEF Shape, TypeOK
<1>3. \A u \in Callers : pc'[u] = "act" => slot'[u] \in Slots
  BY DEF Shape, TypeOK
<1>4. QED
  BY <1>1, <1>2, <1>3 DEF Shape, TypeOK

(* ... and when it moves on.                                               *)
LEMMA MovedShape ==
  ASSUME Shape, PageChanges \/ PageNavigates \/ \E c \in Callers : NavigateLoaded(c)
  PROVE  Shape'
<1>1. /\ epoch \in Nat /\ document \in Nat /\ epoch' = epoch + 1
      /\ document' \in {document, document + 1} /\ epoch' \in 0 .. MaxEpochs
  BY RefAssumption DEF Shape, TypeOK, PageChanges, PageNavigates, NavigateLoaded
<1>2. /\ \A s \in Snapshots : s \in Snapshots'
      /\ \A s \in Starts : s \in Starts'
  BY <1>1, MovedTypes
<1>3. /\ dom' \in Pages /\ loading' \in BOOLEAN
      /\ UNCHANGED <<store, snap, ref, entry, slot, listing, start, failed>>
      /\ pc' \in [Callers -> Steps] /\ \A c \in Callers : pc'[c] = "act" => pc[c] = "act"
  BY DEF Shape, TypeOK, PageChanges, PageNavigates, NavigateLoaded, Goto, Steps, requestVars,
         historyVars
<1>4. /\ snap' \in [Callers -> Snapshots'] /\ listing' \in [Callers -> Snapshots']
      /\ start' \in [Callers -> Starts'] /\ store' \in Snapshots'
  BY <1>2, <1>3 DEF Shape, TypeOK
<1>5. QED
  BY <1>1, <1>3, <1>4 DEF Shape, TypeOK

-----------------------------------------------------------------------------
(* The invariant, step by step.                                            *)

(* What the types say of one client.                                       *)
LEMMA ClientShape ==
  ASSUME Shape, NEW c \in Callers
  PROVE  /\ epoch \in Nat /\ dom \in Pages
         /\ snap[c] \in Snapshots /\ snap[c].epoch \in 0 .. epoch /\ snap[c].elems \in Seq(Entries)
         /\ listing[c] \in Snapshots /\ listing[c].epoch \in 0 .. epoch
         /\ listing[c].elems \in Seq(Entries)
         /\ start[c].epoch \in 0 .. epoch /\ Before(c) \in Seq(Entries)
<1>1. /\ epoch \in Nat /\ dom \in Pages /\ snap[c] \in Snapshots /\ listing[c] \in Snapshots
      /\ start[c] \in Starts
  BY RefAssumption DEF Shape, TypeOK
<1>2. QED
  BY <1>1 DEF Snapshots, Starts, Before

(* An enumeration that names something and was made on this page tells     *)
(* which node each of its selectors gives.                                 *)
LEMMA CurrentNames ==
  ASSUME dom \in Pages, NEW s, Current(s), s.epoch = epoch, NEW k \in DOMAIN s.elems
  PROVE  /\ s.elems = Elements(dom)
         /\ s.elems[k].slot \in DOMAIN dom /\ dom[s.elems[k].slot] = s.elems[k].node
<1>1. s.elems # <<>>
  BY EmptySeq
<1>2. s.elems = Elements(dom)
  BY <1>1 DEF Current
<1>3. QED
  BY <1>2, Enumeration

(* A step of client c leaves the others' requests alone...                 *)
Apart(c) ==
    \A u \in Callers \ {c} :
        /\ pc'[u] = pc[u] /\ snap'[u] = snap[u] /\ ref'[u] = ref[u] /\ entry'[u] = entry[u]
        /\ slot'[u] = slot[u] /\ listing'[u] = listing[u] /\ start'[u] = start[u]
        /\ failed'[u] = failed[u]

(* ... and so what is known of them, as long as the page keeps still.      *)
LEMMA OthersKeep ==
  ASSUME RefInv, NEW c \in Callers, UNCHANGED <<dom, epoch>>, Apart(c), ClientInv(c)'
  PROVE  RefInv'
<1>1. ASSUME NEW u \in Callers \ {c} PROVE ClientInv(u)'
  <2>1. ClientInv(u)
    BY DEF RefInv
  <2>2. /\ pc'[u] = pc[u] /\ snap'[u] = snap[u] /\ ref'[u] = ref[u] /\ entry'[u] = entry[u]
        /\ slot'[u] = slot[u] /\ listing'[u] = listing[u] /\ start'[u] = start[u]
        /\ failed'[u] = failed[u]
    BY DEF Apart
  <2>3. Current(snap[u])' /\ Current(listing[u])'
    BY <2>1, <2>2 DEF ClientInv, Current
  <2>4. Before(u)' = Before(u) /\ Quiet(u)' = Quiet(u) /\ Hits(u)' = Hits(u) /\ Meant(u)' = Meant(u)
    BY <2>2 DEF Before, Quiet, Hits, Meant
  <2>5. Request(u)'
    BY <2>1, <2>2, <2>4 DEF ClientInv, Request
  <2>6. Verified(u)'
    BY <2>1, <2>2, <2>4 DEF ClientInv, Verified, Matches
  <2>7. FromThisPage(u)' = FromThisPage(u)
    BY <2>2 DEF FromThisPage
  <2>8. Settled(u)'
    BY <2>1, <2>2, <2>4, <2>7 DEF ClientInv, Settled
  <2>9. QED
    BY <2>3, <2>5, <2>6, <2>8 DEF ClientInv
<1>2. QED
  BY <1>1 DEF RefInv

(* A client between requests has nothing to keep but its listing.          *)
LEMMA Resting ==
  ASSUME NEW c \in Callers, Current(snap[c])', Current(listing[c])',
         pc'[c] \notin Resolving
  PROVE  ClientInv(c)'
<1>1. Request(c)' /\ Verified(c)' /\ Settled(c)'
  BY DEF Resolving, LookedUp, Stored, Request, Verified, Settled, Hits
<1>2. QED
  BY <1>1 DEF ClientInv

LEMMA NothingCurrent ==
  ASSUME NEW c \in Callers, snap'[c] = Nothing
  PROVE  Current(snap[c])'
BY DEF Current, Nothing

(* The frame of a finished request.                                        *)
LEMMA DoneApart ==
  ASSUME Shape, NEW c \in Callers, Done(c),
         \A u \in Callers \ {c} : listing'[u] = listing[u]
  PROVE  Apart(c) /\ snap'[c] = Nothing /\ pc'[c] = "idle" /\ pc'[c] \notin Resolving
BY DEF Apart, Done, Goto, Shape, TypeOK, Resolving

(* A request that is over, whatever became of the listing.                 *)
LEMMA Finished ==
  ASSUME Shape, RefInv, NEW c \in Callers, Done(c), UNCHANGED <<dom, epoch, document>>,
         loading' \in BOOLEAN, store' \in Snapshots,
         \/ UNCHANGED listing
         \/ listing' = [listing EXCEPT ![c] = snap[c]]
  PROVE  Shape' /\ RefInv'
<1>1. snap[c] \in Snapshots /\ listing \in [Callers -> Snapshots]
  BY DEF Shape, TypeOK
<1>2. listing' \in [Callers -> Snapshots] /\ \A u \in Callers \ {c} : listing'[u] = listing[u]
  BY <1>1
<1>3. listing'[c] \in {listing[c], snap[c]}
  BY <1>1
<1>4. Shape'
  BY <1>2, DoneKeeps, StillShape
<1>5. Current(snap[c]) /\ Current(listing[c])
  BY DEF RefInv, ClientInv
<1>6. Current(listing[c])'
  BY <1>3, <1>5 DEF Current
<1>7. ClientInv(c)'
  BY <1>2, <1>6, DoneApart, NothingCurrent, Resting
<1>8. QED
  BY <1>2, <1>4, <1>7, DoneApart, OthersKeep

LEMMA RequestStep ==
  ASSUME Shape, RefInv, NEW c \in Callers, ElementsRequest(c) \/ NavigateRequest(c)
  PROVE  Shape' /\ RefInv'
<1>1. /\ UNCHANGED <<dom, epoch, document, store, snap, ref, entry, slot, listing, start, failed>>
      /\ pc' \in [Callers -> Steps] /\ pc'[c] \in {"list", "load"}
      /\ \A u \in Callers \ {c} : pc'[u] = pc[u]
  BY DEF ElementsRequest, NavigateRequest, Goto, pageVars, historyVars, Shape, TypeOK, Steps
<1>2. loading' \in BOOLEAN
  BY DEF ElementsRequest, NavigateRequest, pageVars, Shape, TypeOK
<1>3. Shape'
  BY <1>1, <1>2, StillShape DEF Shape, TypeOK
<1>4. Current(snap[c])' /\ Current(listing[c])'
  BY <1>1 DEF RefInv, ClientInv, Current
<1>5. ClientInv(c)'
  BY <1>1, <1>4, Resting DEF Resolving
<1>6. Apart(c)
  BY <1>1 DEF Apart
<1>7. QED
  BY <1>1, <1>3, <1>5, <1>6, OthersKeep

(* The eval of an enumeration.                                             *)
LEMMA EvalStep ==
  ASSUME Shape, RefInv, NEW c \in Callers,
         ElementsEval(c) \/ FreshEval(c) \/ RetargetEval(c) \/ CandidatesEval(c)
  PROVE  Shape' /\ RefInv'
<1>1. /\ UNCHANGED <<dom, epoch, document, loading, store, ref, entry, slot, listing, start, failed>>
      /\ pc' \in [Callers -> Steps] /\ snap' = [snap EXCEPT ![c] = Snapshot]
      /\ \A u \in Callers \ {c} : pc'[u] = pc[u]
      /\ \/ pc[c] \in {"list", "miss"} /\ pc'[c] \in {"listStore", "missStore"}
         \/ pc[c] = "fresh" /\ pc'[c] = "freshStore"
         \/ pc[c] = "retarget" /\ pc'[c] = "retargetStore"
  BY DEF ElementsEval, FreshEval, RetargetEval, CandidatesEval, Enumerate, Goto, pageVars,
         historyVars, Shape, TypeOK, Steps
<1>2. /\ Snapshot \in Snapshots /\ snap' \in [Callers -> Snapshots] /\ snap'[c] = Snapshot
      /\ \A u \in Callers \ {c} : snap'[u] = snap[u]
  BY <1>1, SnapshotTyped DEF Shape, TypeOK
<1>3. Shape'
  <2>1. pc'[c] # "act"
    BY <1>1
  <2>2. QED
    BY <1>1, <1>2, <2>1, StillShape DEF Shape, TypeOK
<1>4. Current(snap[c])' /\ Current(listing[c])'
  BY <1>1, <1>2 DEF RefInv, ClientInv, Current, Snapshot
<1>5. ClientInv(c)'
  <2>1. CASE pc'[c] \in {"listStore", "missStore"}
    BY <1>4, <2>1, Resting DEF Resolving
  <2>2. CASE pc[c] = "fresh" /\ pc'[c] = "freshStore"
    <3>1. Request(c) /\ start[c].epoch <= epoch
      BY ClientShape DEF RefInv, ClientInv
    <3>2. Request(c)'
      BY <1>1, <1>2, <2>2, <3>1 DEF Request, Resolving, LookedUp, Stored, Before, Snapshot
    <3>3. Verified(c)' /\ Settled(c)'
      BY <2>2 DEF Verified, Settled, Hits
    <3>4. QED
      BY <1>4, <3>2, <3>3 DEF ClientInv
  <2>3. CASE pc[c] = "retarget" /\ pc'[c] = "retargetStore"
    <3>1. Request(c) /\ Verified(c) /\ start[c].epoch <= epoch
      BY ClientShape DEF RefInv, ClientInv
    <3>2. Request(c)'
      BY <1>1, <1>2, <2>3, <3>1 DEF Request, Resolving, LookedUp, Stored, Before, Snapshot
    <3>3. Verified(c)'
      BY <1>1, <2>3, <3>1 DEF Verified, Quiet, Matches
    <3>4. Settled(c)'
      BY <2>3 DEF Settled, Hits
    <3>5. QED
      BY <1>4, <3>2, <3>3, <3>4 DEF ClientInv
  <2>4. QED
    BY <1>1, <2>1, <2>2, <2>3
<1>6. Apart(c)
  BY <1>1, <1>2 DEF Apart
<1>7. QED
  BY <1>1, <1>3, <1>5, <1>6, OthersKeep

(* The steps that only end a request.                                      *)
LEMMA ReplyStep ==
  ASSUME Shape, RefInv, NEW c \in Callers,
         ElementsReply(c) \/ CandidatesReply(c) \/ InvalidateElementRefs(c)
  PROVE  Shape' /\ RefInv'
<1>1. Done(c) /\ UNCHANGED <<dom, epoch, document, loading>>
  BY DEF ElementsReply, CandidatesReply, InvalidateElementRefs, Replace, pageVars
<1>2. \/ UNCHANGED listing
      \/ listing' = [listing EXCEPT ![c] = snap[c]]
  BY DEF ElementsReply, CandidatesReply, InvalidateElementRefs, Shown
<1>3. store' \in {store, snap[c], Nothing}
  BY DEF ElementsReply, CandidatesReply, InvalidateElementRefs, Replace
<1>4. store' \in Snapshots
  BY <1>3, SnapshotTyped DEF Shape, TypeOK
<1>5. loading' \in BOOLEAN
  BY <1>1 DEF Shape, TypeOK
<1>6. QED
  BY <1>1, <1>2, <1>4, <1>5, Finished

LEMMA ActionRequestStep ==
  ASSUME Shape, RefInv, NEW c \in Callers, ActionRequest(c)
  PROVE  Shape' /\ RefInv'
<1>1. PICK k \in DOMAIN listing[c].elems : ref' = [ref EXCEPT ![c] = k]
  BY DEF ActionRequest
<1>2. /\ UNCHANGED <<dom, epoch, document, loading, store, snap, entry, slot, listing, start, failed>>
      /\ pc' \in [Callers -> Steps] /\ pc'[c] = "lookup"
      /\ \A u \in Callers \ {c} : pc'[u] = pc[u]
  BY DEF ActionRequest, Goto, pageVars, historyVars, Shape, TypeOK, Steps
<1>3. k \in Nat
  BY <1>1, ClientShape
<1>4. /\ ref' \in [Callers -> Nat] /\ ref'[c] = k
      /\ \A u \in Callers \ {c} : ref'[u] = ref[u]
  BY <1>1, <1>3 DEF Shape, TypeOK
<1>5. Shape'
  <2>1. pc'[c] # "act"
    BY <1>2
  <2>2. QED
    BY <1>2, <1>4, <2>1, StillShape DEF Shape, TypeOK
<1>6. ClientInv(c)'
  <2>1. Current(snap[c])' /\ Current(listing[c])'
    BY <1>2 DEF RefInv, ClientInv, Current
  <2>2. Request(c)'
    BY <1>1, <1>2, <1>4 DEF Request, Resolving, LookedUp, Stored
  <2>3. Verified(c)' /\ Settled(c)'
    BY <1>2 DEF Verified, Settled, Hits
  <2>4. QED
    BY <2>1, <2>2, <2>3 DEF ClientInv
<1>7. Apart(c)
  BY <1>2, <1>4 DEF Apart
<1>8. QED
  BY <1>2, <1>5, <1>6, <1>7, OthersKeep

LEMMA LookupStep ==
  ASSUME Shape, RefInv, NEW c \in Callers, LookupRefInStore(c)
  PROVE  Shape' /\ RefInv'
<1> DEFINE now == [epoch |-> epoch, store |-> store]
<1>1. Request(c) /\ pc[c] = "lookup"
  BY DEF RefInv, ClientInv, LookupRefInStore
<1>2. /\ ref[c] \in DOMAIN listing[c].elems /\ ref[c] \in Nat /\ ref[c] >= 1
      /\ store.elems \in Seq(Entries)
  BY <1>1, RefOfListing DEF Request, Resolving, Shape, TypeOK, Snapshots
<1>3. /\ UNCHANGED <<dom, epoch, document, loading, store, snap, ref, slot, listing, failed>>
      /\ start' = [start EXCEPT ![c] = now]
      /\ \/ /\ pc' = [pc EXCEPT ![c] = "fresh"] /\ ref[c] > Len(store.elems) /\ entry' = entry
         \/ /\ pc' = [pc EXCEPT ![c] = "verify"] /\ ~(ref[c] > Len(store.elems))
            /\ entry' = [entry EXCEPT ![c] = store.elems[ref[c]]]
  BY DEF LookupRefInStore, Goto, pageVars
<1>4. now \in Starts
  BY RefAssumption DEF Starts, Shape, TypeOK
<1>5. /\ start' \in [Callers -> Starts] /\ start'[c] = now
      /\ \A u \in Callers \ {c} : start'[u] = start[u]
  BY <1>3, <1>4 DEF Shape, TypeOK
<1>6. /\ pc' \in [Callers -> Steps] /\ pc'[c] \in {"fresh", "verify"}
      /\ \A u \in Callers \ {c} : pc'[u] = pc[u]
  BY <1>3 DEF Shape, TypeOK, Steps
<1>7. /\ entry' \in [Callers -> Entries \cup {NoEntry}]
      /\ \A u \in Callers \ {c} : entry'[u] = entry[u]
      /\ pc'[c] = "verify" => ref[c] \in DOMAIN store.elems /\ entry'[c] = store.elems[ref[c]]
      /\ pc'[c] = "fresh" => ref[c] \notin DOMAIN store.elems
  <2>1. CASE ref[c] > Len(store.elems)
    BY <1>2, <1>3, <2>1 DEF Shape, TypeOK
  <2>2. CASE ~(ref[c] > Len(store.elems))
    <3>1. ref[c] \in DOMAIN store.elems
      BY <1>2, <2>2
    <3>2. store.elems[ref[c]] \in Entries
      BY <1>2, <3>1
    <3>3. QED
      BY <1>3, <2>2, <3>1, <3>2 DEF Shape, TypeOK
  <2>3. QED
    BY <2>1, <2>2
<1>8. Shape'
  <2>1. pc'[c] # "act"
    BY <1>6
  <2>2. QED
    BY <1>3, <1>5, <1>6, <1>7, <2>1, StillShape DEF Shape, TypeOK
<1>9. ClientInv(c)'
  <2>1. Current(snap[c])' /\ Current(listing[c])'
    BY <1>3 DEF RefInv, ClientInv, Current
  <2>2. listing[c].epoch <= epoch
    BY ClientShape
  <2>3. Before(c)' = store.elems /\ start'[c].epoch = epoch
    BY <1>5 DEF Before
  <2>4. Request(c)'
    BY <1>2, <1>3, <1>6, <1>7, <2>2, <2>3 DEF Request, Resolving, LookedUp, Stored
  <2>5. Verified(c)' /\ Settled(c)'
    BY <1>6 DEF Verified, Settled, Hits
  <2>6. QED
    BY <2>1, <2>4, <2>5 DEF ClientInv
<1>10. Apart(c)
  BY <1>3, <1>5, <1>6, <1>7 DEF Apart
<1>11. QED
  BY <1>3, <1>8, <1>9, <1>10, OthersKeep

(* An action settles on a selector: what changes, and what is left to show *)
(* is that the node it gives is the one the client meant.                  *)
LEMMA SettleStep ==
  ASSUME Shape, RefInv, NEW c \in Callers, NEW s \in Slots, Settle(c, s),
         UNCHANGED <<dom, epoch, document, loading>>, store' \in Snapshots,
         failed' \in [Callers -> BOOLEAN],
         \A u \in Callers \ {c} : failed'[u] = failed[u],
         pc[c] \in LookedUp,
         s \in DOMAIN dom /\ Quiet(c) /\ ~failed'[c] =>
             /\ Before(c) = listing[c].elems => Ident[dom[s]] = Ident[Meant(c)]
             /\ epoch = listing[c].epoch /\ FromThisPage(c) => dom[s] = Meant(c)
  PROVE  Shape' /\ RefInv'
<1>1. /\ UNCHANGED <<snap, ref, entry, listing, start>>
      /\ pc' = [pc EXCEPT ![c] = "act"] /\ slot' = [slot EXCEPT ![c] = s]
  BY DEF Settle, Goto
<1>2. /\ pc' \in [Callers -> Steps] /\ pc'[c] = "act" /\ slot' \in [Callers -> Slots \cup {None}]
      /\ slot'[c] = s
      /\ \A u \in Callers \ {c} : pc'[u] = pc[u] /\ slot'[u] = slot[u]
  BY <1>1 DEF Shape, TypeOK, Steps
<1>3. Shape'
  <2>1. loading' \in BOOLEAN
    BY DEF Shape, TypeOK
  <2>2. QED
    BY <1>1, <1>2, <2>1, StillShape DEF Shape, TypeOK
<1>4. ClientInv(c)'
  <2>1. Current(snap[c])' /\ Current(listing[c])'
    BY <1>1 DEF RefInv, ClientInv, Current
  <2>2. Request(c)
    BY DEF RefInv, ClientInv
  <2>3. Request(c)'
    BY <1>1, <1>2, <2>2 DEF Request, Resolving, LookedUp, Stored
  <2>4. Verified(c)'
    BY <1>2 DEF Verified
  <2>5. /\ Before(c)' = Before(c) /\ Quiet(c)' = Quiet(c) /\ Meant(c)' = Meant(c)
        /\ FromThisPage(c)' = FromThisPage(c)
    BY <1>1 DEF Before, Quiet, Meant, FromThisPage
  <2>6. Settled(c)'
    BY <1>1, <1>2, <2>5 DEF Settled, Hits
  <2>7. QED
    BY <2>1, <2>3, <2>4, <2>6 DEF ClientInv
<1>5. Apart(c)
  BY <1>1, <1>2 DEF Apart
<1>6. QED
  BY <1>3, <1>4, <1>5, OthersKeep

(* On a page as it was listed, a store from this page is the listing.      *)
LEMMA ListedHere ==
  ASSUME Shape, RefInv, NEW c \in Callers, pc[c] \in Resolving, epoch = listing[c].epoch
  PROVE  /\ listing[c].elems = Elements(dom) /\ ref[c] \in DOMAIN Elements(dom)
         /\ Meant(c) = Elements(dom)[ref[c]].node
         /\ FromThisPage(c) /\ ref[c] \in DOMAIN Before(c) => Before(c) = Elements(dom)
<1>1. ref[c] \in DOMAIN listing[c].elems /\ Current(listing[c])
  BY DEF RefInv, ClientInv, Request
<1>2. listing[c].elems = Elements(dom)
  BY <1>1, ClientShape, CurrentNames
<1>3. ref[c] \in DOMAIN Before(c) => Before(c) # <<>>
  BY EmptySeq
<1>4. QED
  BY <1>1, <1>2, <1>3 DEF Meant, FromThisPage, Before

(* The rank in a fresh enumeration, when the store had nothing there: the  *)
(* store was not the listing, and on a quiet page the enumeration is.      *)
LEMMA FreshStoreStep ==
  ASSUME Shape, RefInv, NEW c \in Callers, FreshStore(c)
  PROVE  Shape' /\ RefInv'
<1>1. UNCHANGED <<dom, epoch, document, loading>> /\ loading' \in BOOLEAN
  BY DEF FreshStore, Replace, pageVars, Shape, TypeOK
<1>2. pc[c] \in {"fresh", "freshStore"} /\ store' \in {store, snap[c]}
  BY DEF FreshStore, Replace, EnumerateFails
<1>3. store' \in Snapshots
  BY <1>2 DEF Shape, TypeOK
<1>4. CASE Done(c) /\ UNCHANGED listing
  BY <1>1, <1>3, <1>4, Finished
<1>5. CASE /\ Replace(c, "freshStore") /\ ~(ref[c] > Len(snap[c].elems))
           /\ Settle(c, snap[c].elems[ref[c]].slot) /\ UNCHANGED failed
  <2> DEFINE s == snap[c].elems[ref[c]].slot
  <2>1. pc[c] = "freshStore" /\ Request(c) /\ Current(snap[c])
    BY <1>5 DEF Replace, RefInv, ClientInv
  <2>2. /\ ref[c] \in Nat /\ ref[c] >= 1 /\ snap[c].elems \in Seq(Entries)
        /\ ref[c] \in DOMAIN listing[c].elems /\ ref[c] \notin DOMAIN Before(c)
        /\ start[c].epoch <= snap[c].epoch
    BY <2>1, RefOfListing, ClientShape DEF Request, Resolving
  <2>3. ref[c] \in DOMAIN snap[c].elems
    BY <1>5, <2>2
  <2>4. s \in Slots
    <3>1. snap[c].elems[ref[c]] \in Entries
      BY <2>2, <2>3
    <3>2. QED
      BY <3>1 DEF Entries
  <2>5. ASSUME s \in DOMAIN dom, Quiet(c), ~failed'[c]
        PROVE  /\ Before(c) = listing[c].elems => Ident[dom[s]] = Ident[Meant(c)]
               /\ epoch = listing[c].epoch /\ FromThisPage(c) => dom[s] = Meant(c)
    <3>1. snap[c].epoch = epoch
      BY <2>2, <2>5, ClientShape DEF Quiet
    <3>2. snap[c].elems = Elements(dom) /\ dom[s] = snap[c].elems[ref[c]].node
      BY <2>1, <2>3, <3>1, ClientShape, CurrentNames
    <3>3. Before(c) # listing[c].elems
      BY <2>2
    <3>4. epoch = listing[c].epoch => Meant(c) = Elements(dom)[ref[c]].node
      BY <2>1, ListedHere DEF Resolving
    <3>5. QED
      BY <3>2, <3>3, <3>4
  <2>6. /\ failed' \in [Callers -> BOOLEAN] /\ \A u \in Callers \ {c} : failed'[u] = failed[u]
    BY <1>5 DEF Shape, TypeOK
  <2>7. pc[c] \in LookedUp
    BY <2>1 DEF LookedUp, Resolving
  <2> HIDE DEF s
  <2>8. Settle(c, s)
    BY <1>5 DEF s
  <2>9. QED
    BY <1>1, <1>3, <2>4, <2>5, <2>6, <2>7, <2>8, SettleStep
<1>6. QED
  BY <1>4, <1>5 DEF FreshStore

(* The entry of the store, when the page still shows its identity at the   *)
(* recorded selector: on a page as it was listed, it is the listing's.     *)
LEMMA VerifyStep ==
  ASSUME Shape, RefInv, NEW c \in Callers, VerifyRefIdentity(c)
  PROVE  Shape' /\ RefInv'
<1>1. UNCHANGED <<dom, epoch, document, loading, store>> /\ loading' \in BOOLEAN
  BY DEF VerifyRefIdentity, pageVars, Shape, TypeOK
<1>2. pc[c] = "verify" /\ Request(c) /\ Current(listing[c]) /\ Current(snap[c])
  BY DEF VerifyRefIdentity, RefInv, ClientInv
<1>3. /\ Before(c) \in Seq(Entries) /\ ref[c] \in DOMAIN Before(c)
      /\ entry[c] = Before(c)[ref[c]] /\ entry[c].slot \in Slots
  BY <1>2, EntryStored DEF Stored
<1>4. CASE /\ Matches(entry[c].slot, entry[c].node)
           /\ Settle(c, entry[c].slot) /\ UNCHANGED failed
  <2>1. ASSUME Quiet(c)
        PROVE  /\ Before(c) = listing[c].elems => Ident[dom[entry[c].slot]] = Ident[Meant(c)]
               /\ epoch = listing[c].epoch /\ FromThisPage(c) => dom[entry[c].slot] = Meant(c)
    <3>1. Before(c) = listing[c].elems => Ident[dom[entry[c].slot]] = Ident[Meant(c)]
      BY <1>3, <1>4 DEF Matches, Meant
    <3>2. ASSUME epoch = listing[c].epoch, FromThisPage(c)
          PROVE  dom[entry[c].slot] = Meant(c)
      <4>1. Before(c) = Elements(dom) /\ Meant(c) = Elements(dom)[ref[c]].node
        BY <1>2, <1>3, <3>2, ListedHere DEF Resolving
      <4>2. QED
        BY <1>3, <4>1, ClientShape, Enumeration
    <3>3. QED
      BY <3>1, <3>2
  <2>2. /\ failed' \in [Callers -> BOOLEAN] /\ \A u \in Callers \ {c} : failed'[u] = failed[u]
    BY <1>4 DEF Shape, TypeOK
  <2>3. pc[c] \in LookedUp /\ store' \in Snapshots
    BY <1>1, <1>2 DEF LookedUp, Resolving, Shape, TypeOK
  <2>4. QED
    BY <1>1, <1>3, <1>4, <2>1, <2>2, <2>3, SettleStep
<1>5. CASE /\ ~Matches(entry[c].slot, entry[c].node) \/ loading
           /\ Goto(c, "retarget") /\ failed' = [failed EXCEPT ![c] = loading]
           /\ UNCHANGED <<snap, ref, entry, slot, listing, start>>
  <2>1. /\ pc' \in [Callers -> Steps] /\ pc'[c] = "retarget"
        /\ \A u \in Callers \ {c} : pc'[u] = pc[u]
    BY <1>5 DEF Goto, Shape, TypeOK, Steps
  <2>2. /\ failed' \in [Callers -> BOOLEAN] /\ failed'[c] = loading
        /\ \A u \in Callers \ {c} : failed'[u] = failed[u]
    BY <1>5 DEF Shape, TypeOK
  <2>3. Shape'
    <3>1. pc'[c] # "act"
      BY <2>1
    <3>2. QED
      BY <1>1, <1>5, <2>1, <2>2, <3>1, StillShape DEF Shape, TypeOK
  <2>4. Current(snap[c])' /\ Current(listing[c])'
    BY <1>1, <1>2, <1>5 DEF Current
  <2>5. Request(c)'
    BY <1>2, <1>5, <2>1 DEF Request, Resolving, LookedUp, Stored, Before
  <2>6. Verified(c)'
    BY <1>1, <1>5, <2>2 DEF Verified, Matches
  <2>7. Settled(c)'
    BY <2>1 DEF Settled, Hits
  <2>8. ClientInv(c)'
    BY <2>4, <2>5, <2>6, <2>7 DEF ClientInv
  <2>9. Apart(c)
    BY <1>5, <2>1, <2>2 DEF Apart
  <2>10. QED
    BY <1>1, <2>3, <2>8, <2>9, OthersKeep
<1>6. QED
  BY <1>4, <1>5 DEF VerifyRefIdentity

(* The first element with the identity, of an enumeration made since: on a *)
(* quiet page it is there, and had the page been as it was listed, the     *)
(* recorded selector would have kept the identity.                         *)
LEMMA RetargetStoreStep ==
  ASSUME Shape, RefInv, NEW c \in Callers, RetargetStore(c)
  PROVE  Shape' /\ RefInv'
<1>1. /\ UNCHANGED <<dom, epoch, document, loading>> /\ loading' \in BOOLEAN
      /\ pc[c] = "retargetStore" /\ store' = snap[c]
  BY DEF RetargetStore, Replace, pageVars, Shape, TypeOK
<1>2. Request(c) /\ Current(snap[c]) /\ Verified(c)
  BY DEF RefInv, ClientInv
<1>3. store' \in Snapshots /\ snap[c].elems \in Seq(Entries)
  BY <1>1, ClientShape
<1>4. /\ Before(c) \in Seq(Entries) /\ ref[c] \in DOMAIN Before(c)
      /\ entry[c] = Before(c)[ref[c]]
  BY <1>1, <1>2, EntryStored DEF Stored
<1>5. CASE Done(c) /\ Shown(c)
  BY <1>1, <1>3, <1>5, Finished DEF Shown
<1>6. ASSUME NEW k \in Survivors(c), Settle(c, snap[c].elems[k].slot), UNCHANGED failed
      PROVE  Shape' /\ RefInv'
  <2> DEFINE s == snap[c].elems[k].slot
  <2>1. k \in DOMAIN snap[c].elems /\ Ident[snap[c].elems[k].node] = Ident[entry[c].node]
    BY <1>6 DEF Survivors
  <2>2. s \in Slots
    <3>1. snap[c].elems[k] \in Entries
      BY <1>3, <2>1
    <3>2. QED
      BY <3>1 DEF Entries
  <2>3. ASSUME s \in DOMAIN dom, Quiet(c), ~failed'[c]
        PROVE  /\ Before(c) = listing[c].elems => Ident[dom[s]] = Ident[Meant(c)]
               /\ epoch = listing[c].epoch /\ FromThisPage(c) => dom[s] = Meant(c)
    <3>1. snap[c].epoch = epoch
      BY <1>1, <1>2, <2>3, ClientShape DEF Quiet, Request
    <3>2. dom[s] = snap[c].elems[k].node
      BY <1>2, <2>1, <3>1, ClientShape, CurrentNames
    <3>3. Before(c) = listing[c].elems => Ident[dom[s]] = Ident[Meant(c)]
      BY <1>4, <2>1, <3>2 DEF Meant
    <3>4. ~(epoch = listing[c].epoch /\ FromThisPage(c))
      <4>1. SUFFICES ASSUME epoch = listing[c].epoch, FromThisPage(c) PROVE FALSE
        OBVIOUS
      <4>2. Before(c) = Elements(dom)
        BY <1>1, <1>4, <4>1, ListedHere DEF Resolving
      <4>3. Matches(entry[c].slot, entry[c].node)
        BY <1>4, <4>2, ClientShape, Enumeration DEF Matches
      <4>4. ~failed[c]
        BY <1>6, <2>3
      <4>5. QED
        BY <1>1, <1>2, <2>3, <4>3, <4>4 DEF Verified
    <3>5. QED
      BY <3>3, <3>4
  <2>4. /\ failed' \in [Callers -> BOOLEAN] /\ \A u \in Callers \ {c} : failed'[u] = failed[u]
    BY <1>6 DEF Shape, TypeOK
  <2>5. pc[c] \in LookedUp
    BY <1>1 DEF LookedUp, Resolving
  <2> HIDE DEF s
  <2>6. Settle(c, s)
    BY <1>6 DEF s
  <2>7. QED
    BY <1>1, <1>3, <2>2, <2>3, <2>4, <2>5, <2>6, SettleStep
<1>7. QED
  BY <1>5, <1>6 DEF RetargetStore

(* A failed enumeration: the recorded selector, and the failure on record. *)
LEMMA RetargetFailsStep ==
  ASSUME Shape, RefInv, NEW c \in Callers, RetargetFails(c)
  PROVE  Shape' /\ RefInv'
<1>1. /\ UNCHANGED <<dom, epoch, document, loading, store>> /\ loading' \in BOOLEAN
      /\ pc[c] = "retarget" /\ Settle(c, entry[c].slot)
      /\ failed' = [failed EXCEPT ![c] = TRUE]
  BY DEF RetargetFails, EnumerateFails, pageVars, Shape, TypeOK
<1>2. entry[c].slot \in Slots
  BY <1>1, EntryStored DEF RefInv, ClientInv, Stored
<1>3. /\ failed' \in [Callers -> BOOLEAN] /\ failed'[c]
      /\ \A u \in Callers \ {c} : failed'[u] = failed[u]
  BY <1>1 DEF Shape, TypeOK
<1>4. pc[c] \in LookedUp /\ store' \in Snapshots
  BY <1>1 DEF LookedUp, Resolving, Shape, TypeOK
<1>5. QED
  BY <1>1, <1>2, <1>3, <1>4, SettleStep

(* The action, done or turned to candidates.                               *)
LEMMA ActStep ==
  ASSUME Shape, RefInv, NEW c \in Callers, Act(c)
  PROVE  Shape' /\ RefInv'
<1>1. /\ UNCHANGED <<dom, epoch, document, loading, store, listing>> /\ loading' \in BOOLEAN
      /\ store' \in Snapshots
  BY DEF Act, pageVars, Shape, TypeOK
<1>2. CASE Done(c)
  BY <1>1, <1>2, Finished
<1>3. CASE Goto(c, "miss") /\ UNCHANGED <<snap, ref, entry, slot, historyVars>>
  <2>1. /\ pc' \in [Callers -> Steps] /\ pc'[c] = "miss"
        /\ \A u \in Callers \ {c} : pc'[u] = pc[u]
    BY <1>3 DEF Goto, Shape, TypeOK, Steps
  <2>2. UNCHANGED <<snap, ref, entry, slot, start, failed>>
    BY <1>3 DEF historyVars
  <2>3. Shape'
    <3>1. pc'[c] # "act"
      BY <2>1
    <3>2. QED
      BY <1>1, <2>1, <2>2, <3>1, StillShape DEF Shape, TypeOK
  <2>4. Current(snap[c])' /\ Current(listing[c])'
    BY <1>1, <2>2 DEF RefInv, ClientInv, Current
  <2>5. ClientInv(c)'
    BY <2>1, <2>4, Resting DEF Resolving
  <2>6. Apart(c)
    BY <1>1, <2>1, <2>2 DEF Apart
  <2>7. QED
    BY <1>1, <2>3, <2>5, <2>6, OthersKeep
<1>4. QED
  BY <1>2, <1>3 DEF Act

(* A change of the page puts every request and every listing in the past.  *)
LEMMA MovedInv ==
  ASSUME Shape, RefInv, PageChanges \/ PageNavigates \/ \E c \in Callers : NavigateLoaded(c)
  PROVE  RefInv'
<1>1. /\ epoch \in Nat /\ epoch' = epoch + 1
      /\ UNCHANGED <<snap, ref, entry, listing, start, failed>>
      /\ \A u \in Callers : pc'[u] = pc[u] \/ pc'[u] = "invalidate"
  BY RefAssumption DEF Shape, TypeOK, PageChanges, PageNavigates, NavigateLoaded, Goto, requestVars,
     historyVars
<1>2. ASSUME NEW u \in Callers PROVE ClientInv(u)'
  <2>1. /\ snap'[u].epoch # epoch' /\ listing'[u].epoch # epoch' /\ start'[u].epoch # epoch'
    BY <1>1, ClientShape
  <2>2. Current(snap[u])' /\ Current(listing[u])'
    BY <2>1 DEF Current
  <2>3. Request(u)
    BY DEF RefInv, ClientInv
  <2>4. Request(u)'
    BY <1>1, <2>3 DEF Request, Resolving, LookedUp, Stored, Before
  <2>5. ~Quiet(u)'
    BY <2>1 DEF Quiet
  <2>6. QED
    BY <2>2, <2>4, <2>5 DEF ClientInv, Verified, Settled
<1>3. QED
  BY <1>2 DEF RefInv

-----------------------------------------------------------------------------
(* Refs keep their meaning.                                                *)

LEMMA Initially == Init => Shape /\ RefInv
<1> SUFFICES ASSUME Init PROVE RefInv
  BY InitShape
<1>1. ASSUME NEW c \in Callers PROVE ClientInv(c)
  <2>1. pc[c] = "idle" /\ snap[c] = Nothing /\ listing[c] = Nothing
    BY DEF Init
  <2>2. Current(snap[c]) /\ Current(listing[c])
    BY <2>1 DEF Current, Nothing
  <2>3. Request(c) /\ Verified(c) /\ Settled(c)
    BY <2>1 DEF Request, Resolving, LookedUp, Stored, Verified, Settled, Hits
  <2>4. QED
    BY <2>2, <2>3 DEF ClientInv
<1>2. QED
  BY <1>1 DEF RefInv

LEMMA EveryStep ==
  ASSUME Shape, RefInv, [Next]_vars
  PROVE  Shape' /\ RefInv'
<1>1. CASE PageChanges \/ PageNavigates \/ \E c \in Callers : NavigateLoaded(c)
  BY <1>1, MovedShape, MovedInv
<1>2. ASSUME NEW c \in Callers,
             \/ ElementsRequest(c) \/ ElementsEval(c) \/ ElementsReply(c)
             \/ ActionRequest(c) \/ LookupRefInStore(c) \/ FreshEval(c) \/ FreshStore(c)
             \/ VerifyRefIdentity(c) \/ RetargetEval(c) \/ RetargetStore(c) \/ RetargetFails(c)
             \/ Act(c) \/ CandidatesEval(c) \/ CandidatesReply(c)
             \/ NavigateRequest(c) \/ InvalidateElementRefs(c)
      PROVE  Shape' /\ RefInv'
  <2>1. CASE ElementsRequest(c) \/ NavigateRequest(c)
    BY <2>1, RequestStep
  <2>2. CASE ElementsEval(c) \/ FreshEval(c) \/ RetargetEval(c) \/ CandidatesEval(c)
    BY <2>2, EvalStep
  <2>3. CASE ElementsReply(c) \/ CandidatesReply(c) \/ InvalidateElementRefs(c)
    BY <2>3, ReplyStep
  <2>4. QED
    BY <1>2, <2>1, <2>2, <2>3, ActionRequestStep, LookupStep, FreshStoreStep, VerifyStep,
       RetargetStoreStep, RetargetFailsStep, ActStep
<1>3. CASE UNCHANGED vars
  <2>1. /\ UNCHANGED <<dom, epoch, document, loading, store, pc, snap, ref, entry, slot>>
        /\ UNCHANGED <<listing, start, failed>>
    BY <1>3 DEF vars, pageVars, requestVars, historyVars
  <2>2. Shape'
    <3>1. Snapshots' = Snapshots /\ Starts' = Starts
      BY <2>1, StillTypes
    <3>2. QED
      BY <2>1, <3>1 DEF Shape, TypeOK
  <2>3. RefInv'
    <3>1. CASE Callers = {}
      BY <3>1 DEF RefInv
    <3>2. ASSUME NEW c \in Callers PROVE RefInv'
      <4>1. Current(snap[c])' /\ Current(listing[c])'
        BY <2>1 DEF RefInv, ClientInv, Current
      <4>2. ClientInv(c)
        BY DEF RefInv
      <4>3. Before(c)' = Before(c) /\ Quiet(c)' = Quiet(c) /\ Hits(c)' = Hits(c)
            /\ Meant(c)' = Meant(c) /\ FromThisPage(c)' = FromThisPage(c)
        BY <2>1 DEF Before, Quiet, Hits, Meant, FromThisPage
      <4>4. Request(c)'
        BY <2>1, <4>2, <4>3 DEF ClientInv, Request
      <4>5. Verified(c)' /\ Settled(c)'
        BY <2>1, <4>2, <4>3 DEF ClientInv, Verified, Settled, Matches
      <4>6. ClientInv(c)'
        BY <4>1, <4>4, <4>5 DEF ClientInv
      <4>7. QED
        BY <2>1, <4>6, OthersKeep DEF Apart
    <3>3. QED
      BY <3>1, <3>2
  <2>4. QED
    BY <2>2, <2>3
<1>4. QED
  BY <1>1, <1>2, <1>3 DEF Next

LEMMA Always == Spec => [](Shape /\ RefInv)
<1>1. Init => Shape /\ RefInv
  BY Initially
<1>2. Shape /\ RefInv /\ [Next]_vars => (Shape /\ RefInv)'
  BY EveryStep
<1>3. QED
  BY <1>1, <1>2, PTL DEF Spec

(* Every enumeration in the store, in a listing or on its way to either    *)
(* pairs selectors with nodes, and an action that has settled has settled  *)
(* on a selector: resolveElementTarget (routes_interaction.go:26) never    *)
(* hands findElement an empty one.                                         *)
THEOREM TypeCorrect == Spec => []TypeOK
<1>1. Shape => TypeOK
  BY DEF Shape
<1>2. QED
  BY <1>1, Always, PTL

(* A ref looked up in the listing the client was shown hits an element     *)
(* with the identity it was shown, or nothing, on a page that keeps still  *)
(* from the lookup to the action, when no eval failed: verifyRefIdentity   *)
(* (elements.go) for any page, any twins, and any other clients'           *)
(* enumerations replacing the store in between.                            *)
THEOREM RefKeepsIdentityHolds == Spec => []RefKeepsIdentity
<1>1. RefInv => RefKeepsIdentity
  BY DEF RefInv, ClientInv, Settled, RefKeepsIdentity, Before
<1>2. QED
  BY <1>1, Always, PTL

(* On a page unchanged since the listing was made, a ref hits the very     *)
(* element listed, whichever way resolveElementTarget                      *)
(* (routes_interaction.go:26) takes to it, unless the store held an        *)
(* enumeration of an older page.                                           *)
THEOREM RefStableWhileQuietHolds == Spec => []RefStableWhileQuiet
<1>1. ASSUME Shape, RefInv PROVE RefStableWhileQuiet
  <2>1. SUFFICES ASSUME NEW c \in Callers, Hits(c), epoch = listing[c].epoch, ~failed[c],
                        FromThisPage(c)
                 PROVE  dom[slot[c]] = Meant(c)
    BY DEF RefStableWhileQuiet
  <2>2. Request(c) /\ Settled(c) /\ pc[c] = "act"
    BY <1>1, <2>1 DEF RefInv, ClientInv, Hits
  <2>3. Quiet(c)
    BY <1>1, <2>1, <2>2, ClientShape DEF Request, LookedUp, Resolving, Quiet
  <2>4. QED
    BY <2>1, <2>2, <2>3 DEF Settled
<1>2. QED
  BY <1>1, Always, PTL

=============================================================================
