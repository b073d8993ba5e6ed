---------------------------- MODULE EvidenceProofs ----------------------------
(* Proofs about Evidence, for any pages, requests and file names, and any  *)
(* length of the two tables.                                               *)
EXTENDS Evidence, SequenceTheorems, FiniteSetTheorems, TLAPS

-----------------------------------------------------------------------------
(* Sequences thinned out to some positions.                                *)

LEMMA UpTo ==
  ASSUME NEW n \in Nat
  PROVE  IsFiniteSet(1 .. n) /\ Cardinality(1 .. n) = n
<1>1. 1 \in Int /\ n \in Int
  OBVIOUS
<1>2. IsFiniteSet(1 .. n) /\ Cardinality(1 .. n) = IF 1 > n THEN 0 ELSE n - 1 + 1
  BY <1>1, FS_Interval
<1>3. QED
  BY <1>2

(* Ranks number a finite set of positions without gaps: one each.          *)
LEMMA Ranks ==
  ASSUME NEW K \in SUBSET Nat, IsFiniteSet(K)
  PROVE  /\ Cardinality(K) \in Nat
         /\ \A i \in K : Cardinality({j \in K : j <= i}) \in 1 .. Cardinality(K)
         /\ \A i, j \in K : i < j => Cardinality({l \in K : l <= i}) < Cardinality({l \in K : l <= j})
         /\ \A k \in 1 .. Cardinality(K) : \E i \in K : Cardinality({j \in K : j <= i}) = k
<1> DEFINE n == Cardinality(K)
           Upto(i) == {j \in K : j <= i}
           f == [i \in K |-> Cardinality(Upto(i))]
<1>1. n \in Nat /\ K \subseteq Nat
  BY FS_CardinalityType
<1>2. ASSUME NEW i \in K
      PROVE  IsFiniteSet(Upto(i)) /\ Cardinality(Upto(i)) \in Nat /\ Cardinality(Upto(i)) <= n
  <2>1. Upto(i) \subseteq K
    OBVIOUS
  <2>2. IsFiniteSet(Upto(i)) /\ Cardinality(Upto(i)) <= n
    BY <2>1, FS_Subset
  <2>3. QED
    BY <2>2, FS_CardinalityType
<1>3. ASSUME NEW i \in K PROVE Cardinality(Upto(i)) \in 1 .. n
  <2>1. i \in Upto(i)
    BY <1>1
  <2>2. Cardinality(Upto(i)) # 0
    BY <1>2, <2>1, FS_EmptySet
  <2>3. QED
    BY <1>1, <1>2, <2>2
<1>4. ASSUME NEW i \in K, NEW j \in K, i < j
      PROVE  Cardinality(Upto(i)) < Cardinality(Upto(j))
  <2>1. Upto(i) \subseteq Upto(j) /\ j \in Upto(j) /\ j \notin Upto(i)
    <3>1. i \in Nat /\ j \in Nat
      BY <1>1
    <3>2. \A l \in Nat : l <= i => l <= j
      BY <1>4, <3>1
    <3>3. ~(j <= i) /\ j <= j
      BY <1>4, <3>1
    <3>4. QED
      BY <1>1, <3>2, <3>3
  <2>2. Upto(i) \in SUBSET Upto(j) /\ Upto(i) # Upto(j)
    BY <2>1
  <2> HIDE DEF Upto
  <2>3. /\ Cardinality(Upto(i)) <= Cardinality(Upto(j))
        /\ Cardinality(Upto(i)) # Cardinality(Upto(j))
    BY <1>2, <2>2, FS_Subset
  <2>4. QED
    BY <1>2, <2>3
<1>5. f \in Injection(K, 1 .. n)
  <2>1. f \in [K -> 1 .. n]
    BY <1>3
  <2>2. ASSUME NEW i \in K, NEW j \in K, i # j PROVE f[i] # f[j]
    <3>1. i < j \/ j < i
      BY <2>2
    <3>2. f[i] < f[j] \/ f[j] < f[i]
      BY <1>4, <3>1
    <3>3. f[i] \in Nat /\ f[j] \in Nat
      BY <1>3, <1>1
    <3>4. QED
      BY <3>2, <3>3
  <2>3. QED
    BY <2>1, <2>2 DEF Injection, IsInjective
<1>6. IsFiniteSet(1 .. n) /\ Cardinality(1 .. n) = n
  BY <1>1, UpTo
<1>7. \A k \in 1 .. n : \E i \in K : Cardinality(Upto(i)) = k
  <2> HIDE DEF f, n
  <2>1. f \in Surjection(K, 1 .. n)
    BY <1>5, <1>6, FS_Injection DEF n
  <2>2. ASSUME NEW k \in 1 .. n PROVE \E i \in K : f[i] = k
    BY <2>1 DEF Surjection
  <2>3. QED
    BY <2>2 DEF f
<1>8. QED
  BY <1>1, <1>3, <1>4, <1>7

(* What Kept gives: the elements at the positions, each position once.     *)
LEMMA KeptElements ==
  ASSUME NEW S, NEW s \in Seq(S), NEW K \in SUBSET DOMAIN s
  PROVE  /\ Kept(s, K) \in Seq(S) /\ Len(Kept(s, K)) = Cardinality(K) /\ Len(Kept(s, K)) <= Len(s)
         /\ \A i \in K : \E k \in DOMAIN Kept(s, K) : Kept(s, K)[k] = s[i]
         /\ \A k \in DOMAIN Kept(s, K) : \E i \in K : Kept(s, K)[k] = s[i]
         /\ \E from \in [DOMAIN Kept(s, K) -> K] :
                /\ \A k \in DOMAIN Kept(s, K) : Kept(s, K)[k] = s[from[k]]
                /\ \A k, l \in DOMAIN Kept(s, K) : from[k] = from[l] => k = l
<1> DEFINE n == Cardinality(K)
           rank(i) == Cardinality({j \in K : j <= i})
           pos == [k \in 1 .. n |-> CHOOSE i \in K : rank(i) = k]
<1>1. /\ DOMAIN s = 1 .. Len(s) /\ Len(s) \in Nat /\ K \subseteq Nat
  OBVIOUS
<1>2. IsFiniteSet(DOMAIN s) /\ Cardinality(DOMAIN s) = Len(s)
  BY <1>1, UpTo
<1>3. IsFiniteSet(K) /\ n <= Len(s)
  BY <1>2, FS_Subset
<1>4. /\ n \in Nat /\ \A i \in K : rank(i) \in 1 .. n
      /\ \A k \in 1 .. n : \E i \in K : rank(i) = k
      /\ \A i, j \in K : i < j => rank(i) < rank(j)
  BY <1>1, <1>3, Ranks
<1> HIDE DEF n, rank
<1>5. \A k \in 1 .. n : pos[k] \in K /\ rank(pos[k]) = k
  BY <1>4
<1>6. Kept(s, K) = [k \in 1 .. n |-> s[pos[k]]]
  BY DEF Kept, n, rank, pos
<1>7. pos \in [1 .. n -> K]
  BY <1>5
<1> HIDE DEF pos
<1>8. DOMAIN Kept(s, K) = 1 .. n /\ \A k \in 1 .. n : Kept(s, K)[k] = s[pos[k]]
  BY <1>6
<1>9. Kept(s, K) \in [1 .. n -> S]
  BY <1>1, <1>5, <1>6
<1>10. Kept(s, K) \in Seq(S) /\ Len(Kept(s, K)) = n
  BY <1>4, <1>9, <1>8, SeqDef, LenProperties
<1>11. ASSUME NEW i \in K PROVE \E k \in 1 .. n : Kept(s, K)[k] = s[i]
  <2>1. rank(i) \in 1 .. n
    BY <1>4
  <2>2. pos[rank(i)] \in K /\ rank(pos[rank(i)]) = rank(i)
    BY <1>5, <2>1
  <2>3. pos[rank(i)] = i
    <3>1. rank(i) \in Int
      BY <1>4, <2>1
    <3>2. ~(pos[rank(i)] < i) /\ ~(i < pos[rank(i)])
      BY <1>4, <2>2, <3>1
    <3>3. pos[rank(i)] \in Nat /\ i \in Nat
      BY <1>1, <2>2
    <3>4. QED
      BY <3>2, <3>3
  <2>4. QED
    BY <1>8, <2>1, <2>3
<1>12. \A k, l \in 1 .. n : pos[k] = pos[l] => k = l
  BY <1>5
<1>13. QED
  BY <1>3, <1>7, <1>8, <1>10, <1>11, <1>12 DEF n

-----------------------------------------------------------------------------
(* Types.                                                                  *)

Reports == [id : Dialogs, page : Pages, accepted : Policies]
Entries == [guid : GUIDs, name : Names, ts : Nat, state : {"inProgress", "completed", "canceled"},
            path : Names \cup GUIDs \cup {0}]
Receipts == [page : Pages, dialogs : Seq(Reports), downloads : Seq(Entries)]
Settling == [step : {"settle"}, page : Pages, startTS : Nat]
Reporting == [step : {"downloads"}, page : Pages, startTS : Nat, dialogs : Seq(Reports)]
Answers == [dialog : Dialogs, accept : Policies]
Announced == [type : {"begin", "completed", "canceled"}, guid : GUIDs]

DialogTypes ==
    /\ policy \in Policies /\ opened \in 0 .. MaxEffects
    /\ showing \in [Pages -> 0 .. opened]
    /\ answered \in [Dialogs -> Policies \cup {"open"}]
    /\ listener \in [Pages -> Answers \cup {Quiet}]
    /\ dialogLog \in Seq(Reports) /\ Len(dialogLog) <= DialogLogCap
    /\ forgotten \subseteq Dialogs /\ missed \subseteq Dialogs /\ injecting \in Seq(Pages)

RequestTypes ==
    /\ at \in [Handlers -> Settling \cup Reporting \cup {Idle}]
    /\ seen \in [Handlers -> SUBSET GUIDs]
    /\ receipts \in Seq(Receipts) /\ clock \in Nat

DownloadTypes ==
    /\ begun \in 0 .. MaxEffects
    /\ named \in [GUIDs -> Names \cup {"none"}] /\ \A g \in 1 .. begun : named[g] \in Names
    /\ fate \in [GUIDs -> {"unborn", "inProgress", "completed", "canceled"}]
    /\ \A g \in GUIDs : fate[g] = "unborn" <=> g > begun
    /\ events \in Seq(Announced) /\ \A i \in DOMAIN events : events[i].guid <= begun
    /\ downloads \in Seq(Entries) /\ Len(downloads) <= DownloadsCap
    /\ disk \in [DOMAIN disk -> GUIDs] /\ DOMAIN disk \subseteq Names \cup GUIDs

Shape == DialogTypes /\ RequestTypes /\ DownloadTypes

LEMMA InitShape == Init => Shape
<1> SUFFICES ASSUME Init PROVE Shape
  OBVIOUS
<1>1. DialogTypes
  BY EvidenceBounds, EmptySeq DEF Init, DialogTypes, Policies, Dialogs
<1>2. RequestTypes
  BY EmptySeq DEF Init, RequestTypes
<1>3. DownloadTypes
  <2>1. /\ begun \in 0 .. MaxEffects /\ named \in [GUIDs -> Names \cup {"none"}]
        /\ \A g \in 1 .. begun : named[g] \in Names
    BY EvidenceBounds DEF Init
  <2>2. /\ fate \in [GUIDs -> {"unborn", "inProgress", "completed", "canceled"}]
        /\ \A g \in GUIDs : fate[g] = "unborn" <=> g > begun
    BY EvidenceBounds DEF Init, GUIDs
  <2>3. /\ events \in Seq(Announced) /\ DOMAIN events = {} /\ downloads \in Seq(Entries)
        /\ Len(downloads) <= DownloadsCap
    BY EvidenceBounds, EmptySeq DEF Init
  <2>4. disk \in [DOMAIN disk -> GUIDs] /\ DOMAIN disk \subseteq Names \cup GUIDs
    BY DEF Init
  <2>5. QED
    BY <2>1, <2>2, <2>3, <2>4 DEF DownloadTypes
<1>4. QED
  BY <1>1, <1>2, <1>3 DEF Shape

(* What the dialog actions keep: the table of dialogs has room, and its    *)
(* entries are dialogs that were opened.                                   *)
LEMMA DialogOpensShape ==
  ASSUME Shape, NEW p \in Pages, DialogOpens(p)
  PROVE  DialogTypes'
<1>1. opened' = opened + 1 /\ opened + 1 \in 0 .. MaxEffects /\ opened \in Nat
  <2>1. opened \in Nat /\ begun \in Nat /\ opened + begun < MaxEffects
    BY EvidenceBounds DEF Shape, DialogTypes, DownloadTypes, DialogOpens
  <2>2. QED
    BY <2>1, EvidenceBounds DEF DialogOpens
<1>2. showing' \in [Pages -> 0 .. (opened + 1)]
  <2>1. showing \in [Pages -> 0 .. (opened + 1)] /\ opened + 1 \in 0 .. (opened + 1)
    BY <1>1 DEF Shape, DialogTypes
  <2>2. QED
    BY <2>1 DEF DialogOpens
<1>3. QED
  BY <1>1, <1>2 DEF DialogOpens, Shape, DialogTypes

(* The log after a dialog: the new entry last, what exceeds the cap gone.  *)
LEMMA LogCut ==
  ASSUME NEW log \in Seq(Reports), Len(log) >= 1
  PROVE  /\ Excess(log) \in 0 .. (Len(log) - 1)
         /\ Latest(log) \in Seq(Reports) /\ Len(Latest(log)) = Len(log) - Excess(log)
         /\ Len(Latest(log)) <= DialogLogCap
         /\ \A i \in 1 .. Len(Latest(log)) : Latest(log)[i] = log[i + Excess(log)]
<1> DEFINE n == Len(log)
           x == Excess(log)
<1>1. n \in Nat /\ n >= 1 /\ DialogLogCap \in Nat /\ DialogLogCap >= 1
  BY EvidenceBounds
<1>2. x \in 0 .. (n - 1) /\ n - x <= DialogLogCap
  BY <1>1 DEF Excess
<1> HIDE DEF x
<1>3. \A i \in (x + 1) .. n : log[i] \in Reports
  BY <1>1, <1>2
<1>4. /\ SubSeq(log, x + 1, n) \in Seq(Reports)
      /\ Len(SubSeq(log, x + 1, n)) = IF x + 1 <= n THEN n - (x + 1) + 1 ELSE 0
      /\ \A i \in 1 .. (n - (x + 1) + 1) : SubSeq(log, x + 1, n)[i] = log[x + 1 + i - 1]
  <2>1. x + 1 \in Int /\ n \in Int
    BY <1>1, <1>2
  <2>2. QED
    BY <1>3, <2>1, SubSeqProperties
<1>5. Latest(log) = SubSeq(log, x + 1, n)
  BY DEF Latest, x
<1>6. Len(Latest(log)) = n - x
  BY <1>1, <1>2, <1>4, <1>5
<1>7. \A i \in 1 .. (n - x) : Latest(log)[i] = log[i + x]
  <2>1. n - (x + 1) + 1 = n - x
    BY <1>1, <1>2
  <2>2. ASSUME NEW i \in 1 .. (n - x) PROVE x + 1 + i - 1 = i + x
    BY <1>1, <1>2
  <2>3. QED
    BY <1>4, <1>5, <2>1, <2>2
<1>8. QED
  BY <1>2, <1>4, <1>5, <1>6, <1>7 DEF x

LEMMA ListenerLogsShape ==
  ASSUME Shape, NEW p \in Pages, ListenerLogs(p)
  PROVE  /\ DialogTypes'
         /\ LET e == [id |-> showing[p], page |-> p, accepted |-> policy]
            IN  e \in Reports /\ dialogLog' = Latest(Append(dialogLog, e))
         /\ showing[p] \in Dialogs
<1> DEFINE e == [id |-> showing[p], page |-> p, accepted |-> policy]
           log == Append(dialogLog, e)
<1>1. /\ showing[p] \in Dialogs /\ policy \in Policies /\ dialogLog \in Seq(Reports)
      /\ opened \in 0 .. MaxEffects
  BY EvidenceBounds DEF Shape, DialogTypes, ListenerLogs, Dialogs
<1>2. e \in Reports
  BY <1>1 DEF Reports
<1> HIDE DEF e
<1>3. log \in Seq(Reports) /\ Len(log) >= 1
  BY <1>1, <1>2, AppendProperties
<1>4. /\ dialogLog' = Latest(log)
      /\ forgotten' = forgotten \cup {log[i].id : i \in 1 .. Excess(log)}
  BY DEF ListenerLogs, e
<1> HIDE DEF log
<1>5. dialogLog' \in Seq(Reports) /\ Len(dialogLog') <= DialogLogCap
  BY <1>3, <1>4, LogCut
<1>6. \A i \in 1 .. Excess(log) : log[i].id \in Dialogs
  <2>1. ASSUME NEW i \in 1 .. Excess(log) PROVE log[i] \in Reports
    BY <1>3, LogCut
  <2>2. QED
    BY <2>1 DEF Reports
<1>7. forgotten' \subseteq Dialogs
  BY <1>4, <1>6 DEF Shape, DialogTypes
<1>8. listener' \in [Pages -> Answers \cup {Quiet}]
  BY <1>1 DEF ListenerLogs, Shape, DialogTypes, Answers
<1>9. UNCHANGED <<policy, showing, opened, answered, missed, injecting>>
  BY DEF ListenerLogs
<1>10. DialogTypes'
  BY <1>5, <1>7, <1>8, <1>9 DEF Shape, DialogTypes
<1>11. QED
  BY <1>1, <1>2, <1>4, <1>10 DEF log, e

LEMMA ListenerAnswersShape ==
  ASSUME Shape, NEW p \in Pages, ListenerAnswers(p)
  PROVE  DialogTypes' /\ listener[p] \in Answers
<1>1. listener[p] \in Answers
  BY DEF Shape, DialogTypes, ListenerAnswers
<1>2. Answer(p) \in Policies /\ listener[p].dialog \in Dialogs
  BY <1>1 DEF Answers, Answer
<1>3. /\ answered' \in [Dialogs -> Policies \cup {"open"}]
      /\ listener' \in [Pages -> Answers \cup {Quiet}] /\ missed' \subseteq Dialogs
  BY <1>2 DEF Shape, DialogTypes, ListenerAnswers
<1>4. showing' \in [Pages -> 0 .. opened]
  <2>1. 0 \in 0 .. opened
    BY EvidenceBounds DEF Shape, DialogTypes
  <2>2. QED
    BY <2>1 DEF Shape, DialogTypes, ListenerAnswers
<1>5. QED
  BY <1>1, <1>3, <1>4 DEF Shape, DialogTypes, ListenerAnswers

(* An inject asks the pages in some order, and nothing but its own list    *)
(* changes.                                                                *)
LEMMA InjectShape ==
  ASSUME Shape, InjectLocks \/ InjectRegisters
  PROVE  /\ injecting' \in Seq(Pages)
         /\ UNCHANGED <<policy, showing, opened, answered, missed, listener, dialogLog,
                        downloadVars, clock, requestVars, forgotten>>
<1>1. CASE InjectLocks
  <2>1. PICK n \in 0 .. Cardinality(Pages) : injecting' \in [1 .. n -> Pages]
    BY <1>1, Zenon DEF InjectLocks, Orders, BoundedSeq, SeqOf
  <2>2. n \in Nat
    OBVIOUS
  <2>3. injecting' \in Seq(Pages)
    BY <2>1, <2>2, SeqDef
  <2>4. QED
    BY <1>1, <2>3 DEF InjectLocks
<1>2. CASE InjectRegisters
  <2>1. injecting \in Seq(Pages) /\ injecting # <<>>
    BY <1>2 DEF InjectRegisters, Unlocked, Shape, DialogTypes
  <2>2. Tail(injecting) \in Seq(Pages) /\ <<>> \in Seq(Pages)
    BY <2>1, HeadTailProperties, EmptySeq
  <2>3. QED
    BY <1>2, <2>2 DEF InjectRegisters
<1>3. QED
  BY <1>1, <1>2

(* What a request reports of the log is a part of it, and so is the rest.  *)
LEMMA LogParts ==
  ASSUME Shape, NEW p
  PROVE  /\ dialogsOf(p) \in Seq(Reports) /\ drainDialogsFor(p) \in Seq(Reports)
         /\ Len(drainDialogsFor(p)) <= DialogLogCap
<1>1. dialogLog \in Seq(Reports) /\ Len(dialogLog) \in Nat /\ Len(dialogLog) <= DialogLogCap
  BY DEF Shape, DialogTypes
<1>2. DialogLogCap \in Nat
  BY EvidenceBounds
<1>3. dialogsOf(p) \in Seq(Reports)
  BY <1>1, KeptElements DEF dialogsOf
<1>4. /\ drainDialogsFor(p) \in Seq(Reports) /\ Len(drainDialogsFor(p)) <= Len(dialogLog)
  BY <1>1, KeptElements DEF drainDialogsFor
<1>5. Len(drainDialogsFor(p)) \in Nat
  BY <1>4
<1>6. QED
  BY <1>1, <1>2, <1>3, <1>4, <1>5

(* A request under way.                                                    *)
LEMMA RequestShape ==
  ASSUME Shape, NEW h \in Handlers
  PROVE  /\ at[h].step = "settle" => at[h] \in Settling
         /\ at[h].step = "downloads" => at[h] \in Reporting
<1>1. at[h] \in Settling \cup Reporting \cup {Idle}
  BY DEF Shape, RequestTypes
<1>2. /\ Idle.step = "idle"
      /\ \A r \in Settling : r.step = "settle"
      /\ \A r \in Reporting : r.step = "downloads"
  BY DEF Idle, Settling, Reporting
<1>3. QED
  BY <1>1, <1>2

LEMMA DrainShape ==
  ASSUME Shape, NEW h \in Handlers, DrainDialogs(h)
  PROVE  DialogTypes' /\ RequestTypes'
<1>1. at[h] \in Settling
  BY RequestShape DEF DrainDialogs
<1>2. [step |-> "downloads", page |-> at[h].page, startTS |-> at[h].startTS,
       dialogs |-> dialogsOf(at[h].page)] \in Reporting
  BY <1>1, LogParts DEF Settling, Reporting
<1>3. at' \in [Handlers -> Settling \cup Reporting \cup {Idle}]
  BY <1>2 DEF DrainDialogs, Shape, RequestTypes
<1>4. RequestTypes'
  BY <1>3 DEF DrainDialogs, Shape, RequestTypes
<1>5. dialogLog' \in Seq(Reports) /\ Len(dialogLog') <= DialogLogCap
  BY LogParts DEF DrainDialogs
<1>6. DialogTypes'
  BY <1>5 DEF DrainDialogs, Shape, DialogTypes
<1>7. QED
  BY <1>4, <1>6

LEMMA SinceShape ==
  ASSUME Shape, NEW ts
  PROVE  downloadsSince(ts) \in Seq(Entries)
<1>1. downloads \in Seq(Entries)
  BY DEF Shape, DownloadTypes
<1>2. QED
  BY <1>1, KeptElements DEF downloadsSince

LEMMA DoneShape ==
  ASSUME Shape, NEW h \in Handlers, ActionDone(h), UNCHANGED clock, receipts' \in Seq(Receipts)
  PROVE  RequestTypes'
BY DEF ActionDone, Shape, RequestTypes

LEMMA ReceiptShape ==
  ASSUME Shape, NEW h \in Handlers, WriteEvidence(h) \/ ReportDialogs(h)
  PROVE  RequestTypes'
<1>1. at[h] \in Reporting /\ receipts \in Seq(Receipts)
  BY RequestShape DEF WriteEvidence, ReportDialogs, Shape, RequestTypes
<1>2. ASSUME NEW ds \in Seq(Entries)
      PROVE  Append(receipts, [page |-> at[h].page, dialogs |-> at[h].dialogs, downloads |-> ds])
                 \in Seq(Receipts)
  <2>1. [page |-> at[h].page, dialogs |-> at[h].dialogs, downloads |-> ds] \in Receipts
    BY <1>1 DEF Reporting, Receipts
  <2>2. QED
    BY <1>1, <2>1, AppendProperties
<1>3. CASE WriteEvidence(h)
  <2>1. receipts' \in Seq(Receipts)
    BY <1>2, <1>3, SinceShape DEF WriteEvidence
  <2>2. QED
    BY <1>3, <2>1, DoneShape DEF WriteEvidence
<1>4. CASE ReportDialogs(h)
  <2>1. <<>> \in Seq(Entries)
    BY EmptySeq
  <2>2. receipts' \in Seq(Receipts)
    BY <1>1, <1>2, <1>4, <2>1 DEF ReportDialogs
  <2>3. QED
    BY <1>4, <2>2, DoneShape DEF ReportDialogs
<1>5. QED
  BY <1>3, <1>4

LEMMA StartShape ==
  ASSUME Shape, NEW h \in Handlers, NEW p \in Pages, ActionStart(h, p)
  PROVE  RequestTypes'
<1>1. clock \in Nat
  BY DEF Shape, RequestTypes
<1>2. [step |-> "settle", page |-> p, startTS |-> clock] \in Settling
  BY <1>1 DEF Settling
<1>3. at' \in [Handlers -> Settling \cup Reporting \cup {Idle}]
  BY <1>2 DEF ActionStart, Shape, RequestTypes
<1>4. seen' \in [Handlers -> SUBSET GUIDs] /\ clock' \in Nat /\ UNCHANGED receipts
  BY <1>1 DEF ActionStart, Shape, RequestTypes
<1>5. QED
  BY <1>3, <1>4 DEF Shape, RequestTypes

LEMMA RestartShape ==
  ASSUME Shape, Restart
  PROVE  Shape'
<1>1. DialogTypes'
  <2>1. Logged \subseteq Dialogs
    <3>1. ASSUME NEW i \in DOMAIN dialogLog PROVE dialogLog[i].id \in Dialogs
      <4>1. dialogLog[i] \in Reports
        BY DEF Shape, DialogTypes
      <4>2. QED
        BY <4>1 DEF Reports
    <3>2. QED
      BY <3>1 DEF Logged
  <2>2. InFlight \subseteq Dialogs
    <3>1. ASSUME NEW h \in Handlers, at[h].step = "downloads", NEW i \in DOMAIN at[h].dialogs
          PROVE  at[h].dialogs[i].id \in Dialogs
      <4>1. at[h].dialogs \in Seq(Reports)
        BY <3>1, RequestShape DEF Reporting
      <4>2. at[h].dialogs[i] \in Reports
        BY <4>1
      <4>3. QED
        BY <4>2 DEF Reports
    <3>2. QED
      BY <3>1 DEF InFlight
  <2>3. {d \in 1 .. opened : answered[d] = "open"} \subseteq Dialogs
    BY EvidenceBounds DEF Shape, DialogTypes, Dialogs
  <2>4. forgotten' \subseteq Dialogs
    BY <2>1, <2>2, <2>3 DEF Restart, Shape, DialogTypes
  <2>5. /\ 0 \in 0 .. opened /\ <<>> \in Seq(Reports) /\ Len(<<>>) <= DialogLogCap
        /\ <<>> \in Seq(Pages)
    BY EvidenceBounds, EmptySeq DEF Shape, DialogTypes
  <2>6. QED
    BY <2>4, <2>5 DEF Restart, Shape, DialogTypes, Policies
<1>2. RequestTypes'
  BY DEF Restart, Shape, RequestTypes
<1>3. DownloadTypes'
  <2>1. /\ fate' \in [GUIDs -> {"unborn", "inProgress", "completed", "canceled"}]
        /\ \A g \in GUIDs : fate'[g] = "unborn" <=> fate[g] = "unborn"
    BY DEF Restart, Shape, DownloadTypes
  <2>2. /\ events' \in Seq(Announced) /\ DOMAIN events' = {} /\ downloads' \in Seq(Entries)
        /\ Len(downloads') <= DownloadsCap
    BY EvidenceBounds, EmptySeq DEF Restart
  <2>3. UNCHANGED <<begun, named, disk>>
    BY DEF Restart
  <2>4. QED
    BY <2>1, <2>2, <2>3 DEF Shape, DownloadTypes
<1>4. QED
  BY <1>1, <1>2, <1>3 DEF Shape

LEMMA BeginsShape ==
  ASSUME Shape, NEW n \in Names, BrowserBegins(n)
  PROVE  DownloadTypes'
<1>1. begun \in Nat /\ begun + 1 \in 0 .. MaxEffects /\ begun' = begun + 1 /\ begun + 1 \in GUIDs
  <2>1. opened \in Nat /\ begun \in Nat /\ opened + begun < MaxEffects
    BY EvidenceBounds DEF Shape, DialogTypes, DownloadTypes, BrowserBegins
  <2>2. QED
    BY <2>1, EvidenceBounds DEF BrowserBegins, GUIDs
<1>2. /\ named' \in [GUIDs -> Names \cup {"none"}] /\ named'[begun + 1] = n
      /\ \A g \in GUIDs \ {begun + 1} : named'[g] = named[g]
  BY <1>1 DEF Shape, DownloadTypes, BrowserBegins
<1>3. \A g \in 1 .. begun' : named'[g] \in Names
  <2>1. ASSUME NEW g \in 1 .. begun', g # begun + 1 PROVE g \in 1 .. begun /\ g \in GUIDs
    BY <1>1, <2>1, EvidenceBounds DEF GUIDs
  <2>2. QED
    BY <1>2, <2>1 DEF Shape, DownloadTypes
<1>4. /\ fate' \in [GUIDs -> {"unborn", "inProgress", "completed", "canceled"}]
      /\ \A g \in GUIDs : fate'[g] = "unborn" <=> g > begun'
  <2>1. /\ fate' \in [GUIDs -> {"unborn", "inProgress", "completed", "canceled"}]
        /\ fate'[begun + 1] = "inProgress" /\ \A g \in GUIDs \ {begun + 1} : fate'[g] = fate[g]
    BY <1>1 DEF Shape, DownloadTypes, BrowserBegins
  <2>2. ASSUME NEW g \in GUIDs, g # begun + 1 PROVE g > begun + 1 <=> g > begun
    BY <1>1, <2>2, EvidenceBounds DEF GUIDs
  <2>3. \A g \in GUIDs : fate[g] = "unborn" <=> g > begun
    BY DEF Shape, DownloadTypes
  <2>4. ~(begun + 1 > begun + 1)
    BY <1>1
  <2>5. QED
    BY <1>1, <2>1, <2>2, <2>3, <2>4
<1>5. events' \in Seq(Announced) /\ \A i \in DOMAIN events' : events'[i].guid <= begun'
  <2> DEFINE e == [type |-> "begin", guid |-> begun + 1]
  <2>1. events \in Seq(Announced) /\ e \in Announced
    BY <1>1 DEF Shape, DownloadTypes, Announced
  <2>2. events' = Append(events, e)
    BY DEF BrowserBegins
  <2>3. e.guid <= begun + 1
    BY <1>1
  <2>4. \A i \in DOMAIN events : events[i].guid <= begun + 1
    <3>1. ASSUME NEW i \in DOMAIN events PROVE events[i].guid <= begun + 1
      <4>1. events[i] \in Announced /\ events[i].guid <= begun
        BY <2>1 DEF Shape, DownloadTypes
      <4>2. events[i].guid \in Nat
        BY <4>1, EvidenceBounds DEF Announced, GUIDs
      <4>3. QED
        BY <1>1, <4>1, <4>2
    <3>2. QED
      BY <3>1
  <2> HIDE DEF e
  <2>5. QED
    BY <1>1, <2>1, <2>2, <2>3, <2>4, AppendProperties
<1>6. UNCHANGED <<downloads, disk>>
  BY DEF BrowserBegins
<1>7. QED
  BY <1>1, <1>2, <1>3, <1>4, <1>5, <1>6 DEF Shape, DownloadTypes

LEMMA EndsShape ==
  ASSUME Shape, NEW g \in GUIDs, NEW state \in {"completed", "canceled"}, BrowserEnds(g, state)
  PROVE  DownloadTypes'
<1>1. g <= begun /\ fate[g] = "inProgress" /\ UNCHANGED <<begun, named, downloads>>
  BY EvidenceBounds DEF Shape, DownloadTypes, BrowserEnds, GUIDs
<1>2. /\ fate' \in [GUIDs -> {"unborn", "inProgress", "completed", "canceled"}]
      /\ \A f \in GUIDs : fate'[f] = "unborn" <=> fate[f] = "unborn"
  BY <1>1 DEF Shape, DownloadTypes, BrowserEnds
<1>3. events' \in Seq(Announced) /\ \A i \in DOMAIN events' : events'[i].guid <= begun
  <2> DEFINE e == [type |-> state, guid |-> g]
  <2>1. events \in Seq(Announced) /\ e \in Announced /\ e.guid <= begun
    BY <1>1 DEF Shape, DownloadTypes, Announced
  <2>2. events' = Append(events, e) /\ \A i \in DOMAIN events : events[i].guid <= begun
    BY DEF BrowserEnds, Shape, DownloadTypes
  <2> HIDE DEF e
  <2>3. QED
    BY <2>1, <2>2, AppendProperties
<1>4. disk' \in [DOMAIN disk' -> GUIDs] /\ DOMAIN disk' \subseteq Names \cup GUIDs
  <2>1. disk \in [DOMAIN disk -> GUIDs] /\ DOMAIN disk \subseteq Names \cup GUIDs
    BY DEF Shape, DownloadTypes
  <2>2. CASE state = "completed"
    <3>1. disk' = [f \in DOMAIN disk \cup {g} |-> IF f = g THEN g ELSE disk[f]]
      BY <2>2 DEF BrowserEnds
    <3>2. QED
      BY <2>1, <3>1
  <2>3. CASE state # "completed"
    BY <2>1, <2>3 DEF BrowserEnds
  <2>4. QED
    BY <2>2, <2>3
<1>5. QED
  BY <1>1, <1>2, <1>3, <1>4 DEF Shape, DownloadTypes

(* A table with one entry new, and none of its GUID's old ones.            *)
LEMMA TrackShape ==
  ASSUME Shape, NEW e \in Entries
  PROVE  /\ trackDownload(e) \in Seq(Entries) /\ Len(trackDownload(e)) <= DownloadsCap
         /\ \A k \in DOMAIN trackDownload(e) :
                \/ trackDownload(e)[k] = e
                \/ \E i \in DOMAIN downloads : /\ downloads[i].guid # e.guid
                                               /\ trackDownload(e)[k] = downloads[i]
         /\ \A k, l \in DOMAIN trackDownload(e) :
                k # l /\ trackDownload(e)[k].guid = trackDownload(e)[l].guid =>
                \E i, j \in DOMAIN downloads : i # j /\ downloads[i].guid = downloads[j].guid
<1> DEFINE table == <<e>> \o downloads
           n == IF Len(table) < DownloadsCap THEN Len(table) ELSE DownloadsCap
           m == Len(downloads)
<1>1. /\ downloads \in Seq(Entries) /\ DOMAIN downloads = 1 .. m /\ m \in Nat /\ m <= DownloadsCap
  BY DEF Shape, DownloadTypes
<1>2. CASE e.guid \in Tracked
  <2>1. trackDownload(e) = [i \in 1 .. m |-> IF downloads[i].guid = e.guid THEN e ELSE downloads[i]]
    BY <1>1, <1>2 DEF trackDownload
  <2>2. \A i \in 1 .. m : downloads[i] \in Entries
    BY <1>1
  <2>3. trackDownload(e) \in [1 .. m -> Entries]
    BY <2>1, <2>2
  <2> HIDE DEF m
  <2>4. trackDownload(e) \in Seq(Entries) /\ Len(trackDownload(e)) = m
    BY <1>1, <2>3
  <2>5. ASSUME NEW k \in DOMAIN trackDownload(e), trackDownload(e)[k] # e
        PROVE  k \in DOMAIN downloads /\ downloads[k].guid # e.guid /\ trackDownload(e)[k] = downloads[k]
    BY <1>1, <2>1, <2>5
  <2>6. DOMAIN trackDownload(e) = DOMAIN downloads
    BY <1>1, <2>1
  <2>7. \A k \in DOMAIN downloads : trackDownload(e)[k].guid = downloads[k].guid
    BY <1>1, <2>1
  <2>8. QED
    BY <1>1, <2>4, <2>5, <2>6, <2>7
<1>3. CASE e.guid \notin Tracked
  <2>1. /\ table \in Seq(Entries) /\ Len(table) = m + 1 /\ table[1] = e
        /\ \A k \in 2 .. (m + 1) : table[k] = downloads[k - 1]
    <3>1. <<e>> \in Seq(Entries) /\ Len(<<e>>) = 1 /\ <<e>>[1] = e
      OBVIOUS
    <3>2. QED
      BY <1>1, <3>1, ConcatProperties
  <2>2. trackDownload(e) = SubSeq(table, 1, n)
    BY <1>3 DEF trackDownload
  <2> HIDE DEF table
  <2>3. n \in 1 .. (m + 1) /\ n <= DownloadsCap
    BY <1>1, <2>1, EvidenceBounds
  <2> HIDE DEF n
  <2>4. /\ trackDownload(e) \in Seq(Entries) /\ Len(trackDownload(e)) = n
        /\ \A k \in 1 .. n : trackDownload(e)[k] = table[k]
    <3>1. 1 \in Int /\ n \in Int /\ \A i \in 1 .. n : table[i] \in Entries
      BY <1>1, <2>1, <2>3
    <3>2. /\ SubSeq(table, 1, n) \in Seq(Entries)
          /\ Len(SubSeq(table, 1, n)) = IF 1 <= n THEN n - 1 + 1 ELSE 0
          /\ \A i \in 1 .. (n - 1 + 1) : SubSeq(table, 1, n)[i] = table[1 + i - 1]
      BY <3>1, SubSeqProperties
    <3>3. QED
      BY <1>1, <2>2, <2>3, <3>2
  <2>5. ASSUME NEW k \in 1 .. n, k # 1
        PROVE  /\ k - 1 \in DOMAIN downloads /\ downloads[k - 1].guid # e.guid
               /\ trackDownload(e)[k] = downloads[k - 1]
    <3>1. k \in 2 .. (m + 1) /\ k - 1 \in DOMAIN downloads
      BY <1>1, <2>3, <2>5
    <3>2. QED
      BY <1>3, <2>1, <2>4, <3>1 DEF Tracked
  <2>6. trackDownload(e)[1] = e
    BY <1>1, <2>1, <2>3, <2>4
  <2>7. DOMAIN trackDownload(e) = 1 .. n
    BY <2>4
  <2>8. ASSUME NEW k \in 1 .. n, NEW l \in 1 .. n, k # l,
               trackDownload(e)[k].guid = trackDownload(e)[l].guid
        PROVE  \E i, j \in DOMAIN downloads : i # j /\ downloads[i].guid = downloads[j].guid
    <3>1. k # 1 /\ l # 1
      BY <2>5, <2>6, <2>8
    <3>2. /\ k - 1 \in DOMAIN downloads /\ trackDownload(e)[k] = downloads[k - 1]
          /\ l - 1 \in DOMAIN downloads /\ trackDownload(e)[l] = downloads[l - 1]
      BY <2>5, <3>1
    <3>3. k - 1 # l - 1 /\ downloads[k - 1].guid = downloads[l - 1].guid
      BY <2>3, <2>8, <3>2
    <3>4. QED
      BY <3>2, <3>3
  <2>9. QED
    BY <2>3, <2>4, <2>5, <2>6, <2>7, <2>8
<1>4. QED
  BY <1>2, <1>3

LEMMA EventsTail ==
  ASSUME Shape, events # <<>>
  PROVE  /\ Head(events) \in Announced /\ Head(events).guid \in 1 .. begun
         /\ named[Head(events).guid] \in Names
         /\ Tail(events) \in Seq(Announced)
         /\ \A i \in DOMAIN Tail(events) : i + 1 \in DOMAIN events /\ Tail(events)[i] = events[i + 1]
         /\ \A i \in DOMAIN Tail(events) : Tail(events)[i].guid <= begun
<1>1. events \in Seq(Announced) /\ \A i \in DOMAIN events : events[i].guid <= begun
  BY DEF Shape, DownloadTypes
<1>2. Head(events) = events[1] /\ 1 \in DOMAIN events /\ Head(events) \in Announced
  BY <1>1, HeadTailProperties
<1>3. Head(events).guid \in 1 .. begun
  BY <1>1, <1>2, EvidenceBounds DEF Announced, GUIDs, Shape, DownloadTypes
<1>4. /\ Tail(events) \in Seq(Announced)
      /\ \A i \in DOMAIN Tail(events) : i + 1 \in DOMAIN events /\ Tail(events)[i] = events[i + 1]
  BY <1>1, HeadTailProperties
<1>5. named[Head(events).guid] \in Names
  BY <1>3 DEF Shape, DownloadTypes
<1>6. QED
  BY <1>1, <1>2, <1>3, <1>4, <1>5

LEMMA BeginShape ==
  ASSUME Shape, HandleBegin
  PROVE  DownloadTypes' /\ RequestTypes'
<1> DEFINE g == Head(events).guid
           e == [guid |-> g, name |-> named[g], ts |-> clock, state |-> "inProgress", path |-> 0]
<1>1. events # <<>> /\ clock \in Nat
  BY DEF HandleBegin, Shape, RequestTypes
<1>2. g \in GUIDs /\ named[g] \in Names
  BY <1>1, EventsTail DEF Announced
<1>3. e \in Entries /\ downloads' = trackDownload(e)
  BY <1>1, <1>2 DEF HandleBegin, Entries
<1> HIDE DEF e
<1>4. downloads' \in Seq(Entries) /\ Len(downloads') <= DownloadsCap
  BY <1>3, TrackShape
<1>5. UNCHANGED <<begun, named, fate, disk, at, receipts>> /\ events' = Tail(events) /\ clock' = clock + 1
  BY DEF HandleBegin
<1>6. DownloadTypes'
  BY <1>1, <1>4, <1>5, EventsTail DEF Shape, DownloadTypes
<1>7. seen' \in [Handlers -> SUBSET GUIDs]
  BY <1>2 DEF HandleBegin, Shape, RequestTypes
<1>8. RequestTypes'
  BY <1>1, <1>5, <1>7 DEF Shape, RequestTypes
<1>9. QED
  BY <1>6, <1>8

(* The files keep their bytes, whichever way they are moved.               *)
LEMMA MoveShape ==
  ASSUME Shape, NEW d \in Entries, NEW renamed \in BOOLEAN
  PROVE  /\ MoveIntoPlace(d, renamed) \in [DOMAIN MoveIntoPlace(d, renamed) -> GUIDs]
         /\ DOMAIN MoveIntoPlace(d, renamed) \subseteq Names \cup GUIDs
         /\ resolveDownloadPath(d, renamed) \in Names \cup GUIDs \cup {0}
<1>1. disk \in [DOMAIN disk -> GUIDs] /\ DOMAIN disk \subseteq Names \cup GUIDs /\ d.name \in Names
  BY DEF Shape, DownloadTypes, Entries
<1>2. d.guid \in GUIDs
  BY DEF Entries
<1>3. resolveDownloadPath(d, renamed) \in Names \cup GUIDs \cup {0}
  BY <1>1, <1>2 DEF resolveDownloadPath
<1>4. CASE ~Found(d) /\ d.guid \in DOMAIN disk /\ renamed
  <2>1. MoveIntoPlace(d, renamed) = [f \in (DOMAIN disk \cup {d.name}) \ {d.guid} |->
                                        IF f = d.name THEN disk[d.guid] ELSE disk[f]]
    BY <1>4 DEF MoveIntoPlace
  <2>2. QED
    BY <1>1, <1>3, <1>4, <2>1
<1>5. CASE ~(~Found(d) /\ d.guid \in DOMAIN disk /\ renamed)
  <2>1. MoveIntoPlace(d, renamed) = disk
    BY <1>5 DEF MoveIntoPlace
  <2>2. QED
    BY <1>1, <1>3, <2>1
<1>6. QED
  BY <1>4, <1>5

(* The end of a tracked download changes its entry's state and path.       *)
LEMMA EndStep ==
  ASSUME Shape, HandleEnd
  PROVE  /\ events # <<>> /\ events' = Tail(events)
         /\ UNCHANGED <<begun, fate, named, dialogVars, clock, requestVars, admin, forgotten>>
         /\ \/ UNCHANGED <<downloads, disk>>
            \/ \E i \in DOMAIN downloads :
                   /\ downloads[i].guid = Head(events).guid /\ downloads[i] \in Entries
                   /\ \/ \E renamed \in BOOLEAN :
                         /\ Head(events).type = "completed"
                         /\ downloads' = [downloads EXCEPT ![i] =
                                Ended(downloads[i], "completed", resolveDownloadPath(downloads[i], renamed))]
                         /\ disk' = MoveIntoPlace(downloads[i], renamed)
                      \/ /\ downloads' = [downloads EXCEPT ![i] =
                                Ended(downloads[i], "canceled", downloads[i].path)]
                         /\ UNCHANGED disk
<1> DEFINE e == Head(events)
           found == downloadByGUID(e.guid)
           i == CHOOSE k \in found : TRUE
<1>1. /\ events # <<>> /\ events' = Tail(events)
      /\ UNCHANGED <<begun, fate, named, dialogVars, clock, requestVars, admin, forgotten>>
  BY DEF HandleEnd
<1>2. CASE found = {}
  BY <1>1, <1>2 DEF HandleEnd
<1>3. CASE found # {}
  <2>1. i \in DOMAIN downloads /\ downloads[i].guid = e.guid
    BY <1>3 DEF downloadByGUID
  <2>2. downloads[i] \in Entries
    BY <2>1 DEF Shape, DownloadTypes
  <2>3. \/ \E renamed \in BOOLEAN :
           /\ e.type = "completed"
           /\ downloads' = [downloads EXCEPT ![i] =
                  Ended(downloads[i], "completed", resolveDownloadPath(downloads[i], renamed))]
           /\ disk' = MoveIntoPlace(downloads[i], renamed)
        \/ /\ downloads' = [downloads EXCEPT ![i] = Ended(downloads[i], "canceled", downloads[i].path)]
           /\ UNCHANGED disk
    BY <1>3 DEF HandleEnd
  <2> HIDE DEF i, e
  <2>4. QED
    BY <1>1, <2>1, <2>2, <2>3 DEF e
<1>4. QED
  BY <1>2, <1>3

LEMMA EndShape ==
  ASSUME Shape, HandleEnd
  PROVE  DownloadTypes'
<1>1. /\ events # <<>> /\ events' = Tail(events) /\ UNCHANGED <<begun, fate, named>>
  BY EndStep
<1>2. /\ events' \in Seq(Announced) /\ \A k \in DOMAIN events' : events'[k].guid <= begun
  BY <1>1, EventsTail
<1>3. /\ downloads' \in Seq(Entries) /\ Len(downloads') <= DownloadsCap
      /\ disk' \in [DOMAIN disk' -> GUIDs] /\ DOMAIN disk' \subseteq Names \cup GUIDs
  <2>1. /\ downloads \in Seq(Entries) /\ Len(downloads) <= DownloadsCap
        /\ disk \in [DOMAIN disk -> GUIDs] /\ DOMAIN disk \subseteq Names \cup GUIDs
    BY DEF Shape, DownloadTypes
  <2>2. CASE UNCHANGED <<downloads, disk>>
    BY <2>1, <2>2
  <2>3. ASSUME NEW i \in DOMAIN downloads, downloads[i] \in Entries, NEW renamed \in BOOLEAN,
               \/ /\ downloads' = [downloads EXCEPT ![i] =
                         Ended(downloads[i], "completed", resolveDownloadPath(downloads[i], renamed))]
                  /\ disk' = MoveIntoPlace(downloads[i], renamed)
               \/ /\ downloads' = [downloads EXCEPT ![i] =
                         Ended(downloads[i], "canceled", downloads[i].path)]
                  /\ UNCHANGED disk
        PROVE  /\ downloads' \in Seq(Entries) /\ Len(downloads') <= DownloadsCap
               /\ disk' \in [DOMAIN disk' -> GUIDs] /\ DOMAIN disk' \subseteq Names \cup GUIDs
    <3>1. PICK x \in Entries : downloads' = [downloads EXCEPT ![i] = x]
      <4>1. /\ Ended(downloads[i], "completed", resolveDownloadPath(downloads[i], renamed)) \in Entries
            /\ Ended(downloads[i], "canceled", downloads[i].path) \in Entries
        BY <2>3, MoveShape DEF Ended, Entries
      <4>2. QED
        BY <2>3, <4>1
    <3>2. downloads' \in Seq(Entries) /\ Len(downloads') = Len(downloads)
      BY <2>1, <3>1, ExceptSeq
    <3>3. disk' = disk \/ disk' = MoveIntoPlace(downloads[i], renamed)
      BY <2>3
    <3>4. QED
      BY <2>1, <2>3, <3>2, <3>3, MoveShape
  <2>4. QED
    BY <2>2, <2>3, EndStep
<1>4. QED
  BY <1>1, <1>2, <1>3 DEF Shape, DownloadTypes

(* Each part of the state keeps its types when it is left alone.           *)
LEMMA DialogsAlone == Shape /\ UNCHANGED <<dialogVars, forgotten>> => DialogTypes'
BY DEF Shape, DialogTypes, dialogVars

LEMMA RequestsAlone == Shape /\ UNCHANGED <<requestVars, clock>> => RequestTypes'
BY DEF Shape, RequestTypes, requestVars

LEMMA DownloadsAlone == Shape /\ UNCHANGED downloadVars => DownloadTypes'
BY DEF Shape, DownloadTypes, downloadVars

LEMMA AdminShape ==
  ASSUME Shape, SetPolicy \/ ClearDialogs \/ ClearDownloads
  PROVE  Shape'
<1>1. CASE SetPolicy
  <2>1. DialogTypes'
    BY <1>1 DEF SetPolicy, Shape, DialogTypes
  <2>2. RequestTypes' /\ DownloadTypes'
    BY <1>1, RequestsAlone, DownloadsAlone DEF SetPolicy
  <2>3. QED
    BY <2>1, <2>2 DEF Shape
<1>2. CASE ClearDialogs
  <2>1. Logged \subseteq Dialogs
    <3>1. ASSUME NEW i \in DOMAIN dialogLog PROVE dialogLog[i].id \in Dialogs
      <4>1. dialogLog[i] \in Reports
        BY DEF Shape, DialogTypes
      <4>2. QED
        BY <4>1 DEF Reports
    <3>2. QED
      BY <3>1 DEF Logged
  <2>2. <<>> \in Seq(Reports) /\ Len(<<>>) <= DialogLogCap
    BY EvidenceBounds, EmptySeq
  <2>3. DialogTypes'
    BY <1>2, <2>1, <2>2 DEF ClearDialogs, Shape, DialogTypes
  <2>4. RequestTypes' /\ DownloadTypes'
    BY <1>2, RequestsAlone, DownloadsAlone DEF ClearDialogs
  <2>5. QED
    BY <2>3, <2>4 DEF Shape
<1>3. CASE ClearDownloads
  <2>1. <<>> \in Seq(Entries) /\ Len(<<>>) <= DownloadsCap
    BY EvidenceBounds, EmptySeq
  <2>2. UNCHANGED <<begun, named, fate, events, disk>> /\ downloads' = <<>>
    BY <1>3 DEF ClearDownloads
  <2>3. DownloadTypes'
    BY <2>1, <2>2 DEF Shape, DownloadTypes
  <2>4. DialogTypes' /\ RequestTypes'
    BY <1>3, DialogsAlone, RequestsAlone DEF ClearDownloads
  <2>5. QED
    BY <2>3, <2>4 DEF Shape
<1>4. QED
  BY <1>1, <1>2, <1>3

LEMMA StepShape ==
  ASSUME Shape, [Next]_vars
  PROVE  Shape'
<1>1. ASSUME NEW p \in Pages, DialogOpens(p) \/ ListenerLogs(p) \/ ListenerAnswers(p)
      PROVE  Shape'
  <2>1. DialogTypes'
    BY <1>1, DialogOpensShape, ListenerLogsShape, ListenerAnswersShape
  <2>2. UNCHANGED downloadVars /\ UNCHANGED <<requestVars, clock>>
    BY <1>1 DEF DialogOpens, ListenerLogs, ListenerAnswers
  <2>3. QED
    BY <2>1, <2>2, RequestsAlone, DownloadsAlone DEF Shape
<1>2. CASE SetPolicy \/ ClearDialogs \/ ClearDownloads
  BY <1>2, AdminShape
<1>3. CASE Restart
  BY <1>3, RestartShape
<1>4. ASSUME NEW n \in Names, BrowserBegins(n) PROVE Shape'
  <2>1. UNCHANGED <<dialogVars, forgotten>> /\ UNCHANGED <<requestVars, clock>>
    BY <1>4 DEF BrowserBegins
  <2>2. QED
    BY <1>4, <2>1, BeginsShape, DialogsAlone, RequestsAlone DEF Shape
<1>5. ASSUME NEW g \in GUIDs, NEW s \in {"completed", "canceled"}, BrowserEnds(g, s) PROVE Shape'
  <2>1. UNCHANGED <<dialogVars, forgotten>> /\ UNCHANGED <<requestVars, clock>>
    BY <1>5 DEF BrowserEnds
  <2>2. QED
    BY <1>5, <2>1, EndsShape, DialogsAlone, RequestsAlone DEF Shape
<1>6. CASE HandleBegin
  <2>1. UNCHANGED <<dialogVars, forgotten>>
    BY <1>6 DEF HandleBegin
  <2>2. QED
    BY <1>6, <2>1, BeginShape, DialogsAlone DEF Shape
<1>7. CASE HandleEnd
  <2>1. UNCHANGED <<dialogVars, forgotten>> /\ UNCHANGED <<requestVars, clock>>
    BY <1>7 DEF HandleEnd
  <2>2. QED
    BY <1>7, <2>1, EndShape, DialogsAlone, RequestsAlone DEF Shape
<1>8. ASSUME NEW h \in Handlers, NEW p \in Pages, ActionStart(h, p) PROVE Shape'
  <2>1. UNCHANGED <<dialogVars, forgotten>> /\ UNCHANGED downloadVars
    BY <1>8 DEF ActionStart
  <2>2. QED
    BY <1>8, <2>1, StartShape, DialogsAlone, DownloadsAlone DEF Shape
<1>9. ASSUME NEW h \in Handlers, ActionSkips(h) PROVE Shape'
  <2>1. UNCHANGED <<dialogVars, forgotten>> /\ UNCHANGED downloadVars /\ UNCHANGED <<clock, receipts>>
    BY <1>9 DEF ActionSkips
  <2>2. ActionDone(h) /\ receipts' \in Seq(Receipts)
    BY <1>9, <2>1 DEF ActionSkips, Shape, RequestTypes
  <2>3. QED
    BY <2>1, <2>2, DoneShape, DialogsAlone, DownloadsAlone DEF Shape
<1>10. ASSUME NEW h \in Handlers, DrainDialogs(h) PROVE Shape'
  <2>1. UNCHANGED downloadVars
    BY <1>10 DEF DrainDialogs
  <2>2. QED
    BY <1>10, <2>1, DrainShape, DownloadsAlone DEF Shape
<1>11. ASSUME NEW h \in Handlers, WriteEvidence(h) \/ ReportDialogs(h) PROVE Shape'
  <2>1. UNCHANGED <<dialogVars, forgotten>> /\ UNCHANGED downloadVars
    BY <1>11 DEF WriteEvidence, ReportDialogs
  <2>2. QED
    BY <1>11, <2>1, ReceiptShape, DialogsAlone, DownloadsAlone DEF Shape
<1>12. CASE UNCHANGED vars
  <2>1. UNCHANGED <<dialogVars, forgotten>> /\ UNCHANGED downloadVars /\ UNCHANGED <<requestVars, clock>>
    BY <1>12 DEF vars, dialogVars, downloadVars, requestVars
  <2>2. QED
    BY <2>1, DialogsAlone, RequestsAlone, DownloadsAlone DEF Shape
<1>13. CASE InjectLocks \/ InjectRegisters
  <2>1. DialogTypes'
    BY <1>13, InjectShape DEF Shape, DialogTypes
  <2>2. UNCHANGED downloadVars /\ UNCHANGED <<requestVars, clock>>
    BY <1>13, InjectShape
  <2>3. QED
    BY <2>1, <2>2, RequestsAlone, DownloadsAlone DEF Shape
<1>14. QED
  BY <1>1, <1>2, <1>3, <1>4, <1>5, <1>6, <1>7, <1>8, <1>9, <1>10, <1>11, <1>12, <1>13 DEF Next

(* The tables never outgrow their caps, the directory holds names and      *)
(* GUIDs only, and what is forgotten was a dialog (dialogs.go:62-64,       *)
(* downloads.go:113-126).                                                  *)
THEOREM TypeCorrect == Spec => []TypeOK
<1>1. Init => Shape
  BY InitShape
<1>2. Shape /\ [Next]_vars => Shape'
  BY StepShape
<1>3. ASSUME Shape PROVE TypeOK
  <2>1. \A i \in DOMAIN dialogLog : dialogLog[i] \in Reports
    BY <1>3 DEF Shape, DialogTypes
  <2>2. \A i \in DOMAIN downloads : downloads[i].guid \in GUIDs
    <3>1. ASSUME NEW i \in DOMAIN downloads PROVE downloads[i] \in Entries
      BY <1>3 DEF Shape, DownloadTypes
    <3>2. QED
      BY <3>1 DEF Entries
  <2>3. \A i \in DOMAIN injecting : injecting[i] \in Pages
    BY <1>3 DEF Shape, DialogTypes
  <2>4. QED
    BY <1>3, <2>1, <2>2, <2>3 DEF Shape, DialogTypes, DownloadTypes, TypeOK, Reports
<1>4. QED
  BY <1>1, <1>2, <1>3, PTL DEF Spec

-----------------------------------------------------------------------------
(* Where a dialog is: in the log, in a receipt being collected, in one     *)
(* written, or forgotten.                                                  *)

Ids(s) == {s[i].id : i \in DOMAIN s}
Held(h) == IF at[h].step = "downloads" THEN at[h].dialogs ELSE <<>>

InHeld == UNION {Ids(Held(h)) : h \in Handlers}
InReceipts == UNION {Told(receipts[i]) : i \in DOMAIN receipts}
Taken == Logged \cup InHeld \cup InReceipts

(* No dialog is in two places, nor twice in the log.                       *)
Disjoint ==
    /\ \A h \in Handlers : Ids(Held(h)) \cap Logged = {}
    /\ \A h, g \in Handlers : h # g => Ids(Held(h)) \cap Ids(Held(g)) = {}
    /\ \A i \in DOMAIN receipts : Told(receipts[i]) \cap Logged = {}
    /\ \A i \in DOMAIN receipts, h \in Handlers : Told(receipts[i]) \cap Ids(Held(h)) = {}
    /\ \A i, j \in DOMAIN receipts : i # j => Told(receipts[i]) \cap Told(receipts[j]) = {}
LoggedOnce == \A i, j \in DOMAIN dialogLog : dialogLog[i].id = dialogLog[j].id => i = j

(* A dialog enters the log when its page's listener reads it, and not      *)
(* before, and is not read again; pages show different ones, unanswered.   *)
Fresh ==
    /\ \A p \in Pages : /\ showing[p] # 0 /\ listener[p] = Quiet
                         /\ showing[p] \notin missed => showing[p] \notin Taken
    /\ \A d \in Dialogs : d > opened => d \notin Taken /\ answered[d] = "open"
    /\ \A p \in Pages : showing[p] # 0 => answered[showing[p]] = "open"
    /\ \A p, q \in Pages : p # q /\ showing[p] # 0 => showing[p] # showing[q]

(* A listener under way answers the dialog shown, which has a place.       *)
Listening ==
    \A p \in Pages : listener[p] # Quiet =>
        /\ showing[p] # 0 /\ listener[p].dialog = showing[p]
        /\ showing[p] \in Taken \cup forgotten

NoneLost == \A d \in Dialogs : answered[d] # "open" => d \in Taken \cup forgotten

PlacesInv == Disjoint /\ LoggedOnce /\ Fresh /\ Listening /\ NoneLost

(* What is in a receipt, or on its way, is of the page it is for.          *)
OwnPage ==
    /\ \A h \in Handlers : \A i \in DOMAIN Held(h) : Held(h)[i].page = at[h].page
    /\ \A k \in DOMAIN receipts : \A i \in DOMAIN receipts[k].dialogs :
           receipts[k].dialogs[i].page = receipts[k].page

(* An entry says what the browser was told, or is about to be.             *)
Agrees(e) ==
    /\ answered[e.id] \in {e.accepted, "open"}
    /\ \A p \in Pages : listener[p] # Quiet /\ showing[p] = e.id => listener[p].accept = e.accepted
StillAgrees(e) ==
    /\ answered'[e.id] \in {e.accepted, "open"}
    /\ \A p \in Pages : listener'[p] # Quiet /\ showing'[p] = e.id => listener'[p].accept = e.accepted
AgreeInv ==
    /\ \A i \in DOMAIN dialogLog : Agrees(dialogLog[i])
    /\ \A h \in Handlers : \A i \in DOMAIN Held(h) : Agrees(Held(h)[i])
    /\ \A k \in DOMAIN receipts : \A i \in DOMAIN receipts[k].dialogs : Agrees(receipts[k].dialogs[i])

DialogInv == PlacesInv /\ OwnPage /\ AgreeInv

(* The pieces are typed.                                                   *)
LEMMA HeldShape ==
  ASSUME Shape, NEW h \in Handlers
  PROVE  /\ Held(h) \in Seq(Reports) /\ Ids(Held(h)) \subseteq Dialogs
         /\ at[h].step # "downloads" => Held(h) = <<>> /\ Ids(Held(h)) = {}
<1>1. CASE at[h].step = "downloads"
  <2>1. Held(h) \in Seq(Reports)
    BY <1>1, RequestShape DEF Held, Reporting
  <2>2. \A i \in DOMAIN Held(h) : Held(h)[i].id \in Dialogs
    <3>1. ASSUME NEW i \in DOMAIN Held(h) PROVE Held(h)[i] \in Reports
      BY <2>1
    <3>2. QED
      BY <3>1 DEF Reports
  <2>3. QED
    BY <1>1, <2>1, <2>2 DEF Ids
<1>2. CASE at[h].step # "downloads"
  BY <1>2, EmptySeq DEF Held, Ids
<1>3. QED
  BY <1>1, <1>2

LEMMA FlightIsHeld ==
  ASSUME Shape
  PROVE  InFlight = InHeld
<1>1. ASSUME NEW h \in Handlers, at[h].step = "downloads"
      PROVE  Ids(Held(h)) = {at[h].dialogs[i].id : i \in DOMAIN at[h].dialogs}
  BY <1>1 DEF Ids, Held
<1>2. ASSUME NEW h \in Handlers, at[h].step # "downloads" PROVE Ids(Held(h)) = {}
  BY <1>2, HeldShape
<1>3. QED
  BY <1>1, <1>2 DEF InFlight, InHeld

LEMMA ToldShape ==
  ASSUME Shape, NEW i \in DOMAIN receipts
  PROVE  /\ receipts[i].dialogs \in Seq(Reports) /\ Told(receipts[i]) = Ids(receipts[i].dialogs)
         /\ Told(receipts[i]) \subseteq Dialogs
<1>1. receipts[i] \in Receipts
  BY DEF Shape, RequestTypes
<1>2. receipts[i].dialogs \in Seq(Reports)
  BY <1>1 DEF Receipts
<1>3. \A k \in DOMAIN receipts[i].dialogs : receipts[i].dialogs[k].id \in Dialogs
  <2>1. ASSUME NEW k \in DOMAIN receipts[i].dialogs PROVE receipts[i].dialogs[k] \in Reports
    BY <1>2
  <2>2. QED
    BY <2>1 DEF Reports
<1>4. QED
  BY <1>2, <1>3 DEF Told, Ids

(* Moving dialogs on, or forgetting them, disturbs nobody's listener.      *)
LEMMA PlacesMoved ==
  ASSUME Shape, PlacesInv, UNCHANGED <<opened, showing, answered, missed, listener>>,
         Disjoint', LoggedOnce', Taken' \subseteq Taken, forgotten \subseteq forgotten',
         Taken \subseteq Taken' \cup forgotten'
  PROVE  PlacesInv'
<1>1. Fresh'
  BY DEF PlacesInv, Fresh
<1>2. Listening'
  BY DEF PlacesInv, Listening
<1>3. NoneLost'
  BY DEF PlacesInv, NoneLost
<1>4. QED
  BY <1>1, <1>2, <1>3 DEF PlacesInv

(* Entries go on agreeing, wherever they are moved to.                     *)
LEMMA AgreeMoved ==
  ASSUME \A i \in DOMAIN dialogLog' : StillAgrees(dialogLog'[i]),
         \A h \in Handlers : \A i \in DOMAIN Held(h)' : StillAgrees(Held(h)'[i]),
         \A k \in DOMAIN receipts' : \A i \in DOMAIN receipts'[k].dialogs :
             StillAgrees(receipts'[k].dialogs[i])
  PROVE  AgreeInv'
BY DEF AgreeInv, Agrees, StillAgrees

(* Steps that leave the dialogs where they are.                            *)
LEMMA DialogsStay ==
  ASSUME Shape, DialogInv,
         UNCHANGED <<opened, showing, answered, missed, listener, dialogLog, forgotten, receipts>>,
         \A h \in Handlers : Held(h)' = Held(h) /\ (Held(h) # <<>> => at'[h].page = at[h].page)
  PROVE  DialogInv'
<1>1. UNCHANGED <<Logged, InReceipts>> /\ \A i \in DOMAIN receipts : Told(receipts'[i]) = Told(receipts[i])
  BY DEF Logged, InReceipts, Told
<1>2. \A h \in Handlers : Ids(Held(h)') = Ids(Held(h))
  OBVIOUS
<1>3. UNCHANGED Taken
  BY <1>1, <1>2 DEF Taken, InHeld, Ids
<1>4. Disjoint' /\ LoggedOnce'
  BY <1>1, <1>2 DEF DialogInv, PlacesInv, Disjoint, LoggedOnce, Ids, Told
<1>5. PlacesInv'
  BY <1>3, <1>4, PlacesMoved DEF DialogInv
<1>6. OwnPage'
  <2>1. ASSUME NEW h \in Handlers, NEW i \in DOMAIN Held(h)' PROVE Held(h)'[i].page = at'[h].page
    <3>1. i \in DOMAIN Held(h) /\ Held(h)'[i] = Held(h)[i]
      BY <2>1
    <3>2. Held(h) # <<>>
      BY <3>1, EmptySeq
    <3>3. QED
      BY <3>1, <3>2 DEF DialogInv, OwnPage
  <2>2. QED
    BY <2>1 DEF DialogInv, OwnPage
<1>7. AgreeInv'
  BY DEF DialogInv, AgreeInv, Agrees
<1>8. QED
  BY <1>5, <1>6, <1>7 DEF DialogInv

(* A page shows a dialog nobody has seen yet.                              *)
LEMMA OpensDialog ==
  ASSUME Shape, DialogInv, NEW p \in Pages, DialogOpens(p)
  PROVE  DialogInv'
<1>1. /\ opened \in Nat /\ opened + 1 \in Dialogs /\ opened' = opened + 1 /\ showing[p] = 0
      /\ showing' = [showing EXCEPT ![p] = opened + 1] /\ showing \in [Pages -> 0 .. opened]
      /\ UNCHANGED <<answered, missed, listener, dialogLog, forgotten, receipts, at>>
  <2>1. opened \in Nat /\ begun \in Nat /\ opened + begun < MaxEffects
    BY EvidenceBounds DEF Shape, DialogTypes, DownloadTypes, DialogOpens
  <2>2. QED
    BY <2>1, EvidenceBounds DEF DialogOpens, Shape, DialogTypes, Dialogs, requestVars
<1>2. UNCHANGED <<Logged, InReceipts, InHeld, Taken>>
  BY <1>1 DEF Logged, InReceipts, InHeld, Taken, Told, Ids, Held
<1>3. Disjoint' /\ LoggedOnce' /\ OwnPage'
  <2>1. \A h \in Handlers : Held(h)' = Held(h) /\ Ids(Held(h))' = Ids(Held(h))
    BY <1>1 DEF Held, Ids
  <2>2. \A i \in DOMAIN receipts : Told(receipts'[i]) = Told(receipts[i])
    BY <1>1 DEF Told
  <2>3. Disjoint'
    BY <1>1, <1>2, <2>1, <2>2 DEF DialogInv, PlacesInv, Disjoint
  <2>4. LoggedOnce'
    BY <1>1 DEF DialogInv, PlacesInv, LoggedOnce
  <2>5. OwnPage'
    BY <1>1, <2>1 DEF DialogInv, OwnPage
  <2>6. QED
    BY <2>3, <2>4, <2>5
<1>4. opened + 1 \notin Taken /\ answered[opened + 1] = "open"
  BY <1>1 DEF DialogInv, PlacesInv, Fresh
<1>5. listener[p] = Quiet
  BY <1>1 DEF DialogInv, PlacesInv, Listening
<1>6. showing'[p] = opened + 1 /\ \A q \in Pages \ {p} : showing'[q] = showing[q] /\ showing[q] # opened + 1
  BY <1>1
<1>7. Fresh'
  <2>1. \A q \in Pages : /\ showing'[q] # 0 /\ listener'[q] = Quiet
                          /\ showing'[q] \notin missed' => showing'[q] \notin Taken'
    BY <1>1, <1>2, <1>4, <1>6 DEF DialogInv, PlacesInv, Fresh
  <2>2. \A d \in Dialogs : d > opened' => d \notin Taken' /\ answered'[d] = "open"
    <3>1. \A d \in Dialogs : d > opened' => d > opened
      BY <1>1, EvidenceBounds DEF Dialogs
    <3>2. QED
      BY <1>1, <1>2, <3>1 DEF DialogInv, PlacesInv, Fresh
  <2>3. \A q \in Pages : showing'[q] # 0 => answered'[showing'[q]] = "open"
    BY <1>1, <1>4, <1>6 DEF DialogInv, PlacesInv, Fresh
  <2>4. \A q, r \in Pages : q # r /\ showing'[q] # 0 => showing'[q] # showing'[r]
    BY <1>1, <1>6 DEF DialogInv, PlacesInv, Fresh
  <2>5. QED
    BY <2>1, <2>2, <2>3, <2>4 DEF Fresh
<1>8. Listening'
  BY <1>1, <1>2, <1>5, <1>6 DEF DialogInv, PlacesInv, Listening
<1>9. NoneLost'
  BY <1>1, <1>2 DEF DialogInv, PlacesInv, NoneLost
<1>10. AgreeInv'
  <2>1. ASSUME NEW e, Agrees(e) PROVE StillAgrees(e)
    BY <1>1, <1>5, <1>6, <2>1 DEF Agrees, StillAgrees
  <2>2. \A h \in Handlers : Held(h)' = Held(h)
    BY <1>1 DEF Held
  <2>3. QED
    BY <1>1, <2>1, <2>2, AgreeMoved DEF DialogInv, AgreeInv
<1>11. QED
  BY <1>3, <1>7, <1>8, <1>9, <1>10 DEF DialogInv, PlacesInv

(* The listener puts the dialog shown into the log: it was nowhere, and is *)
(* about to be answered as the entry says.                                 *)
LEMMA LogsDialog ==
  ASSUME Shape, DialogInv, NEW p \in Pages, ListenerLogs(p)
  PROVE  DialogInv'
<1> DEFINE e == [id |-> showing[p], page |-> p, accepted |-> policy]
           log == Append(dialogLog, e)
           n == Len(dialogLog)
           x == Excess(log)
<1>1. /\ e \in Reports /\ dialogLog' = Latest(log) /\ showing[p] \in Dialogs
      /\ dialogLog \in Seq(Reports) /\ n \in Nat /\ policy \in Policies
  BY ListenerLogsShape DEF Shape, DialogTypes
<1>2. /\ showing[p] # 0 /\ listener[p] = Quiet
      /\ listener' = [listener EXCEPT ![p] = [dialog |-> showing[p], accept |-> policy]]
      /\ forgotten' = forgotten \cup {log[i].id : i \in 1 .. x}
      /\ showing[p] \notin missed
      /\ UNCHANGED <<policy, showing, opened, answered, missed, at, receipts>>
  BY DEF ListenerLogs, requestVars
<1>3. e.id = showing[p] /\ e.accepted = policy
  OBVIOUS
<1>4. showing[p] \notin Taken /\ answered[showing[p]] = "open"
  BY <1>2 DEF DialogInv, PlacesInv, Fresh
<1> HIDE DEF e
<1>5. /\ log \in Seq(Reports) /\ Len(log) = n + 1 /\ log[n + 1] = e
      /\ \A i \in 1 .. n : log[i] = dialogLog[i]
  BY <1>1, AppendProperties
<1> HIDE DEF log
<1>6. /\ x \in 0 .. n /\ Len(dialogLog') = n + 1 - x /\ dialogLog' \in Seq(Reports)
      /\ \A i \in 1 .. (n + 1 - x) : dialogLog'[i] = log[i + x]
  BY <1>1, <1>5, LogCut
<1> HIDE DEF x
<1>7. \A i \in DOMAIN log : log[i] = e \/ \E k \in DOMAIN dialogLog : log[i] = dialogLog[k]
  BY <1>1, <1>5
<1>8. \A i \in DOMAIN dialogLog' : dialogLog'[i] = e \/ \E k \in DOMAIN dialogLog : dialogLog'[i] = dialogLog[k]
  <2>1. \A i \in DOMAIN dialogLog' : i + x \in DOMAIN log /\ dialogLog'[i] = log[i + x]
    BY <1>1, <1>5, <1>6
  <2>2. QED
    BY <1>7, <2>1
<1>9. Logged' \subseteq Logged \cup {showing[p]}
  BY <1>3, <1>8 DEF Logged
<1>10. /\ showing[p] \in Logged'
       /\ Logged \subseteq Logged' \cup forgotten'
  <2>1. n + 1 - x \in DOMAIN dialogLog' /\ dialogLog'[n + 1 - x] = e
    BY <1>1, <1>5, <1>6
  <2>2. showing[p] \in Logged'
    BY <1>3, <2>1 DEF Logged
  <2>3. ASSUME NEW k \in DOMAIN dialogLog PROVE dialogLog[k].id \in Logged' \cup forgotten'
    <3>1. CASE k <= x
      <4>1. k \in 1 .. x /\ log[k] = dialogLog[k]
        BY <1>1, <1>5, <1>6, <3>1
      <4>2. QED
        BY <1>2, <4>1
    <3>2. CASE ~(k <= x)
      <4>1. k - x \in DOMAIN dialogLog' /\ k - x + x = k /\ log[k] = dialogLog[k]
        BY <1>1, <1>5, <1>6, <3>2
      <4>2. dialogLog'[k - x] = dialogLog[k]
        BY <1>6, <4>1
      <4>3. QED
        BY <4>1, <4>2 DEF Logged
    <3>3. QED
      BY <3>1, <3>2
  <2>4. QED
    BY <2>2, <2>3 DEF Logged
<1>11. UNCHANGED <<InHeld, InReceipts>>
  BY <1>2 DEF InHeld, InReceipts, Held, Ids, Told
<1>12. Taken' \subseteq Taken \cup {showing[p]} /\ Taken \subseteq Taken' \cup forgotten' /\ showing[p] \in Taken'
  BY <1>9, <1>10, <1>11 DEF Taken
<1>13. Disjoint'
  <2>1. \A h \in Handlers : showing[p] \notin Ids(Held(h))
    BY <1>4 DEF Taken, InHeld
  <2>2. \A i \in DOMAIN receipts : showing[p] \notin Told(receipts[i])
    BY <1>4 DEF Taken, InReceipts
  <2>3. \A h \in Handlers : Ids(Held(h))' = Ids(Held(h))
    BY <1>2 DEF Ids, Held
  <2>4. \A i \in DOMAIN receipts : Told(receipts'[i]) = Told(receipts[i])
    BY <1>2 DEF Told
  <2>5. QED
    BY <1>2, <1>9, <2>1, <2>2, <2>3, <2>4 DEF DialogInv, PlacesInv, Disjoint
<1>14. LoggedOnce'
  <2>1. \A i \in DOMAIN dialogLog : dialogLog[i].id # showing[p]
    BY <1>4 DEF Taken, Logged
  <2>2. \A i, j \in DOMAIN log : log[i].id = log[j].id => i = j
    <3>1. ASSUME NEW i \in 1 .. (n + 1), NEW j \in 1 .. (n + 1), log[i].id = log[j].id PROVE i = j
      <4>1. CASE i \in 1 .. n /\ j \in 1 .. n
        BY <1>1, <1>5, <3>1, <4>1 DEF DialogInv, PlacesInv, LoggedOnce
      <4>2. CASE i = n + 1 /\ j \in 1 .. n
        BY <1>1, <1>3, <1>5, <2>1, <3>1, <4>2
      <4>3. CASE i \in 1 .. n /\ j = n + 1
        BY <1>1, <1>3, <1>5, <2>1, <3>1, <4>3
      <4>4. QED
        BY <1>1, <4>1, <4>2, <4>3
    <3>2. QED
      BY <1>1, <1>5, <3>1
  <2>3. ASSUME NEW i \in DOMAIN dialogLog', NEW j \in DOMAIN dialogLog',
               dialogLog'[i].id = dialogLog'[j].id
        PROVE  i = j
    <3>1. /\ i \in Nat /\ j \in Nat /\ x \in Nat /\ i + x \in DOMAIN log /\ j + x \in DOMAIN log
          /\ dialogLog'[i] = log[i + x] /\ dialogLog'[j] = log[j + x]
      BY <1>1, <1>5, <1>6
    <3>2. i + x = j + x
      BY <2>2, <2>3, <3>1
    <3>3. QED
      BY <3>1, <3>2
  <2>4. QED
    BY <2>3 DEF LoggedOnce
<1>15. /\ listener'[p] # Quiet /\ listener'[p].dialog = showing[p] /\ listener'[p].accept = policy
       /\ \A q \in Pages \ {p} : listener'[q] = listener[q]
  <2>1. [dialog |-> showing[p], accept |-> policy] # Quiet
    BY <1>2 DEF Quiet
  <2>2. QED
    BY <1>2, <2>1 DEF Shape, DialogTypes
<1>16. Fresh'
  <2>1. ASSUME NEW q \in Pages, showing'[q] # 0, listener'[q] = Quiet, showing'[q] \notin missed'
        PROVE  showing'[q] \notin Taken'
    <3>1. q # p /\ listener[q] = Quiet
      BY <1>15, <2>1
    <3>2. showing[q] \notin Taken /\ showing[q] # showing[p]
      BY <1>2, <2>1, <3>1 DEF DialogInv, PlacesInv, Fresh
    <3>3. QED
      BY <1>2, <1>12, <3>2
  <2>2. \A d \in Dialogs : d > opened' => d \notin Taken' /\ answered'[d] = "open"
    <3>1. \A d \in Dialogs : d > opened => d # showing[p]
      BY <1>1, EvidenceBounds DEF Shape, DialogTypes, Dialogs
    <3>2. QED
      BY <1>2, <1>12, <3>1 DEF DialogInv, PlacesInv, Fresh
  <2>3. QED
    BY <1>2, <2>1, <2>2 DEF DialogInv, PlacesInv, Fresh
<1>17. Listening' /\ NoneLost'
  <2>1. forgotten \subseteq forgotten'
    BY <1>2
  <2>2. QED
    BY <1>2, <1>12, <1>15, <2>1 DEF DialogInv, PlacesInv, Listening, NoneLost
<1>18. OwnPage'
  BY <1>2 DEF DialogInv, OwnPage, Held
<1>19. AgreeInv'
  <2>1. StillAgrees(e)
    <3>1. \A q \in Pages \ {p} : showing[q] # showing[p]
      BY <1>2 DEF DialogInv, PlacesInv, Fresh
    <3>2. QED
      BY <1>2, <1>3, <1>4, <1>15, <3>1 DEF StillAgrees
  <2>2. ASSUME NEW f, Agrees(f), f.id \in Taken PROVE StillAgrees(f)
    BY <1>2, <1>4, <1>15, <2>2 DEF Agrees, StillAgrees
  <2>3. \A i \in DOMAIN dialogLog : StillAgrees(dialogLog[i])
    BY <2>2 DEF DialogInv, AgreeInv, Taken, Logged
  <2>4. \A i \in DOMAIN dialogLog' : StillAgrees(dialogLog'[i])
    BY <1>8, <2>1, <2>3
  <2>5. \A h \in Handlers : \A i \in DOMAIN Held(h) : StillAgrees(Held(h)[i])
    BY <2>2 DEF DialogInv, AgreeInv, Taken, InHeld, Ids
  <2>6. \A k \in DOMAIN receipts : \A i \in DOMAIN receipts[k].dialogs : StillAgrees(receipts[k].dialogs[i])
    BY <2>2 DEF DialogInv, AgreeInv, Taken, InReceipts, Told
  <2>7. \A h \in Handlers : Held(h)' = Held(h)
    BY <1>2 DEF Held
  <2>8. QED
    BY <1>2, <2>4, <2>5, <2>6, <2>7, AgreeMoved
<1>20. QED
  BY <1>13, <1>14, <1>16, <1>17, <1>18, <1>19 DEF DialogInv, PlacesInv

(* Entries of the log, of a receipt being collected and of one written go  *)
(* on agreeing when every report does.                                     *)
LEMMA AgreeOn ==
  ASSUME Shape, AgreeInv, \A e \in Reports : Agrees(e) => StillAgrees(e)
  PROVE  /\ \A i \in DOMAIN dialogLog : StillAgrees(dialogLog[i])
         /\ \A h \in Handlers : \A i \in DOMAIN Held(h) : StillAgrees(Held(h)[i])
         /\ \A k \in DOMAIN receipts : \A i \in DOMAIN receipts[k].dialogs :
                StillAgrees(receipts[k].dialogs[i])
<1>1. ASSUME NEW i \in DOMAIN dialogLog PROVE StillAgrees(dialogLog[i])
  <2>1. dialogLog[i] \in Reports /\ Agrees(dialogLog[i])
    BY DEF Shape, DialogTypes, AgreeInv
  <2>2. QED
    BY <2>1
<1>2. ASSUME NEW h \in Handlers, NEW i \in DOMAIN Held(h) PROVE StillAgrees(Held(h)[i])
  <2>1. Held(h) \in Seq(Reports)
    BY HeldShape
  <2>2. Held(h)[i] \in Reports /\ Agrees(Held(h)[i])
    BY <2>1 DEF AgreeInv
  <2>3. QED
    BY <2>2
<1>3. ASSUME NEW k \in DOMAIN receipts, NEW i \in DOMAIN receipts[k].dialogs
      PROVE  StillAgrees(receipts[k].dialogs[i])
  <2>1. receipts[k].dialogs \in Seq(Reports)
    BY ToldShape
  <2>2. receipts[k].dialogs[i] \in Reports /\ Agrees(receipts[k].dialogs[i])
    BY <2>1 DEF AgreeInv
  <2>3. QED
    BY <2>2
<1>4. QED
  BY <1>1, <1>2, <1>3

(* The browser is told what the listener read, which is what was logged.   *)
LEMMA AnswersDialog ==
  ASSUME Shape, DialogInv, NEW p \in Pages, ListenerAnswers(p), UNCHANGED missed,
         answered' = [answered EXCEPT ![listener[p].dialog] = Answer(p)],
         showing' = [showing EXCEPT ![p] = 0]
  PROVE  DialogInv'
<1> DEFINE d == showing[p]
           a == listener[p].accept
<1>1. /\ d \in Dialogs /\ d # 0 /\ listener[p].dialog = d /\ listener[p] # Quiet
      /\ d \in Taken \cup forgotten /\ answered[d] = "open" /\ d <= opened
  <2>1. listener[p] # Quiet /\ d # 0 /\ listener[p].dialog = d /\ d \in Taken \cup forgotten
    BY DEF ListenerAnswers, DialogInv, PlacesInv, Listening
  <2>2. d \in 0 .. opened /\ opened \in 0 .. MaxEffects
    BY DEF Shape, DialogTypes
  <2>3. answered[d] = "open"
    BY <2>1 DEF DialogInv, PlacesInv, Fresh
  <2>4. QED
    BY <2>1, <2>2, <2>3, EvidenceBounds DEF Dialogs
<1>2. /\ answered' = [answered EXCEPT ![d] = a]
      /\ showing' = [showing EXCEPT ![p] = 0] /\ listener' = [listener EXCEPT ![p] = Quiet]
      /\ UNCHANGED <<opened, missed, dialogLog, forgotten, at, receipts>>
  BY <1>1 DEF ListenerAnswers, Answer, requestVars
<1>3. /\ answered'[d] = a /\ \A c \in Dialogs : c # d => answered'[c] = answered[c]
      /\ showing'[p] = 0 /\ listener'[p] = Quiet
      /\ \A q \in Pages \ {p} : showing'[q] = showing[q] /\ listener'[q] = listener[q]
  <2>1. /\ answered \in [Dialogs -> Policies \cup {"open"}] /\ p \in DOMAIN showing
        /\ DOMAIN showing = Pages /\ DOMAIN listener = Pages
    BY DEF Shape, DialogTypes
  <2>2. QED
    BY <1>1, <1>2, <2>1
<1>4. \A q \in Pages \ {p} : showing[q] # 0 => showing[q] # d
  BY DEF DialogInv, PlacesInv, Fresh
<1>5. \A q \in Pages : showing[q] # 0 => showing[q] \in Dialogs
  <2>1. showing \in [Pages -> 0 .. opened] /\ opened \in 0 .. MaxEffects
    BY DEF Shape, DialogTypes
  <2>2. QED
    BY <2>1, EvidenceBounds DEF Dialogs
<1> HIDE DEF d, a
<1>6. UNCHANGED <<Logged, InReceipts, InHeld, Taken>>
  BY <1>2 DEF Logged, InReceipts, InHeld, Taken, Told, Ids, Held
<1>7. Disjoint' /\ LoggedOnce' /\ OwnPage'
  <2>1. \A h \in Handlers : Held(h)' = Held(h) /\ Ids(Held(h))' = Ids(Held(h))
    BY <1>2 DEF Held, Ids
  <2>2. \A i \in DOMAIN receipts : Told(receipts'[i]) = Told(receipts[i])
    BY <1>2 DEF Told
  <2>3. Disjoint'
    BY <1>2, <1>6, <2>1, <2>2 DEF DialogInv, PlacesInv, Disjoint
  <2>4. LoggedOnce'
    BY <1>2 DEF DialogInv, PlacesInv, LoggedOnce
  <2>5. OwnPage'
    BY <1>2, <2>1 DEF DialogInv, OwnPage
  <2>6. QED
    BY <2>3, <2>4, <2>5
<1>8. Fresh'
  <2>1. \A q \in Pages : showing'[q] # 0 => q # p
    BY <1>3
  <2>2. \A q \in Pages : /\ showing'[q] # 0 /\ listener'[q] = Quiet
                          /\ showing'[q] \notin missed' => showing'[q] \notin Taken'
    BY <1>2, <1>3, <1>6, <2>1 DEF DialogInv, PlacesInv, Fresh
  <2>3. \A c \in Dialogs : c > opened' => c \notin Taken' /\ answered'[c] = "open"
    <3>1. \A c \in Dialogs : c > opened => c # d
      BY <1>1, EvidenceBounds DEF Dialogs, Shape, DialogTypes
    <3>2. QED
      BY <1>2, <1>3, <1>6, <3>1 DEF DialogInv, PlacesInv, Fresh
  <2>4. \A q \in Pages : showing'[q] # 0 => answered'[showing'[q]] = "open"
    BY <1>3, <1>4, <1>5, <2>1 DEF DialogInv, PlacesInv, Fresh
  <2>5. \A q, r \in Pages : q # r /\ showing'[q] # 0 => showing'[q] # showing'[r]
    BY <1>3, <2>1 DEF DialogInv, PlacesInv, Fresh
  <2>6. QED
    BY <2>2, <2>3, <2>4, <2>5 DEF Fresh
<1>9. Listening'
  BY <1>2, <1>3, <1>6 DEF DialogInv, PlacesInv, Listening
<1>10. NoneLost'
  BY <1>1, <1>2, <1>3, <1>6 DEF DialogInv, PlacesInv, NoneLost
<1>11. AgreeInv'
  <2>1. ASSUME NEW e \in Reports, Agrees(e) PROVE StillAgrees(e)
    <3>1. e.id \in Dialogs
      BY DEF Reports
    <3>2. answered'[e.id] \in {e.accepted, "open"}
      <4>1. CASE e.id = d
        BY <1>1, <1>3, <2>1, <4>1 DEF Agrees, d, a
      <4>2. CASE e.id # d
        BY <1>3, <2>1, <3>1, <4>2 DEF Agrees
      <4>3. QED
        BY <4>1, <4>2
    <3>3. \A q \in Pages : listener'[q] # Quiet /\ showing'[q] = e.id => listener'[q].accept = e.accepted
      BY <1>3, <2>1 DEF Agrees
    <3>4. QED
      BY <3>2, <3>3 DEF StillAgrees
  <2>2. \A h \in Handlers : Held(h)' = Held(h)
    BY <1>2 DEF Held
  <2>3. AgreeInv
    BY DEF DialogInv
  <2>4. /\ \A i \in DOMAIN dialogLog : StillAgrees(dialogLog[i])
        /\ \A h \in Handlers : \A i \in DOMAIN Held(h) : StillAgrees(Held(h)[i])
        /\ \A k \in DOMAIN receipts : \A i \in DOMAIN receipts[k].dialogs :
               StillAgrees(receipts[k].dialogs[i])
    BY <2>1, <2>3, AgreeOn
  <2>5. QED
    BY <1>2, <2>2, <2>4, AgreeMoved
<1>12. QED
  BY <1>7, <1>8, <1>9, <1>10, <1>11 DEF DialogInv, PlacesInv

(* An answer that fails is not tried again: the dialog stays where it is.  *)
LEMMA MissesDialog ==
  ASSUME Shape, DialogInv, NEW p \in Pages, ListenerAnswers(p),
         missed' = missed \cup {listener[p].dialog}, UNCHANGED <<answered, showing>>
  PROVE  DialogInv'
<1>1. /\ listener[p] # Quiet /\ listener' = [listener EXCEPT ![p] = Quiet]
      /\ UNCHANGED <<opened, answered, showing, dialogLog, forgotten, at, receipts>>
  BY DEF ListenerAnswers, requestVars
<1>2. /\ listener'[p] = Quiet /\ \A q \in Pages \ {p} : listener'[q] = listener[q]
      /\ showing[p] \in missed' /\ missed \subseteq missed'
  BY <1>1 DEF Shape, DialogTypes, DialogInv, PlacesInv, Listening
<1>3. UNCHANGED <<Logged, InReceipts, InHeld, Taken>>
  BY <1>1 DEF Logged, InReceipts, InHeld, Taken, Told, Ids, Held
<1>4. \A h \in Handlers : Held(h)' = Held(h) /\ Ids(Held(h))' = Ids(Held(h))
  BY <1>1 DEF Held, Ids
<1>5. \A i \in DOMAIN receipts : Told(receipts'[i]) = Told(receipts[i])
  BY <1>1 DEF Told
<1>6. Disjoint' /\ LoggedOnce'
  BY <1>1, <1>3, <1>4, <1>5 DEF DialogInv, PlacesInv, Disjoint, LoggedOnce
<1>7. OwnPage'
  BY <1>1, <1>4 DEF DialogInv, OwnPage
<1>8. Fresh'
  BY <1>1, <1>2, <1>3 DEF DialogInv, PlacesInv, Fresh
<1>9. Listening' /\ NoneLost'
  BY <1>1, <1>2, <1>3 DEF DialogInv, PlacesInv, Listening, NoneLost
<1>10. AgreeInv'
  <2>1. \A e \in Reports : Agrees(e) => StillAgrees(e)
    BY <1>1, <1>2 DEF Agrees, StillAgrees
  <2>2. AgreeInv
    BY DEF DialogInv
  <2>3. /\ \A i \in DOMAIN dialogLog : StillAgrees(dialogLog[i])
        /\ \A h \in Handlers : \A i \in DOMAIN Held(h) : StillAgrees(Held(h)[i])
        /\ \A k \in DOMAIN receipts : \A i \in DOMAIN receipts[k].dialogs :
               StillAgrees(receipts[k].dialogs[i])
    BY <2>1, <2>2, AgreeOn
  <2>4. QED
    BY <1>1, <1>4, <2>3, AgreeMoved
<1>11. QED
  BY <1>6, <1>7, <1>8, <1>9, <1>10 DEF DialogInv, PlacesInv

LEMMA ListenerTells ==
  ASSUME Shape, DialogInv, NEW p \in Pages, ListenerAnswers(p)
  PROVE  DialogInv'
BY AnswersDialog, MissesDialog DEF ListenerAnswers

(* POST /dialogs empties the log; what was in it is forgotten.             *)
LEMMA ClearsDialogs ==
  ASSUME Shape, DialogInv, ClearDialogs
  PROVE  DialogInv'
<1>1. /\ dialogLog' = <<>> /\ forgotten' = forgotten \cup Logged
      /\ UNCHANGED <<opened, showing, answered, missed, listener, at, receipts>>
  BY DEF ClearDialogs, requestVars
<1>2. DOMAIN dialogLog' = {} /\ Logged' = {}
  BY <1>1 DEF Logged
<1>3. UNCHANGED <<InHeld, InReceipts>>
  BY <1>1 DEF InHeld, InReceipts, Held, Ids, Told
<1>4. \A h \in Handlers : Held(h)' = Held(h) /\ Ids(Held(h))' = Ids(Held(h))
  BY <1>1 DEF Held, Ids
<1>5. \A i \in DOMAIN receipts : Told(receipts'[i]) = Told(receipts[i])
  BY <1>1 DEF Told
<1>6. Disjoint' /\ LoggedOnce'
  BY <1>1, <1>2, <1>4, <1>5 DEF DialogInv, PlacesInv, Disjoint, LoggedOnce
<1>7. Taken' \subseteq Taken /\ Taken \subseteq Taken' \cup forgotten' /\ forgotten \subseteq forgotten'
  BY <1>1, <1>2, <1>3 DEF Taken
<1>8. PlacesInv'
  BY <1>1, <1>6, <1>7, PlacesMoved DEF DialogInv
<1>9. OwnPage'
  BY <1>1, <1>4 DEF DialogInv, OwnPage
<1>10. AgreeInv'
  <2>1. \A e \in Reports : Agrees(e) => StillAgrees(e)
    BY <1>1 DEF Agrees, StillAgrees
  <2>2. AgreeInv
    BY DEF DialogInv
  <2>3. /\ \A h \in Handlers : \A i \in DOMAIN Held(h) : StillAgrees(Held(h)[i])
        /\ \A k \in DOMAIN receipts : \A i \in DOMAIN receipts[k].dialogs :
               StillAgrees(receipts[k].dialogs[i])
    BY <2>1, <2>2, AgreeOn
  <2>4. QED
    BY <1>1, <1>2, <1>4, <2>3, AgreeMoved
<1>11. QED
  BY <1>8, <1>9, <1>10 DEF DialogInv

(* Collecting a page's dialogs parts the log in two.                       *)
LEMMA DrainParts ==
  ASSUME Shape, LoggedOnce, NEW p
  PROVE  /\ \A k \in DOMAIN dialogsOf(p) : /\ dialogsOf(p)[k].page = p
                                           /\ \E i \in DOMAIN dialogLog : dialogsOf(p)[k] = dialogLog[i]
         /\ \A k \in DOMAIN drainDialogsFor(p) :
                \E i \in DOMAIN dialogLog : drainDialogsFor(p)[k] = dialogLog[i]
         /\ Ids(dialogsOf(p)) \cup Ids(drainDialogsFor(p)) = Logged
         /\ Ids(dialogsOf(p)) \cap Ids(drainDialogsFor(p)) = {}
         /\ \A k, l \in DOMAIN drainDialogsFor(p) :
                drainDialogsFor(p)[k].id = drainDialogsFor(p)[l].id => k = l
<1> DEFINE K == {i \in DOMAIN dialogLog : dialogLog[i].page = p}
           L == {i \in DOMAIN dialogLog : dialogLog[i].page # p}
<1>1. K \in SUBSET DOMAIN dialogLog /\ L \in SUBSET DOMAIN dialogLog /\ dialogLog \in Seq(Reports)
  BY DEF Shape, DialogTypes
<1>2. dialogsOf(p) = Kept(dialogLog, K) /\ drainDialogsFor(p) = Kept(dialogLog, L)
  BY DEF dialogsOf, drainDialogsFor
<1>3. /\ \A i \in DOMAIN dialogLog : i \in K \/ i \in L
      /\ \A i \in K : dialogLog[i].page = p
      /\ \A i \in K, j \in L : i # j
  OBVIOUS
<1> HIDE DEF K, L
<1>4. /\ \A i \in K : \E k \in DOMAIN dialogsOf(p) : dialogsOf(p)[k] = dialogLog[i]
      /\ \A k \in DOMAIN dialogsOf(p) : \E i \in K : dialogsOf(p)[k] = dialogLog[i]
  BY <1>1, <1>2, KeptElements
<1>5. /\ \A i \in L : \E k \in DOMAIN drainDialogsFor(p) : drainDialogsFor(p)[k] = dialogLog[i]
      /\ \A k \in DOMAIN drainDialogsFor(p) : \E i \in L : drainDialogsFor(p)[k] = dialogLog[i]
  BY <1>1, <1>2, KeptElements
<1>6. PICK from \in [DOMAIN drainDialogsFor(p) -> L] :
        /\ \A k \in DOMAIN drainDialogsFor(p) : drainDialogsFor(p)[k] = dialogLog[from[k]]
        /\ \A k, l \in DOMAIN drainDialogsFor(p) : from[k] = from[l] => k = l
  <2>1. \E from \in [DOMAIN Kept(dialogLog, L) -> L] :
            /\ \A k \in DOMAIN Kept(dialogLog, L) : Kept(dialogLog, L)[k] = dialogLog[from[k]]
            /\ \A k, l \in DOMAIN Kept(dialogLog, L) : from[k] = from[l] => k = l
    BY <1>1, KeptElements
  <2>2. QED
    BY <1>2, <2>1
<1>7. Ids(dialogsOf(p)) \cup Ids(drainDialogsFor(p)) = Logged
  <2>1. Ids(dialogsOf(p)) \subseteq Logged
    BY <1>1, <1>4 DEF Ids, Logged
  <2>2. Ids(drainDialogsFor(p)) \subseteq Logged
    <3>1. ASSUME NEW k \in DOMAIN drainDialogsFor(p) PROVE drainDialogsFor(p)[k].id \in Logged
      <4>1. PICK i \in L : drainDialogsFor(p)[k] = dialogLog[i]
        BY <1>5
      <4>2. i \in DOMAIN dialogLog
        BY <1>1
      <4>3. QED
        BY <4>1, <4>2 DEF Logged
    <3>2. QED
      BY <3>1 DEF Ids
  <2>3. \A i \in DOMAIN dialogLog : dialogLog[i].id \in Ids(dialogsOf(p)) \cup Ids(drainDialogsFor(p))
    BY <1>3, <1>4, <1>5 DEF Ids
  <2>4. QED
    BY <2>1, <2>2, <2>3 DEF Logged
<1>8. Ids(dialogsOf(p)) \cap Ids(drainDialogsFor(p)) = {}
  <2>1. ASSUME NEW k \in DOMAIN dialogsOf(p), NEW l \in DOMAIN drainDialogsFor(p)
        PROVE  dialogsOf(p)[k].id # drainDialogsFor(p)[l].id
    <3>1. PICK i \in K : dialogsOf(p)[k] = dialogLog[i]
      BY <1>4
    <3>2. PICK j \in L : drainDialogsFor(p)[l] = dialogLog[j]
      BY <1>5
    <3>3. i # j /\ i \in DOMAIN dialogLog /\ j \in DOMAIN dialogLog
      BY <1>1, <1>3
    <3>4. QED
      BY <3>1, <3>2, <3>3 DEF LoggedOnce
  <2>2. QED
    BY <2>1 DEF Ids
<1>9. \A k, l \in DOMAIN drainDialogsFor(p) :
          drainDialogsFor(p)[k].id = drainDialogsFor(p)[l].id => k = l
  <2>1. ASSUME NEW k \in DOMAIN drainDialogsFor(p), NEW l \in DOMAIN drainDialogsFor(p),
               drainDialogsFor(p)[k].id = drainDialogsFor(p)[l].id
        PROVE  k = l
    <3>1. from[k] \in DOMAIN dialogLog /\ from[l] \in DOMAIN dialogLog
      BY <1>1
    <3>2. from[k] = from[l]
      BY <1>6, <2>1, <3>1 DEF LoggedOnce
    <3>3. QED
      BY <1>6, <3>2
  <2>2. QED
    BY <2>1
<1>10. QED
  BY <1>1, <1>3, <1>4, <1>5, <1>7, <1>8, <1>9

(* A request takes its page's dialogs out of the log.                      *)
LEMMA DrainsDialogs ==
  ASSUME Shape, DialogInv, NEW h \in Handlers, DrainDialogs(h)
  PROVE  DialogInv'
<1> DEFINE p == at[h].page
<1>1. /\ at[h].step = "settle" /\ dialogLog' = drainDialogsFor(p)
      /\ at' = [at EXCEPT ![h] = [step |-> "downloads", page |-> p, startTS |-> at[h].startTS,
                                  dialogs |-> dialogsOf(p)]]
      /\ UNCHANGED <<opened, showing, answered, missed, listener, receipts, forgotten>>
  BY DEF DrainDialogs
<1>2. /\ at'[h].step = "downloads" /\ at'[h].page = p /\ at'[h].dialogs = dialogsOf(p)
      /\ \A g \in Handlers \ {h} : at'[g] = at[g]
  BY <1>1 DEF Shape, RequestTypes
<1> HIDE DEF p
<1>3. /\ Held(h)' = dialogsOf(p) /\ Ids(Held(h))' = Ids(dialogsOf(p))
      /\ Held(h) = <<>> /\ Ids(Held(h)) = {}
      /\ \A g \in Handlers \ {h} : Held(g)' = Held(g) /\ Ids(Held(g))' = Ids(Held(g))
  <2>1. Held(h) = <<>> /\ Ids(Held(h)) = {}
    BY <1>1, HeldShape
  <2>2. Held(h)' = dialogsOf(p) /\ Ids(Held(h))' = Ids(dialogsOf(p))
    BY <1>2 DEF Held, Ids
  <2>3. \A g \in Handlers \ {h} : Held(g)' = Held(g) /\ Ids(Held(g))' = Ids(Held(g))
    BY <1>2 DEF Held, Ids
  <2>4. QED
    BY <2>1, <2>2, <2>3
<1>4. /\ \A k \in DOMAIN dialogsOf(p) : /\ dialogsOf(p)[k].page = p
                                        /\ \E i \in DOMAIN dialogLog : dialogsOf(p)[k] = dialogLog[i]
      /\ \A k \in DOMAIN dialogLog' : \E i \in DOMAIN dialogLog : dialogLog'[k] = dialogLog[i]
      /\ Ids(dialogsOf(p)) \cup Logged' = Logged /\ Ids(dialogsOf(p)) \cap Logged' = {}
      /\ LoggedOnce'
  <2>1. LoggedOnce
    BY DEF DialogInv, PlacesInv
  <2>2. Logged' = Ids(drainDialogsFor(p))
    BY <1>1 DEF Logged, Ids
  <2>3. QED
    BY <1>1, <2>1, <2>2, DrainParts DEF LoggedOnce
<1>5. \A i \in DOMAIN receipts : Told(receipts'[i]) = Told(receipts[i])
  BY <1>1 DEF Told
<1>6. Disjoint'
  <2>1. \A g \in Handlers : Ids(Held(g))' \cap Logged' = {}
    BY <1>3, <1>4 DEF DialogInv, PlacesInv, Disjoint
  <2>2. \A f, g \in Handlers : f # g => Ids(Held(f))' \cap Ids(Held(g))' = {}
    BY <1>3, <1>4 DEF DialogInv, PlacesInv, Disjoint
  <2>3. \A i \in DOMAIN receipts' : Told(receipts'[i]) \cap Logged' = {}
    BY <1>1, <1>4, <1>5 DEF DialogInv, PlacesInv, Disjoint
  <2>4. \A i \in DOMAIN receipts', g \in Handlers : Told(receipts'[i]) \cap Ids(Held(g))' = {}
    BY <1>1, <1>3, <1>4, <1>5 DEF DialogInv, PlacesInv, Disjoint
  <2>5. \A i, j \in DOMAIN receipts' : i # j => Told(receipts'[i]) \cap Told(receipts'[j]) = {}
    BY <1>1, <1>5 DEF DialogInv, PlacesInv, Disjoint
  <2>6. QED
    BY <2>1, <2>2, <2>3, <2>4, <2>5 DEF Disjoint
<1>7. Taken' = Taken
  <2>1. InReceipts' = InReceipts
    BY <1>1 DEF InReceipts, Told
  <2>2. InHeld' = InHeld \cup Ids(dialogsOf(p))
    BY <1>3 DEF InHeld
  <2>3. QED
    BY <1>4, <2>1, <2>2 DEF Taken
<1>8. PlacesInv'
  BY <1>1, <1>4, <1>6, <1>7, PlacesMoved DEF DialogInv
<1>9. OwnPage'
  <2>1. ASSUME NEW g \in Handlers, NEW i \in DOMAIN Held(g)' PROVE Held(g)'[i].page = at'[g].page
    <3>1. CASE g = h
      BY <1>2, <1>3, <1>4, <2>1, <3>1
    <3>2. CASE g # h
      BY <1>2, <1>3, <2>1, <3>2 DEF DialogInv, OwnPage
    <3>3. QED
      BY <3>1, <3>2
  <2>2. QED
    BY <1>1, <2>1 DEF DialogInv, OwnPage
<1>10. AgreeInv'
  <2>1. \A e \in Reports : Agrees(e) => StillAgrees(e)
    BY <1>1 DEF Agrees, StillAgrees
  <2>2. AgreeInv
    BY DEF DialogInv
  <2>3. /\ \A i \in DOMAIN dialogLog : StillAgrees(dialogLog[i])
        /\ \A g \in Handlers : \A i \in DOMAIN Held(g) : StillAgrees(Held(g)[i])
        /\ \A k \in DOMAIN receipts : \A i \in DOMAIN receipts[k].dialogs :
               StillAgrees(receipts[k].dialogs[i])
    BY <2>1, <2>2, AgreeOn
  <2>4. \A i \in DOMAIN dialogLog' : StillAgrees(dialogLog'[i])
    BY <1>4, <2>3
  <2>5. \A g \in Handlers : \A i \in DOMAIN Held(g)' : StillAgrees(Held(g)'[i])
    <3>1. ASSUME NEW g \in Handlers, NEW i \in DOMAIN Held(g)' PROVE StillAgrees(Held(g)'[i])
      <4>1. CASE g = h
        <5>1. Held(g)' = dialogsOf(p)
          BY <1>3, <4>1
        <5>2. QED
          BY <1>4, <2>3, <3>1, <5>1
      <4>2. CASE g # h
        <5>1. Held(g)' = Held(g)
          BY <1>3, <4>2
        <5>2. QED
          BY <2>3, <3>1, <5>1
      <4>3. QED
        BY <4>1, <4>2
    <3>2. QED
      BY <3>1
  <2>6. QED
    BY <1>1, <2>3, <2>4, <2>5, AgreeMoved
<1>11. QED
  BY <1>8, <1>9, <1>10 DEF DialogInv

(* The receipt takes over what the request collected.                      *)
LEMMA WritesReceipt ==
  ASSUME Shape, DialogInv, NEW h \in Handlers, WriteEvidence(h) \/ ReportDialogs(h)
  PROVE  DialogInv'
<1> DEFINE n == Len(receipts)
<1>1. /\ at[h].step = "downloads" /\ at' = [at EXCEPT ![h] = Idle]
      /\ UNCHANGED <<opened, showing, answered, missed, listener, dialogLog, forgotten>>
  BY DEF WriteEvidence, ReportDialogs, ActionDone, dialogVars
<1>2. /\ at'[h] = Idle /\ \A g \in Handlers \ {h} : at'[g] = at[g]
      /\ receipts \in Seq(Receipts) /\ n \in Nat
  BY <1>1 DEF Shape, RequestTypes
<1>3. /\ Held(h)' = <<>> /\ Ids(Held(h))' = {} /\ Held(h) = at[h].dialogs
      /\ \A g \in Handlers \ {h} : Held(g)' = Held(g) /\ Ids(Held(g))' = Ids(Held(g))
  <2>1. at'[h].step # "downloads"
    BY <1>2 DEF Idle
  <2>2. Held(h)' = <<>> /\ Ids(Held(h))' = {} /\ Held(h) = at[h].dialogs
    BY <1>1, <2>1 DEF Held, Ids
  <2>3. \A g \in Handlers \ {h} : Held(g)' = Held(g) /\ Ids(Held(g))' = Ids(Held(g))
    BY <1>2 DEF Held, Ids
  <2>4. QED
    BY <2>2, <2>3
<1>4. CASE receipts' = receipts /\ at[h].dialogs = <<>>
  <2>1. \A g \in Handlers : Held(g)' = Held(g) /\ (Held(g) # <<>> => at'[g].page = at[g].page)
    BY <1>2, <1>3, <1>4
  <2>2. QED
    BY <1>1, <1>4, <2>1, DialogsStay
<1>5. ASSUME NEW r \in Receipts, r.page = at[h].page, r.dialogs = at[h].dialogs,
             receipts' = Append(receipts, r)
      PROVE  DialogInv'
  <2>1. /\ DOMAIN receipts = 1 .. n /\ DOMAIN receipts' = 1 .. (n + 1) /\ receipts'[n + 1] = r
        /\ \A i \in DOMAIN receipts : receipts'[i] = receipts[i]
    BY <1>2, <1>5, AppendProperties
  <2>2. \A i \in DOMAIN receipts' : i = n + 1 \/ i \in DOMAIN receipts
    BY <1>2, <2>1
  <2>3. /\ Told(receipts'[n + 1]) = Ids(Held(h))
        /\ \A i \in DOMAIN receipts : Told(receipts'[i]) = Told(receipts[i])
    BY <1>3, <1>5, <2>1 DEF Told, Ids
  <2>4. UNCHANGED Logged
    BY <1>1 DEF Logged
  <2> HIDE DEF n
  <2>5. Disjoint'
    <3>1. \A g \in Handlers : Ids(Held(g))' \cap Logged' = {}
      BY <1>3, <2>4 DEF DialogInv, PlacesInv, Disjoint
    <3>2. \A f, g \in Handlers : f # g => Ids(Held(f))' \cap Ids(Held(g))' = {}
      BY <1>3 DEF DialogInv, PlacesInv, Disjoint
    <3>3. ASSUME NEW i \in DOMAIN receipts' PROVE Told(receipts'[i]) \cap Logged' = {}
      BY <2>2, <2>3, <2>4 DEF DialogInv, PlacesInv, Disjoint
    <3>4. ASSUME NEW i \in DOMAIN receipts', NEW g \in Handlers
          PROVE  Told(receipts'[i]) \cap Ids(Held(g))' = {}
      <4>1. CASE g = h
        BY <1>3, <4>1
      <4>2. CASE g # h
        BY <1>3, <2>2, <2>3, <4>2 DEF DialogInv, PlacesInv, Disjoint
      <4>3. QED
        BY <4>1, <4>2
    <3>5. ASSUME NEW i \in DOMAIN receipts', NEW j \in DOMAIN receipts', i # j
          PROVE  Told(receipts'[i]) \cap Told(receipts'[j]) = {}
      <4>1. CASE i \in DOMAIN receipts /\ j \in DOMAIN receipts
        BY <2>3, <3>5, <4>1 DEF DialogInv, PlacesInv, Disjoint
      <4>2. CASE i = n + 1 /\ j \in DOMAIN receipts
        BY <2>3, <4>2 DEF DialogInv, PlacesInv, Disjoint
      <4>3. CASE i \in DOMAIN receipts /\ j = n + 1
        BY <2>3, <4>3 DEF DialogInv, PlacesInv, Disjoint
      <4>4. QED
        BY <2>2, <3>5, <4>1, <4>2, <4>3
    <3>6. QED
      BY <3>1, <3>2, <3>3, <3>4, <3>5 DEF Disjoint
  <2>6. Taken' = Taken
    <3>1. InReceipts' = InReceipts \cup Ids(Held(h))
      <4>1. DOMAIN receipts' = DOMAIN receipts \cup {n + 1}
        BY <1>2, <2>1
      <4>2. InReceipts' = UNION {Told(receipts'[i]) : i \in DOMAIN receipts'}
        BY DEF InReceipts
      <4>3. QED
        BY <2>3, <4>1, <4>2 DEF InReceipts
    <3>2. InHeld = InHeld' \cup Ids(Held(h))
      BY <1>3 DEF InHeld
    <3>3. QED
      BY <2>4, <3>1, <3>2 DEF Taken
  <2>7. LoggedOnce'
    BY <1>1 DEF DialogInv, PlacesInv, LoggedOnce
  <2>8. PlacesInv'
    BY <1>1, <2>5, <2>6, <2>7, PlacesMoved DEF DialogInv
  <2>9. OwnPage'
    <3>1. ASSUME NEW g \in Handlers, NEW i \in DOMAIN Held(g)' PROVE Held(g)'[i].page = at'[g].page
      <4>1. g # h
        BY <1>3, <3>1
      <4>2. QED
        BY <1>2, <1>3, <3>1, <4>1 DEF DialogInv, OwnPage
    <3>2. ASSUME NEW k \in DOMAIN receipts', NEW i \in DOMAIN receipts'[k].dialogs
          PROVE  receipts'[k].dialogs[i].page = receipts'[k].page
      <4>1. CASE k = n + 1
        BY <1>3, <1>5, <2>1, <3>2, <4>1 DEF DialogInv, OwnPage
      <4>2. CASE k \in DOMAIN receipts
        BY <2>1, <3>2, <4>2 DEF DialogInv, OwnPage
      <4>3. QED
        BY <2>2, <4>1, <4>2
    <3>3. QED
      BY <3>1, <3>2 DEF OwnPage
  <2>10. AgreeInv'
    <3>1. \A e \in Reports : Agrees(e) => StillAgrees(e)
      BY <1>1 DEF Agrees, StillAgrees
    <3>2. AgreeInv
      BY DEF DialogInv
    <3>3. /\ \A i \in DOMAIN dialogLog : StillAgrees(dialogLog[i])
          /\ \A g \in Handlers : \A i \in DOMAIN Held(g) : StillAgrees(Held(g)[i])
          /\ \A k \in DOMAIN receipts : \A i \in DOMAIN receipts[k].dialogs :
                 StillAgrees(receipts[k].dialogs[i])
      BY <3>1, <3>2, AgreeOn
    <3>4. ASSUME NEW g \in Handlers, NEW i \in DOMAIN Held(g)' PROVE StillAgrees(Held(g)'[i])
      <4>1. g # h
        BY <1>3, <3>4
      <4>2. Held(g)' = Held(g)
        BY <1>3, <4>1
      <4>3. QED
        BY <3>3, <3>4, <4>2
    <3>5. ASSUME NEW k \in DOMAIN receipts', NEW i \in DOMAIN receipts'[k].dialogs
          PROVE  StillAgrees(receipts'[k].dialogs[i])
      <4>1. CASE k = n + 1
        <5>1. receipts'[k].dialogs = Held(h)
          BY <1>3, <1>5, <2>1, <4>1
        <5>2. QED
          BY <3>3, <3>5, <5>1
      <4>2. CASE k \in DOMAIN receipts
        <5>1. receipts'[k].dialogs = receipts[k].dialogs
          BY <2>1, <4>2
        <5>2. QED
          BY <3>3, <3>5, <4>2, <5>1
      <4>3. QED
        BY <2>2, <4>1, <4>2
    <3>6. \A i \in DOMAIN dialogLog' : StillAgrees(dialogLog'[i])
      BY <1>1, <3>3
    <3>7. QED
      BY <3>4, <3>5, <3>6, AgreeMoved
  <2>11. QED
    BY <2>8, <2>9, <2>10 DEF DialogInv
<1>6. ASSUME NEW ds \in Seq(Entries)
      PROVE  [page |-> at[h].page, dialogs |-> at[h].dialogs, downloads |-> ds] \in Receipts
  <2>1. at[h] \in Reporting
    BY <1>1, RequestShape
  <2>2. QED
    BY <2>1 DEF Reporting, Receipts
<1>7. CASE WriteEvidence(h)
  <2>1. downloadsSince(at[h].startTS) \in Seq(Entries)
    BY SinceShape
  <2>2. QED
    BY <1>5, <1>6, <1>7, <2>1 DEF WriteEvidence
<1>8. CASE ReportDialogs(h)
  <2>1. <<>> \in Seq(Entries)
    BY EmptySeq
  <2>2. QED
    BY <1>4, <1>5, <1>6, <1>8, <2>1 DEF ReportDialogs
<1>9. QED
  BY <1>7, <1>8

(* A restart forgets every dialog that is not in a receipt.                *)
LEMMA RestartForgets ==
  ASSUME Shape, DialogInv, Restart
  PROVE  DialogInv'
<1>1. /\ showing' = [p \in Pages |-> 0] /\ listener' = [p \in Pages |-> Quiet]
      /\ dialogLog' = <<>> /\ at' = [h \in Handlers |-> Idle]
      /\ forgotten' = forgotten \cup Logged \cup InFlight \cup {d \in 1 .. opened : answered[d] = "open"}
      /\ UNCHANGED <<opened, answered, receipts>>
  BY DEF Restart
<1>2. InFlight = InHeld
  BY FlightIsHeld
<1>3. DOMAIN dialogLog' = {} /\ Logged' = {}
  BY <1>1 DEF Logged
<1>4. \A h \in Handlers : Held(h)' = <<>> /\ Ids(Held(h))' = {}
  BY <1>1 DEF Held, Idle, Ids
<1>5. \A i \in DOMAIN receipts : Told(receipts'[i]) = Told(receipts[i])
  BY <1>1 DEF Told
<1>6. InHeld' = {} /\ InReceipts' = InReceipts
  BY <1>1, <1>4, <1>5 DEF InHeld, InReceipts
<1>7. Taken' \subseteq Taken /\ Taken \cup forgotten \subseteq Taken' \cup forgotten'
  BY <1>1, <1>2, <1>3, <1>6 DEF Taken
<1>8. Disjoint'
  BY <1>1, <1>3, <1>4, <1>5 DEF DialogInv, PlacesInv, Disjoint
<1>9. LoggedOnce'
  BY <1>3 DEF LoggedOnce
<1>10. Fresh' /\ Listening' /\ NoneLost'
  <2>1. Fresh'
    BY <1>1, <1>7 DEF DialogInv, PlacesInv, Fresh
  <2>2. Listening'
    BY <1>1 DEF Listening
  <2>3. NoneLost'
    BY <1>1, <1>7 DEF DialogInv, PlacesInv, NoneLost
  <2>4. QED
    BY <2>1, <2>2, <2>3
<1>11. OwnPage'
  BY <1>1, <1>4 DEF DialogInv, OwnPage
<1>12. AgreeInv'
  <2>1. \A e \in Reports : Agrees(e) => StillAgrees(e)
    BY <1>1 DEF Agrees, StillAgrees
  <2>2. AgreeInv
    BY DEF DialogInv
  <2>3. \A k \in DOMAIN receipts : \A i \in DOMAIN receipts[k].dialogs :
            StillAgrees(receipts[k].dialogs[i])
    BY <2>1, <2>2, AgreeOn
  <2>4. \A h \in Handlers : DOMAIN Held(h)' = {}
    BY <1>4
  <2>5. QED
    BY <1>1, <1>3, <2>3, <2>4, AgreeMoved
<1>13. QED
  BY <1>8, <1>9, <1>10, <1>11, <1>12 DEF DialogInv, PlacesInv

LEMMA DialogsStart == Init => DialogInv
<1> SUFFICES ASSUME Init PROVE DialogInv
  OBVIOUS
<1>1. /\ dialogLog = <<>> /\ receipts = <<>> /\ at = [h \in Handlers |-> Idle]
      /\ showing = [p \in Pages |-> 0] /\ listener = [p \in Pages |-> Quiet]
      /\ answered = [d \in Dialogs |-> "open"]
  BY DEF Init
<1>2. /\ DOMAIN dialogLog = {} /\ DOMAIN receipts = {}
      /\ \A h \in Handlers : DOMAIN Held(h) = {} /\ Ids(Held(h)) = {}
  BY <1>1 DEF Held, Idle, Ids
<1>3. Logged = {} /\ InHeld = {} /\ InReceipts = {}
  BY <1>2 DEF Logged, InHeld, InReceipts
<1>4. Disjoint /\ LoggedOnce
  BY <1>2 DEF Disjoint, LoggedOnce
<1>5. Fresh /\ Listening /\ NoneLost
  BY <1>1, <1>3 DEF Fresh, Listening, NoneLost, Taken
<1>6. OwnPage /\ AgreeInv
  BY <1>2 DEF OwnPage, AgreeInv
<1>7. QED
  BY <1>4, <1>5, <1>6 DEF DialogInv, PlacesInv

LEMMA DialogStep ==
  ASSUME Shape, DialogInv, [Next]_vars
  PROVE  DialogInv'
<1> DEFINE Dealt == UNCHANGED <<opened, showing, answered, missed, listener, dialogLog, forgotten, receipts>>
<1>1. ASSUME NEW p \in Pages, DialogOpens(p) \/ ListenerLogs(p) \/ ListenerAnswers(p)
      PROVE  DialogInv'
  BY <1>1, OpensDialog, LogsDialog, ListenerTells
<1>2. ASSUME Dealt, UNCHANGED at PROVE DialogInv'
  <2>1. \A h \in Handlers : Held(h)' = Held(h)
    BY <1>2 DEF Held
  <2>2. QED
    BY <1>2, <2>1, DialogsStay
<1>3. CASE SetPolicy \/ ClearDownloads \/ HandleBegin \/ HandleEnd \/ UNCHANGED vars
  <2>1. Dealt /\ UNCHANGED at
    BY <1>3, EndStep DEF SetPolicy, ClearDownloads, HandleBegin, dialogVars, requestVars, vars
  <2>2. QED
    BY <1>2, <2>1
<1>4. CASE ClearDialogs
  BY <1>4, ClearsDialogs
<1>5. CASE Restart
  BY <1>5, RestartForgets
<1>6. ASSUME NEW n \in Names, BrowserBegins(n) PROVE DialogInv'
  BY <1>2, <1>6 DEF BrowserBegins, dialogVars, requestVars
<1>7. ASSUME NEW g, NEW s, BrowserEnds(g, s) PROVE DialogInv'
  BY <1>2, <1>7 DEF BrowserEnds, dialogVars, requestVars
<1>8. ASSUME NEW h \in Handlers, NEW p \in Pages, ActionStart(h, p) PROVE DialogInv'
  <2>1. Dealt /\ at[h].step # "downloads" /\ \A g \in Handlers \ {h} : at'[g] = at[g]
    BY <1>8 DEF ActionStart, dialogVars, Shape, RequestTypes, Idle
  <2>2. at'[h].step # "downloads"
    BY <1>8 DEF ActionStart, Shape, RequestTypes
  <2>3. \A g \in Handlers : Held(g)' = Held(g) /\ (Held(g) # <<>> => at'[g].page = at[g].page)
    BY <2>1, <2>2 DEF Held
  <2>4. QED
    BY <2>1, <2>3, DialogsStay
<1>9. ASSUME NEW h \in Handlers, DrainDialogs(h) PROVE DialogInv'
  BY <1>9, DrainsDialogs
<1>10. ASSUME NEW h \in Handlers, WriteEvidence(h) \/ ReportDialogs(h) PROVE DialogInv'
  BY <1>10, WritesReceipt
<1>11. ASSUME NEW h \in Handlers, ActionSkips(h) PROVE DialogInv'
  <2>1. Dealt /\ at[h].step # "downloads" /\ \A g \in Handlers \ {h} : at'[g] = at[g]
    BY <1>11 DEF ActionSkips, ActionDone, dialogVars, Shape, RequestTypes, Idle
  <2>2. at'[h].step # "downloads"
    BY <1>11 DEF ActionSkips, ActionDone, Shape, RequestTypes, Idle
  <2>3. \A g \in Handlers : Held(g)' = Held(g) /\ (Held(g) # <<>> => at'[g].page = at[g].page)
    BY <2>1, <2>2 DEF Held
  <2>4. QED
    BY <2>1, <2>3, DialogsStay
<1>12. CASE InjectLocks \/ InjectRegisters
  BY <1>2, <1>12, InjectShape DEF requestVars
<1> HIDE DEF Dealt
<1>13. QED
  BY <1>1, <1>3, <1>4, <1>5, <1>6, <1>7, <1>8, <1>9, <1>10, <1>11, <1>12 DEF Next

(* Receipts neither share nor swallow dialogs, and name no other page's:   *)
(* an answered dialog is in the log, in one receipt, or cleared, evicted   *)
(* or lost with the daemon, however requests, listeners and restarts       *)
(* interleave (dialogs.go:104-119).                                        *)
THEOREM DialogsReportedOnceHolds == Spec => []DialogsReportedOnce
<1>1. Init => Shape /\ DialogInv
  BY InitShape, DialogsStart
<1>2. Shape /\ DialogInv /\ [Next]_vars => (Shape /\ DialogInv)'
  BY StepShape, DialogStep
<1>3. ASSUME Shape, DialogInv PROVE DialogsReportedOnce
  <2>1. InFlight = InHeld
    BY <1>3, FlightIsHeld
  <2>2. \A d \in Dialogs : answered[d] # "open" =>
            d \in Logged \cup InFlight \cup forgotten \cup InReceipts
    BY <1>3, <2>1 DEF DialogInv, PlacesInv, NoneLost, Taken
  <2>3. QED
    BY <1>3, <2>2 DEF DialogsReportedOnce, InReceipts, DialogInv, PlacesInv, Disjoint, OwnPage
<1>4. QED
  BY <1>1, <1>2, <1>3, PTL DEF Spec

(* What a receipt says of a dialog is what the browser was told, though    *)
(* the answer is sent after the unlock and the policy may have changed     *)
(* (dialogs.go:50-72).                                                     *)
THEOREM LoggedAsAnsweredHolds == Spec => []LoggedAsAnswered
<1>1. Init => Shape /\ DialogInv
  BY InitShape, DialogsStart
<1>2. Shape /\ DialogInv /\ [Next]_vars => (Shape /\ DialogInv)'
  BY StepShape, DialogStep
<1>3. DialogInv => LoggedAsAnswered
  BY DEF DialogInv, AgreeInv, Agrees, LoggedAsAnswered
<1>4. QED
  BY <1>1, <1>2, <1>3, PTL DEF Spec

-----------------------------------------------------------------------------
(* The files.  A name's file holds the bytes of some download the name was *)
(* suggested for, a GUID's file its own; a finished download has one of    *)
(* the two.  A file with a name never goes away, and one with a GUID only  *)
(* for the one entry that the GUID has on the table.                       *)

Suggested == \A i \in DOMAIN downloads :
    downloads[i].guid <= begun /\ downloads[i].name = named[downloads[i].guid]
Filed == \A f \in DOMAIN disk :
    /\ disk[f] <= begun
    /\ f \in GUIDs => disk[f] = f
    /\ f \in Names => named[disk[f]] = f
Landed == \A i \in DOMAIN events : events[i].type = "completed" =>
    events[i].guid \in DOMAIN disk \/ named[events[i].guid] \in DOMAIN disk
Placed == \A i \in DOMAIN downloads : downloads[i].state = "completed" =>
    downloads[i].path \in DOMAIN disk /\ downloads[i].path \in {downloads[i].name, downloads[i].guid}
Single == \A i, j \in DOMAIN downloads : downloads[i].guid = downloads[j].guid => i = j

FilesInv == Suggested /\ Filed /\ Landed /\ Placed /\ Single

LEMMA FilesStart == Init => FilesInv
BY DEF Init, FilesInv, Suggested, Filed, Landed, Placed, Single

LEMMA FilesStay ==
  ASSUME FilesInv, UNCHANGED <<begun, named, events, downloads, disk>>
  PROVE  FilesInv'
BY DEF FilesInv, Suggested, Filed, Landed, Placed, Single

(* Names and GUIDs of the state are typed.                                 *)
LEMMA FileShape ==
  ASSUME Shape
  PROVE  /\ begun \in Nat /\ begun <= MaxEffects /\ \A g \in GUIDs : g \in Nat /\ g >= 1
         /\ Names \cap GUIDs = {}
         /\ \A i \in DOMAIN downloads : downloads[i] \in Entries
         /\ \A i \in DOMAIN events : events[i] \in Announced /\ events[i].guid <= begun
         /\ \A f \in DOMAIN disk : disk[f] \in GUIDs
<1>1. /\ begun \in Nat /\ begun <= MaxEffects /\ \A g \in GUIDs : g \in Nat /\ g >= 1
      /\ Names \cap GUIDs = {}
  BY EvidenceBounds DEF Shape, DownloadTypes, GUIDs
<1>2. /\ \A i \in DOMAIN downloads : downloads[i] \in Entries
      /\ \A i \in DOMAIN events : events[i] \in Announced /\ events[i].guid <= begun
      /\ \A f \in DOMAIN disk : disk[f] \in GUIDs
  BY DEF Shape, DownloadTypes
<1>3. QED
  BY <1>1, <1>2

LEMMA BeginsFile ==
  ASSUME Shape, FilesInv, NEW n \in Names, BrowserBegins(n)
  PROVE  FilesInv'
<1>1. /\ begun' = begun + 1 /\ begun \in Nat
      /\ named' = [named EXCEPT ![begun + 1] = n]
      /\ events' = Append(events, [type |-> "begin", guid |-> begun + 1])
      /\ UNCHANGED <<downloads, disk>>
  BY FileShape DEF BrowserBegins
<1>2. \A g \in GUIDs : g <= begun => named'[g] = named[g] /\ g <= begun'
  BY <1>1, FileShape DEF Shape, DownloadTypes
<1>3. Suggested'
  <2>1. ASSUME NEW i \in DOMAIN downloads
        PROVE  downloads[i].guid <= begun' /\ downloads[i].name = named'[downloads[i].guid]
    <3>1. downloads[i].guid \in GUIDs /\ downloads[i].guid <= begun
      BY FileShape DEF Entries, FilesInv, Suggested
    <3>2. QED
      BY <1>2, <3>1 DEF FilesInv, Suggested
  <2>2. QED
    BY <1>1, <2>1 DEF Suggested
<1>4. Filed'
  <2>1. ASSUME NEW f \in DOMAIN disk
        PROVE  disk[f] <= begun' /\ (f \in GUIDs => disk[f] = f) /\ (f \in Names => named'[disk[f]] = f)
    <3>1. disk[f] \in GUIDs /\ disk[f] <= begun
      BY FileShape DEF FilesInv, Filed
    <3>2. QED
      BY <1>2, <3>1 DEF FilesInv, Filed
  <2>2. QED
    BY <1>1, <2>1 DEF Filed
<1>5. Landed'
  <2> DEFINE e == [type |-> "begin", guid |-> begun + 1]
  <2>1. events \in Seq(Announced) /\ e.type = "begin"
    BY DEF Shape, DownloadTypes
  <2> HIDE DEF e
  <2>2. /\ DOMAIN events' = 1 .. (Len(events) + 1) /\ events'[Len(events) + 1] = e
        /\ DOMAIN events = 1 .. Len(events) /\ Len(events) \in Nat
        /\ \A i \in DOMAIN events : events'[i] = events[i]
    <3>1. events' = Append(events, e)
      BY <1>1 DEF e
    <3>2. QED
      BY <2>1, <3>1
  <2>3. ASSUME NEW i \in DOMAIN events', events'[i].type = "completed"
        PROVE  events'[i].guid \in DOMAIN disk \/ named'[events'[i].guid] \in DOMAIN disk
    <3>1. i \in DOMAIN events /\ events'[i] = events[i]
      BY <2>1, <2>2, <2>3
    <3>2. events[i].guid \in GUIDs /\ events[i].guid <= begun
      BY <3>1, FileShape DEF Announced
    <3>3. QED
      BY <1>2, <2>3, <3>1, <3>2 DEF FilesInv, Landed
  <2>4. QED
    BY <1>1, <2>3 DEF Landed
<1>6. Placed' /\ Single'
  BY <1>1 DEF FilesInv, Placed, Single
<1>7. QED
  BY <1>3, <1>4, <1>5, <1>6 DEF FilesInv

LEMMA EndsFile ==
  ASSUME Shape, FilesInv, NEW g \in GUIDs, NEW state \in {"completed", "canceled"}, BrowserEnds(g, state)
  PROVE  FilesInv'
<1> DEFINE e == [type |-> state, guid |-> g]
<1>1. /\ g <= begun /\ events' = Append(events, e) /\ UNCHANGED <<begun, named, downloads>>
      /\ disk' = IF state = "completed"
                 THEN [f \in DOMAIN disk \cup {g} |-> IF f = g THEN g ELSE disk[f]] ELSE disk
  BY FileShape DEF Shape, DownloadTypes, BrowserEnds
<1>2. /\ DOMAIN disk \subseteq DOMAIN disk' /\ (state = "completed" => g \in DOMAIN disk')
      /\ \A f \in DOMAIN disk' :
             (f \in DOMAIN disk /\ disk'[f] = disk[f]) \/ (f = g /\ disk'[f] = g)
  <2>1. CASE state = "completed"
    <3>1. disk' = [f \in DOMAIN disk \cup {g} |-> IF f = g THEN g ELSE disk[f]]
      BY <1>1, <2>1
    <3>2. DOMAIN disk' = DOMAIN disk \cup {g}
      BY <3>1
    <3>3. ASSUME NEW f \in DOMAIN disk'
          PROVE  (f \in DOMAIN disk /\ disk'[f] = disk[f]) \/ (f = g /\ disk'[f] = g)
      BY <3>1, <3>2
    <3>4. QED
      BY <3>2, <3>3
  <2>2. CASE state # "completed"
    BY <1>1, <2>2
  <2>3. QED
    BY <2>1, <2>2
<1>3. Suggested'
  BY <1>1 DEF FilesInv, Suggested
<1>4. Filed'
  <2>1. g \notin Names
    BY FileShape
  <2>2. QED
    BY <1>1, <1>2, <2>1 DEF FilesInv, Filed
<1>5. Landed'
  <2>1. events \in Seq(Announced) /\ e.type = state /\ e.guid = g
    BY DEF Shape, DownloadTypes
  <2> HIDE DEF e
  <2>2. /\ DOMAIN events' = 1 .. (Len(events) + 1) /\ events'[Len(events) + 1] = e
        /\ DOMAIN events = 1 .. Len(events) /\ Len(events) \in Nat
        /\ \A i \in DOMAIN events : events'[i] = events[i]
    BY <1>1, <2>1
  <2>3. ASSUME NEW i \in DOMAIN events', events'[i].type = "completed"
        PROVE  events'[i].guid \in DOMAIN disk' \/ named[events'[i].guid] \in DOMAIN disk'
    <3>1. CASE i = Len(events) + 1
      BY <1>2, <2>1, <2>2, <2>3, <3>1
    <3>2. CASE i \in DOMAIN events
      BY <1>2, <2>2, <2>3, <3>2 DEF FilesInv, Landed
    <3>3. QED
      BY <2>2, <3>1, <3>2
  <2>4. QED
    BY <1>1, <2>3 DEF Landed
<1>6. Placed' /\ Single'
  BY <1>1, <1>2 DEF FilesInv, Placed, Single
<1>7. QED
  BY <1>3, <1>4, <1>5, <1>6 DEF FilesInv

(* A begin puts an entry on the table, whose file is yet to come.          *)
LEMMA TracksFile ==
  ASSUME Shape, FilesInv, HandleBegin
  PROVE  FilesInv'
<1> DEFINE g == Head(events).guid
           e == [guid |-> g, name |-> named[g], ts |-> clock, state |-> "inProgress", path |-> 0]
<1>1. /\ events # <<>> /\ events' = Tail(events) /\ downloads' = trackDownload(e)
      /\ UNCHANGED <<begun, named, disk>>
  BY DEF HandleBegin
<1>2. g \in 1 .. begun /\ g \in GUIDs /\ named[g] \in Names /\ clock \in Nat
  BY <1>1, EventsTail DEF Announced, Shape, RequestTypes
<1>3. e \in Entries /\ e.guid = g /\ e.name = named[g] /\ e.state = "inProgress"
  BY <1>2 DEF Entries
<1> HIDE DEF e
<1>4. \A k \in DOMAIN downloads' : downloads'[k] = e \/ \E i \in DOMAIN downloads : downloads'[k] = downloads[i]
  BY <1>1, <1>3, TrackShape
<1> HIDE DEF g
<1>5. Suggested'
  <2>1. g <= begun
    BY <1>2, FileShape
  <2>2. QED
    BY <1>1, <1>3, <1>4, <2>1 DEF FilesInv, Suggested
<1>6. Placed'
  BY <1>1, <1>3, <1>4 DEF FilesInv, Placed
<1>7. Filed'
  BY <1>1 DEF FilesInv, Filed
<1>8. Landed'
  BY <1>1, EventsTail DEF FilesInv, Landed
<1>9. Single'
  BY <1>1, <1>3, TrackShape DEF FilesInv, Single
<1>10. QED
  BY <1>5, <1>6, <1>7, <1>8, <1>9 DEF FilesInv

(* Moving a finished download into place loses no file with a name, and    *)
(* leaves one where the path says.                                         *)
LEMMA MoveFiles ==
  ASSUME Shape, FilesInv, NEW i \in DOMAIN downloads, NEW renamed \in BOOLEAN,
         disk' = MoveIntoPlace(downloads[i], renamed),
         downloads[i].guid \in DOMAIN disk \/ downloads[i].name \in DOMAIN disk,
         UNCHANGED <<begun, named>>
  PROVE  /\ Filed'
         /\ resolveDownloadPath(downloads[i], renamed) \in {downloads[i].name, downloads[i].guid}
         /\ resolveDownloadPath(downloads[i], renamed) \in DOMAIN disk'
         /\ \A f \in DOMAIN disk : f \in Names => f \in DOMAIN disk'
         /\ \A f \in DOMAIN disk : f # downloads[i].guid => f \in DOMAIN disk'
<1> DEFINE d == downloads[i]
           path == resolveDownloadPath(d, renamed)
<1>1. /\ d.guid \in GUIDs /\ d.guid \notin Names /\ d.name \in Names /\ d.name \notin GUIDs
      /\ d.name = named[d.guid] /\ d.guid <= begun
  BY FileShape DEF Entries, FilesInv, Suggested
<1>2. disk' = MoveIntoPlace(d, renamed) /\ (d.guid \in DOMAIN disk \/ d.name \in DOMAIN disk)
  OBVIOUS
<1> HIDE DEF d
<1>3. CASE d.name \notin DOMAIN disk /\ renamed
  <2>1. d.guid \in DOMAIN disk /\ disk[d.guid] = d.guid
    BY <1>1, <1>2, <1>3 DEF FilesInv, Filed
  <2>2. disk' = [f \in (DOMAIN disk \cup {d.name}) \ {d.guid} |->
                    IF f = d.name THEN disk[d.guid] ELSE disk[f]]
    BY <1>2, <1>3, <2>1 DEF MoveIntoPlace, Found
  <2>3. /\ d.name \in DOMAIN disk' /\ disk'[d.name] = d.guid
        /\ \A f \in DOMAIN disk' : f # d.name => f \in DOMAIN disk /\ disk'[f] = disk[f]
    BY <1>1, <2>1, <2>2
  <2>4. \A f \in DOMAIN disk : f # d.guid => f \in DOMAIN disk'
    BY <2>2
  <2>5. Filed'
    BY <1>1, <2>3 DEF FilesInv, Filed
  <2>6. path = d.name
    BY <1>3, <2>1 DEF resolveDownloadPath
  <2>7. QED
    BY <1>1, <2>3, <2>4, <2>5, <2>6 DEF d
<1>4. CASE d.name \notin DOMAIN disk /\ ~renamed
  <2>1. disk' = disk /\ path = d.guid /\ d.guid \in DOMAIN disk
    BY <1>2, <1>4 DEF MoveIntoPlace, resolveDownloadPath, Found
  <2>2. QED
    BY <2>1 DEF FilesInv, Filed, d
<1>5. CASE d.name \in DOMAIN disk
  <2>1. disk' = disk /\ path = d.name
    BY <1>2, <1>5 DEF MoveIntoPlace, resolveDownloadPath, Found
  <2>2. QED
    BY <1>5, <2>1 DEF FilesInv, Filed, d
<1>6. QED
  BY <1>3, <1>4, <1>5

LEMMA FinishesFile ==
  ASSUME Shape, FilesInv, HandleEnd
  PROVE  FilesInv'
<1>1. events # <<>> /\ events' = Tail(events) /\ UNCHANGED <<begun, named>>
  BY EndStep
<1>2. /\ \A k \in DOMAIN events' : \E l \in DOMAIN events : events'[k] = events[l]
      /\ 1 \in DOMAIN events /\ Head(events) = events[1]
  <2>1. events \in Seq(Announced)
    BY DEF Shape, DownloadTypes
  <2>2. QED
    BY <1>1, <2>1, EventsTail, HeadTailProperties
<1>3. CASE UNCHANGED <<downloads, disk>>
  <2>1. Landed'
    BY <1>1, <1>2, <1>3 DEF FilesInv, Landed
  <2>2. QED
    BY <1>1, <1>3, <2>1 DEF FilesInv, Suggested, Filed, Placed, Single
<1>4. ASSUME NEW i \in DOMAIN downloads, downloads[i].guid = Head(events).guid,
             Head(events).type = "completed", NEW renamed \in BOOLEAN,
             downloads' = [downloads EXCEPT ![i] =
                 Ended(downloads[i], "completed", resolveDownloadPath(downloads[i], renamed))],
             disk' = MoveIntoPlace(downloads[i], renamed)
      PROVE  FilesInv'
  <2> DEFINE d == downloads[i]
             path == resolveDownloadPath(d, renamed)
  <2>1. d.guid <= begun /\ d.name = named[d.guid]
    BY DEF FilesInv, Suggested
  <2>2. d.guid \in DOMAIN disk \/ d.name \in DOMAIN disk
    BY <1>2, <1>4, <2>1 DEF FilesInv, Landed
  <2>3. /\ Filed' /\ path \in {d.name, d.guid} /\ path \in DOMAIN disk'
        /\ \A f \in DOMAIN disk : f \in Names => f \in DOMAIN disk'
        /\ \A f \in DOMAIN disk : f # d.guid => f \in DOMAIN disk'
    BY <1>1, <1>4, <2>2, MoveFiles
  <2>4. /\ DOMAIN downloads' = DOMAIN downloads
        /\ downloads'[i] = Ended(d, "completed", path)
        /\ \A k \in DOMAIN downloads \ {i} : downloads'[k] = downloads[k]
    BY <1>4
  <2> HIDE DEF path
  <2>5. /\ downloads'[i].guid = d.guid /\ downloads'[i].name = d.name /\ downloads'[i].path = path
    BY <2>4 DEF Ended
  <2>6. Suggested'
    BY <1>1, <2>1, <2>4, <2>5 DEF FilesInv, Suggested
  <2>7. Placed'
    <3>1. ASSUME NEW k \in DOMAIN downloads \ {i}, downloads[k].state = "completed"
          PROVE  /\ downloads[k].path \in {downloads[k].name, downloads[k].guid}
                 /\ downloads[k].path \in DOMAIN disk'
      <4>1. /\ downloads[k].path \in {downloads[k].name, downloads[k].guid}
            /\ downloads[k].path \in DOMAIN disk
        BY <3>1 DEF FilesInv, Placed
      <4>2. downloads[k].name \in Names
        BY FileShape DEF Entries
      <4>3. downloads[k].guid # d.guid
        BY DEF FilesInv, Single
      <4>4. QED
        BY <2>3, <4>1, <4>2, <4>3
    <3>2. QED
      BY <2>3, <2>4, <2>5, <3>1 DEF Placed
  <2>8. Landed'
    <3>1. ASSUME NEW k \in DOMAIN events, events[k].type = "completed"
          PROVE  events[k].guid \in DOMAIN disk' \/ named[events[k].guid] \in DOMAIN disk'
      <4>1. CASE events[k].guid = d.guid
        <5>1. d.guid \in DOMAIN disk' \/ named[d.guid] \in DOMAIN disk'
          BY <2>1, <2>3
        <5>2. QED
          BY <4>1, <5>1
      <4>2. CASE events[k].guid # d.guid
        <5>1. events[k].guid \in DOMAIN disk \/ named[events[k].guid] \in DOMAIN disk
          BY <3>1 DEF FilesInv, Landed
        <5>2. named[events[k].guid] \in Names
          <6>1. events[k].guid \in 1 .. begun
            BY FileShape DEF Announced
          <6>2. QED
            BY <6>1 DEF Shape, DownloadTypes
        <5>3. QED
          BY <2>3, <4>2, <5>1, <5>2
      <4>3. QED
        BY <4>1, <4>2
    <3>2. QED
      BY <1>1, <1>2, <3>1 DEF Landed
  <2>9. Single'
    BY <2>4, <2>5 DEF FilesInv, Single
  <2>10. QED
    BY <2>3, <2>6, <2>7, <2>8, <2>9 DEF FilesInv
<1>5. ASSUME NEW i \in DOMAIN downloads, UNCHANGED disk,
             downloads' = [downloads EXCEPT ![i] = Ended(downloads[i], "canceled", downloads[i].path)]
      PROVE  FilesInv'
  <2>1. /\ DOMAIN downloads' = DOMAIN downloads
        /\ downloads'[i] = Ended(downloads[i], "canceled", downloads[i].path)
        /\ \A k \in DOMAIN downloads \ {i} : downloads'[k] = downloads[k]
    BY <1>5
  <2>2. /\ downloads'[i].guid = downloads[i].guid /\ downloads'[i].name = downloads[i].name
        /\ downloads'[i].state = "canceled"
    BY <2>1 DEF Ended
  <2>3. Suggested'
    BY <1>1, <2>1, <2>2 DEF FilesInv, Suggested
  <2>4. Placed' /\ Single'
    BY <1>5, <2>1, <2>2 DEF FilesInv, Placed, Single
  <2>5. Filed' /\ Landed'
    BY <1>1, <1>2, <1>5 DEF FilesInv, Filed, Landed
  <2>6. QED
    BY <2>3, <2>4, <2>5 DEF FilesInv
<1>6. QED
  BY <1>3, <1>4, <1>5, EndStep

LEMMA FileStep ==
  ASSUME Shape, FilesInv, [Next]_vars
  PROVE  FilesInv'
<1> DEFINE Same == UNCHANGED <<begun, named, events, downloads, disk>>
<1>1. CASE Same
  BY <1>1, FilesStay
<1>2. ASSUME NEW p \in Pages, DialogOpens(p) \/ ListenerLogs(p) \/ ListenerAnswers(p) PROVE Same
  BY <1>2 DEF DialogOpens, ListenerLogs, ListenerAnswers, downloadVars
<1>3. CASE SetPolicy \/ ClearDialogs \/ InjectLocks \/ InjectRegisters \/ UNCHANGED vars
  BY <1>1, <1>3, InjectShape DEF SetPolicy, ClearDialogs, downloadVars, vars
<1>4. CASE ClearDownloads \/ Restart
  <2>1. /\ downloads' = <<>> /\ UNCHANGED <<begun, named, disk>>
        /\ events' = <<>> \/ UNCHANGED events
    BY <1>4 DEF ClearDownloads, Restart
  <2>2. DOMAIN downloads' = {} /\ (DOMAIN events' = {} \/ UNCHANGED events)
    BY <2>1
  <2>3. QED
    BY <2>1, <2>2 DEF FilesInv, Suggested, Filed, Landed, Placed, Single
<1>5. ASSUME NEW n \in Names, BrowserBegins(n) PROVE FilesInv'
  BY <1>5, BeginsFile
<1>6. ASSUME NEW g \in GUIDs, NEW s \in {"completed", "canceled"}, BrowserEnds(g, s) PROVE FilesInv'
  BY <1>6, EndsFile
<1>7. CASE HandleBegin \/ HandleEnd
  BY <1>7, TracksFile, FinishesFile
<1>8. ASSUME NEW h \in Handlers,
             \/ \E p \in Pages : ActionStart(h, p)
             \/ ActionSkips(h) \/ DrainDialogs(h) \/ WriteEvidence(h) \/ ReportDialogs(h)
      PROVE  Same
  BY <1>8 DEF ActionStart, ActionSkips, DrainDialogs, WriteEvidence, ReportDialogs, downloadVars
<1> HIDE DEF Same
<1>9. QED
  BY <1>1, <1>2, <1>3, <1>4, <1>5, <1>6, <1>7, <1>8 DEF Next

(* A finished download whose name nobody else suggested is found under its *)
(* path, whatever was cleared, evicted or restarted since                  *)
(* (downloads.go:93-111).                                                  *)
THEOREM PathIsOwnHolds == Spec => []PathIsOwn
<1>1. Init => Shape /\ FilesInv
  BY InitShape, FilesStart
<1>2. Shape /\ FilesInv /\ [Next]_vars => (Shape /\ FilesInv)'
  BY StepShape, FileStep
<1>3. ASSUME Shape, FilesInv PROVE PathIsOwn
  <2>1. ASSUME NEW i \in DOMAIN downloads, downloads[i].state = "completed",
               \A g \in GUIDs \ {downloads[i].guid} : named[g] # downloads[i].name
        PROVE  downloads[i].path \in DOMAIN disk /\ disk[downloads[i].path] = downloads[i].guid
    <3>1. /\ downloads[i].path \in {downloads[i].name, downloads[i].guid}
          /\ downloads[i].path \in DOMAIN disk
      BY <1>3, <2>1 DEF FilesInv, Placed
    <3>2. /\ downloads[i].name \in Names /\ downloads[i].guid \in GUIDs
          /\ disk[downloads[i].path] \in GUIDs
      BY <1>3, <3>1, FileShape DEF Entries
    <3>3. CASE downloads[i].path = downloads[i].name
      <4>1. named[disk[downloads[i].name]] = downloads[i].name
        BY <1>3, <3>1, <3>2, <3>3 DEF FilesInv, Filed
      <4>2. QED
        BY <2>1, <3>1, <3>2, <3>3, <4>1
    <3>4. CASE downloads[i].path = downloads[i].guid
      BY <1>3, <3>1, <3>2, <3>4 DEF FilesInv, Filed
    <3>5. QED
      BY <3>1, <3>3, <3>4
  <2>2. QED
    BY <2>1 DEF PathIsOwn
<1>4. QED
  BY <1>1, <1>2, <1>3, PTL DEF Spec

-----------------------------------------------------------------------------
(* The time stamps.  A request under way has seen exactly the entries that *)
(* are stamped since its anchor, because every stamp moves the clock.      *)

Stamped == \A i \in DOMAIN downloads : downloads[i].ts < clock
Watched == \A h \in Handlers : at[h] # Idle =>
    /\ at[h].startTS < clock
    /\ \A i \in DOMAIN downloads : downloads[i].guid \in seen[h] <=> downloads[i].ts >= at[h].startTS

StampInv == Stamped /\ Watched

LEMMA StampsStart == Init => StampInv
BY DEF Init, StampInv, Stamped, Watched

(* Requests as they stand: under way, with an anchor.                      *)
LEMMA AnchorShape ==
  ASSUME Shape, NEW h \in Handlers, at[h] # Idle
  PROVE  at[h].startTS \in Nat /\ at[h].step \in {"settle", "downloads"} /\ at[h].page \in Pages
<1>1. at[h] \in Settling \cup Reporting
  BY DEF Shape, RequestTypes
<1>2. QED
  BY <1>1 DEF Settling, Reporting

(* Steps that touch neither the table nor the clock, and move no anchor.   *)
LEMMA StampsStay ==
  ASSUME Shape, StampInv, UNCHANGED clock,
         \A i \in DOMAIN downloads' :
             \E k \in DOMAIN downloads :
                 downloads'[i].guid = downloads[k].guid /\ downloads'[i].ts = downloads[k].ts,
         \A h \in Handlers : at'[h] # Idle =>
             at[h] # Idle /\ at'[h].startTS = at[h].startTS /\ seen'[h] = seen[h]
  PROVE  StampInv'
<1>1. Stamped'
  BY DEF StampInv, Stamped
<1>2. ASSUME NEW h \in Handlers, at'[h] # Idle
      PROVE  /\ at'[h].startTS < clock'
             /\ \A i \in DOMAIN downloads' :
                    downloads'[i].guid \in seen'[h] <=> downloads'[i].ts >= at'[h].startTS
  <2>1. at[h] # Idle /\ at'[h].startTS = at[h].startTS /\ seen'[h] = seen[h]
    BY <1>2
  <2>2. /\ at[h].startTS < clock
        /\ \A i \in DOMAIN downloads : downloads[i].guid \in seen[h] <=> downloads[i].ts >= at[h].startTS
    BY <2>1 DEF StampInv, Watched
  <2>3. ASSUME NEW i \in DOMAIN downloads'
        PROVE  downloads'[i].guid \in seen'[h] <=> downloads'[i].ts >= at'[h].startTS
    <3>1. PICK k \in DOMAIN downloads :
              downloads'[i].guid = downloads[k].guid /\ downloads'[i].ts = downloads[k].ts
      OBVIOUS
    <3>2. downloads[k].guid \in seen[h] <=> downloads[k].ts >= at[h].startTS
      BY <2>2
    <3>3. QED
      BY <2>1, <3>1, <3>2
  <2>4. QED
    BY <2>1, <2>2, <2>3
<1>3. QED
  BY <1>1, <1>2 DEF StampInv, Watched

(* A begin is stamped now, later than every anchor, and seen by everyone.  *)
LEMMA StampsBegin ==
  ASSUME Shape, StampInv, HandleBegin
  PROVE  StampInv'
<1> DEFINE g == Head(events).guid
           e == [guid |-> g, name |-> named[g], ts |-> clock, state |-> "inProgress", path |-> 0]
<1>1. /\ events # <<>> /\ downloads' = trackDownload(e) /\ clock' = clock + 1 /\ UNCHANGED at
      /\ seen' = [h \in Handlers |-> IF at[h] = Idle THEN {} ELSE seen[h] \cup {g}]
      /\ clock \in Nat
  BY DEF HandleBegin, Shape, RequestTypes
<1>2. g \in GUIDs /\ named[g] \in Names
  BY <1>1, EventsTail DEF Announced
<1>3. e \in Entries /\ e.guid = g /\ e.ts = clock
  BY <1>1, <1>2 DEF Entries
<1> HIDE DEF e
<1>4. \A k \in DOMAIN downloads' :
          \/ downloads'[k] = e
          \/ \E i \in DOMAIN downloads : downloads[i].guid # g /\ downloads'[k] = downloads[i]
  <2> HIDE DEF g
  <2>1. \A k \in DOMAIN trackDownload(e) :
            \/ trackDownload(e)[k] = e
            \/ \E i \in DOMAIN downloads : /\ downloads[i].guid # e.guid
                                           /\ trackDownload(e)[k] = downloads[i]
    BY <1>3, TrackShape
  <2>2. QED
    BY <1>1, <1>3, <2>1
<1> HIDE DEF g
<1>5. \A i \in DOMAIN downloads : downloads[i].ts \in Nat /\ downloads[i].ts < clock
  BY FileShape DEF Entries, StampInv, Stamped
<1>6. Stamped'
  <2>1. ASSUME NEW k \in DOMAIN downloads' PROVE downloads'[k].ts < clock'
    BY <1>1, <1>3, <1>4, <1>5
  <2>2. QED
    BY <2>1 DEF Stamped
<1>7. ASSUME NEW h \in Handlers, at'[h] # Idle
      PROVE  /\ at'[h].startTS < clock'
             /\ \A k \in DOMAIN downloads' :
                    downloads'[k].guid \in seen'[h] <=> downloads'[k].ts >= at'[h].startTS
  <2>1. at[h] # Idle /\ at'[h] = at[h] /\ seen'[h] = seen[h] \cup {g}
    BY <1>1, <1>7
  <2>2. /\ at[h].startTS < clock /\ at[h].startTS \in Nat
        /\ \A i \in DOMAIN downloads : downloads[i].guid \in seen[h] <=> downloads[i].ts >= at[h].startTS
    BY <2>1, AnchorShape DEF StampInv, Watched
  <2>3. ASSUME NEW k \in DOMAIN downloads'
        PROVE  downloads'[k].guid \in seen'[h] <=> downloads'[k].ts >= at'[h].startTS
    <3>1. CASE downloads'[k] = e
      <4>1. downloads'[k].guid \in seen'[h]
        BY <1>3, <2>1, <3>1
      <4>2. downloads'[k].ts >= at'[h].startTS
        BY <1>1, <1>3, <2>1, <2>2, <3>1
      <4>3. QED
        BY <4>1, <4>2
    <3>2. ASSUME NEW i \in DOMAIN downloads, downloads[i].guid # g, downloads'[k] = downloads[i]
          PROVE  downloads'[k].guid \in seen'[h] <=> downloads'[k].ts >= at'[h].startTS
      <4>1. downloads[i].guid \in seen[h] <=> downloads[i].ts >= at[h].startTS
        BY <2>2
      <4>2. QED
        BY <2>1, <3>2, <4>1
    <3>3. QED
      BY <1>4, <3>1, <3>2
  <2>4. at'[h].startTS < clock'
    BY <1>1, <2>1, <2>2
  <2>5. QED
    BY <2>3, <2>4
<1>8. QED
  BY <1>6, <1>7 DEF StampInv, Watched

(* An end keeps the stamp of its entry.                                    *)
LEMMA StampsEnd ==
  ASSUME Shape, StampInv, HandleEnd
  PROVE  StampInv'
<1>1. UNCHANGED <<clock, at, seen>>
  BY EndStep DEF requestVars
<1>2. ASSUME NEW k \in DOMAIN downloads'
      PROVE  \E l \in DOMAIN downloads :
                 downloads'[k].guid = downloads[l].guid /\ downloads'[k].ts = downloads[l].ts
  <2>1. CASE UNCHANGED downloads
    BY <1>2, <2>1
  <2>2. ASSUME NEW i \in DOMAIN downloads, NEW st, NEW path,
               downloads' = [downloads EXCEPT ![i] = Ended(downloads[i], st, path)]
        PROVE  \E l \in DOMAIN downloads :
                   downloads'[k].guid = downloads[l].guid /\ downloads'[k].ts = downloads[l].ts
    <3>1. k \in DOMAIN downloads /\ (k # i => downloads'[k] = downloads[k])
      BY <1>2, <2>2
    <3>2. k = i => downloads'[k] = Ended(downloads[k], st, path)
      BY <2>2, <3>1
    <3>3. downloads'[k].guid = downloads[k].guid /\ downloads'[k].ts = downloads[k].ts
      BY <3>1, <3>2 DEF Ended
    <3>4. QED
      BY <3>1, <3>3
  <2>3. QED
    BY <2>1, <2>2, EndStep
<1>3. QED
  BY <1>1, <1>2, StampsStay

(* A new anchor is later than every stamp, and has seen nothing yet.       *)
LEMMA StampsAnchor ==
  ASSUME Shape, StampInv, NEW h \in Handlers, NEW p \in Pages, ActionStart(h, p)
  PROVE  StampInv'
<1>1. /\ clock \in Nat /\ clock' = clock + 1 /\ UNCHANGED downloads
      /\ at'[h].startTS = clock /\ seen'[h] = {}
      /\ \A g \in Handlers \ {h} : at'[g] = at[g] /\ seen'[g] = seen[g]
  BY DEF ActionStart, downloadVars, Shape, RequestTypes
<1>2. \A i \in DOMAIN downloads : downloads[i].ts \in Nat /\ downloads[i].ts < clock
  BY FileShape DEF Entries, StampInv, Stamped
<1>3. Stamped'
  BY <1>1, <1>2 DEF Stamped
<1>4. ASSUME NEW g \in Handlers, at'[g] # Idle
      PROVE  /\ at'[g].startTS < clock'
             /\ \A i \in DOMAIN downloads' :
                    downloads'[i].guid \in seen'[g] <=> downloads'[i].ts >= at'[g].startTS
  <2>1. CASE g = h
    <3>1. \A i \in DOMAIN downloads' : downloads'[i].guid \notin seen'[g] /\ ~(downloads'[i].ts >= at'[g].startTS)
      BY <1>1, <1>2, <2>1
    <3>2. at'[g].startTS < clock'
      BY <1>1, <2>1
    <3>3. QED
      BY <3>1, <3>2
  <2>2. CASE g # h
    <3>1. at[g] # Idle /\ at'[g] = at[g] /\ seen'[g] = seen[g]
      BY <1>1, <1>4, <2>2
    <3>2. /\ at[g].startTS < clock /\ at[g].startTS \in Nat
          /\ \A i \in DOMAIN downloads : downloads[i].guid \in seen[g] <=> downloads[i].ts >= at[g].startTS
      BY <3>1, AnchorShape DEF StampInv, Watched
    <3>3. at'[g].startTS < clock'
      BY <1>1, <3>1, <3>2
    <3>4. \A i \in DOMAIN downloads' : downloads'[i].guid \in seen'[g] <=> downloads'[i].ts >= at'[g].startTS
      BY <1>1, <3>1, <3>2
    <3>5. QED
      BY <3>3, <3>4
  <2>3. QED
    BY <2>1, <2>2
<1>5. QED
  BY <1>3, <1>4 DEF StampInv, Watched

LEMMA StampStep ==
  ASSUME Shape, StampInv, [Next]_vars
  PROVE  StampInv'
<1> DEFINE Same == UNCHANGED <<downloads, clock, at, seen>>
<1>1. CASE Same
  <2>1. /\ \A i \in DOMAIN downloads' : i \in DOMAIN downloads /\ downloads'[i] = downloads[i]
        /\ \A h \in Handlers : at'[h] = at[h] /\ seen'[h] = seen[h]
    BY <1>1
  <2>2. QED
    BY <1>1, <2>1, StampsStay
<1>2. ASSUME NEW p \in Pages, DialogOpens(p) \/ ListenerLogs(p) \/ ListenerAnswers(p) PROVE Same
  BY <1>2 DEF DialogOpens, ListenerLogs, ListenerAnswers, downloadVars, requestVars
<1>3. CASE SetPolicy \/ ClearDialogs \/ InjectLocks \/ InjectRegisters \/ UNCHANGED vars
  BY <1>1, <1>3, InjectShape DEF SetPolicy, ClearDialogs, downloadVars, requestVars, vars
<1>4. CASE ClearDownloads \/ Restart
  <2>1. downloads' = <<>> /\ UNCHANGED clock
    BY <1>4 DEF ClearDownloads, Restart
  <2>2. DOMAIN downloads' = {}
    BY <2>1
  <2>3. \A h \in Handlers : at'[h] # Idle => UNCHANGED <<at, seen>>
    BY <1>4 DEF ClearDownloads, Restart, requestVars
  <2>4. \A h \in Handlers : at'[h] # Idle =>
            at[h] # Idle /\ at'[h].startTS = at[h].startTS /\ seen'[h] = seen[h]
    BY <2>3
  <2>5. QED
    BY <2>1, <2>2, <2>4, StampsStay
<1>5. ASSUME NEW n \in Names, BrowserBegins(n) PROVE Same
  BY <1>5 DEF BrowserBegins, requestVars
<1>6. ASSUME NEW g, NEW s, BrowserEnds(g, s) PROVE Same
  BY <1>6 DEF BrowserEnds, requestVars
<1>7. CASE HandleBegin \/ HandleEnd
  BY <1>7, StampsBegin, StampsEnd
<1>8. ASSUME NEW h \in Handlers, NEW p \in Pages, ActionStart(h, p) PROVE StampInv'
  BY <1>8, StampsAnchor
<1>9. ASSUME NEW h \in Handlers, ActionSkips(h) \/ WriteEvidence(h) \/ ReportDialogs(h) PROVE StampInv'
  <2>1. ActionDone(h) /\ UNCHANGED <<downloads, clock>>
    BY <1>9 DEF ActionSkips, WriteEvidence, ReportDialogs, downloadVars
  <2>2. /\ at'[h] = Idle /\ \A g \in Handlers \ {h} : at'[g] = at[g] /\ seen'[g] = seen[g]
        /\ \A i \in DOMAIN downloads' : i \in DOMAIN downloads /\ downloads'[i] = downloads[i]
    BY <2>1 DEF ActionDone, Shape, RequestTypes
  <2>3. \A g \in Handlers : at'[g] # Idle =>
            at[g] # Idle /\ at'[g].startTS = at[g].startTS /\ seen'[g] = seen[g]
    BY <2>2
  <2>4. QED
    BY <2>1, <2>2, <2>3, StampsStay
<1>10. ASSUME NEW h \in Handlers, DrainDialogs(h) PROVE StampInv'
  <2>1. /\ UNCHANGED <<downloads, clock, seen>> /\ at[h].step = "settle"
        /\ at'[h].startTS = at[h].startTS /\ \A g \in Handlers \ {h} : at'[g] = at[g]
    BY <1>10 DEF DrainDialogs, downloadVars, Shape, RequestTypes
  <2>2. at[h] # Idle
    BY <2>1 DEF Idle
  <2>3. /\ \A i \in DOMAIN downloads' : i \in DOMAIN downloads /\ downloads'[i] = downloads[i]
        /\ \A g \in Handlers : at'[g] # Idle =>
               at[g] # Idle /\ at'[g].startTS = at[g].startTS /\ seen'[g] = seen[g]
    BY <2>1, <2>2
  <2>4. QED
    BY <2>1, <2>3, StampsStay
<1> HIDE DEF Same
<1>11. QED
  BY <1>1, <1>2, <1>3, <1>4, <1>5, <1>6, <1>7, <1>8, <1>9, <1>10 DEF Next

(* What a receipt names are the tracked downloads its request has seen.    *)
LEMMA NamesSeen ==
  ASSUME Shape, StampInv, NEW h \in Handlers, WriteEvidence(h)
  PROVE  {Last(receipts').downloads[i].guid : i \in DOMAIN Last(receipts').downloads}
             = seen[h] \cap Tracked
<1> DEFINE ts == at[h].startTS
           K == {i \in DOMAIN downloads : downloads[i].ts >= ts}
           since == downloadsSince(ts)
           r == [page |-> at[h].page, dialogs |-> at[h].dialogs, downloads |-> since]
<1>1. at[h] \in Reporting /\ at[h] # Idle /\ receipts' = Append(receipts, r) /\ receipts \in Seq(Receipts)
  BY RequestShape DEF WriteEvidence, Shape, RequestTypes, Idle
<1>2. Last(receipts') = r
  <2>1. since \in Seq(Entries)
    BY SinceShape
  <2>2. r \in Receipts
    BY <1>1, <2>1 DEF Receipts, Reporting
  <2> HIDE DEF r
  <2>3. receipts'[Len(receipts')] = r
    BY <1>1, <2>2, AppendProperties
  <2>4. QED
    BY <2>3 DEF Last
<1>3. Last(receipts').downloads = since
  BY <1>2
<1> HIDE DEF r
<1>4. downloads \in Seq(Entries) /\ K \in SUBSET DOMAIN downloads /\ since = Kept(downloads, K)
  BY DEF Shape, DownloadTypes, downloadsSince
<1>5. \A i \in DOMAIN downloads : i \in K <=> downloads[i].guid \in seen[h]
  BY <1>1 DEF StampInv, Watched
<1> HIDE DEF K, since
<1>6. /\ \A i \in K : \E k \in DOMAIN since : since[k] = downloads[i]
      /\ \A k \in DOMAIN since : \E i \in K : since[k] = downloads[i]
  <2>1. /\ \A i \in K : \E k \in DOMAIN Kept(downloads, K) : Kept(downloads, K)[k] = downloads[i]
        /\ \A k \in DOMAIN Kept(downloads, K) : \E i \in K : Kept(downloads, K)[k] = downloads[i]
    BY <1>4, KeptElements
  <2>2. QED
    BY <1>4, <2>1
<1>7. ASSUME NEW k \in DOMAIN since PROVE since[k].guid \in seen[h] \cap Tracked
  <2>1. PICK i \in K : since[k] = downloads[i]
    BY <1>6
  <2>2. QED
    BY <1>4, <1>5, <2>1 DEF Tracked
<1>8. ASSUME NEW i \in DOMAIN downloads, downloads[i].guid \in seen[h]
      PROVE  \E k \in DOMAIN since : since[k].guid = downloads[i].guid
  BY <1>5, <1>6, <1>8
<1>9. QED
  BY <1>3, <1>7, <1>8 DEF Tracked

(* A receipt names every tracked download the listener saw begin after its *)
(* action did, and no other, whatever requests, clears, evictions and      *)
(* restarts come between (downloads.go:147-159).                           *)
THEOREM ReceiptNamesDownloadsHolds == Spec => ReceiptNamesDownloads
<1>1. Init => Shape /\ StampInv
  BY InitShape, StampsStart
<1>2. Shape /\ StampInv /\ [Next]_vars => (Shape /\ StampInv)'
  BY StepShape, StampStep
<1>3. Shape /\ StampInv =>
          \A h \in Handlers : WriteEvidence(h) =>
              LET r == Last(receipts')
              IN  {r.downloads[i].guid : i \in DOMAIN r.downloads} = seen[h] \cap Tracked
  BY NamesSeen
<1>4. QED
  BY <1>1, <1>2, <1>3, PTL DEF Spec, ReceiptNamesDownloads

=============================================================================
