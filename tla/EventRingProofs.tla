--------------------------- MODULE EventRingProofs ---------------------------
(* Proofs about EventRing, for any requests, handlers and capacities, any  *)
(* growth of the array and any number of events.                           *)
EXTENDS EventRing, SequenceTheorems, FiniteSetTheorems, TLAPS

(* The cells of the array that a reader sees.                              *)
Live == off + 1 .. Len(cells)
NetAt(i) == i \in DOMAIN log /\ log[i].kind = "net"

Numbered == eventSeq = Len(log) /\ Len(cells) - off <= RingCap

(* Entries are the requests that their numbers say, oldest first.          *)
LiveLogged ==
    \A k \in Live : NetAt(cells[k].seq) /\ log[cells[k].seq].req = cells[k].req
LiveOrdered == \A j, k \in Live : j < k => cells[j].seq < cells[k].seq

(* A request is missing only when RingCap later ones are there.            *)
LiveComplete ==
    \A i \in DOMAIN log : NetAt(i) =>
        \/ \E k \in Live : cells[k].seq = i
        \/ Len(cells) - off = RingCap /\ \A k \in Live : i < cells[k].seq

LiveStatus == \A k \in Live : cells[k].status \in {Pending, log[cells[k].seq].status}

(* No hop of a request has a status before the request is answered.        *)
OpenPending ==
    \A r \in Requests : phase[r] \in {"new", "open"} =>
        \A k \in Live : cells[k].req = r => cells[k].status = Pending

(* A pointer into the array is to the latest hop of its request, whether   *)
(* the cell is still in the slice or not.                                  *)
PointersLatest ==
    \A r \in Requests : inFlight[r] > 0 =>
        /\ cells[inFlight[r]].req = r
        /\ cells[inFlight[r]].status = Pending
        /\ \A i \in Hops(r) : i <= cells[inFlight[r]].seq

RingInv ==
    /\ TypeOK /\ Numbered
    /\ LiveLogged /\ LiveOrdered /\ LiveComplete
    /\ LiveStatus /\ OpenPending /\ PointersLatest

-----------------------------------------------------------------------------
(* What the steps do to array and log.                                     *)

LEMMA SuffixFacts ==
  ASSUME NEW S, NEW s \in Seq(S), NEW o \in 0 .. Len(s)
  PROVE  LET w == SubSeq(s, o + 1, Len(s))
         IN  /\ w \in Seq(S) /\ Len(w) = Len(s) - o /\ DOMAIN w = 1 .. Len(s) - o
             /\ \A k \in DOMAIN w : k + o \in o + 1 .. Len(s) /\ w[k] = s[k + o]
             /\ \A k \in o + 1 .. Len(s) : k - o \in DOMAIN w /\ w[k - o] = s[k]
<1> DEFINE w == SubSeq(s, o + 1, Len(s))
<1>1. Len(s) \in Nat /\ o \in Nat /\ o <= Len(s)
  BY LenProperties
<1>2. \A i \in o + 1 .. Len(s) : s[i] \in S
  BY <1>1, ElementOfSeq
<1>3. /\ w \in Seq(S)
      /\ Len(w) = IF o + 1 <= Len(s) THEN Len(s) - (o + 1) + 1 ELSE 0
      /\ \A i \in 1 .. Len(s) - (o + 1) + 1 : w[i] = s[o + 1 + i - 1]
  BY <1>1, <1>2
<1> HIDE DEF w
<1>4. Len(w) = Len(s) - o /\ DOMAIN w = 1 .. Len(s) - o
  BY <1>1, <1>3, LenProperties
<1>5. ASSUME NEW k \in 1 .. Len(s) - o
      PROVE  k + o \in o + 1 .. Len(s) /\ w[k] = s[k + o]
  <2>1. k \in 1 .. Len(s) - (o + 1) + 1 /\ o + 1 + k - 1 = k + o
    BY <1>1
  <2>2. QED
    BY <1>1, <1>3, <2>1
<1>6. ASSUME NEW k \in o + 1 .. Len(s)
      PROVE  k - o \in 1 .. Len(s) - o /\ (k - o) + o = k
  BY <1>1
<1>7. QED
  BY <1>3, <1>4, <1>5, <1>6 DEF w

LEMMA WindowFacts ==
  ASSUME TypeOK
  PROVE  /\ Window \in Seq(Entries) /\ Len(Window) = Len(cells) - off
         /\ DOMAIN Window = 1 .. Len(cells) - off
         /\ \A k \in DOMAIN Window : k + off \in Live /\ Window[k] = cells[k + off]
         /\ \A k \in Live : k - off \in DOMAIN Window /\ Window[k - off] = cells[k]
<1>1. cells \in Seq(Entries) /\ off \in 0 .. Len(cells)
  BY DEF TypeOK
<1> DEFINE w == SubSeq(cells, off + 1, Len(cells))
<1>2. /\ w \in Seq(Entries) /\ Len(w) = Len(cells) - off /\ DOMAIN w = 1 .. Len(cells) - off
      /\ \A k \in DOMAIN w : k + off \in off + 1 .. Len(cells) /\ w[k] = cells[k + off]
      /\ \A k \in off + 1 .. Len(cells) : k - off \in DOMAIN w /\ w[k - off] = cells[k]
  BY <1>1, SuffixFacts, Zenon
<1> HIDE DEF w
<1>3. Window = w /\ Live = off + 1 .. Len(cells)
  BY DEF Window, Live, w
<1>4. QED
  BY <1>2, <1>3, Zenon

(* The same of the window after a step.                                    *)
LEMMA WindowFactsNext ==
  ASSUME TypeOK'
  PROVE  /\ Window' \in Seq(Entries) /\ Len(Window') = Len(cells') - off'
         /\ \A k \in 1 .. Len(cells') - off' : Window'[k] = cells'[k + off']
<1> DEFINE w == SubSeq(cells', off' + 1, Len(cells'))
<1>1. cells' \in Seq(Entries) /\ off' \in 0 .. Len(cells')
  BY DEF TypeOK
<1>2. /\ w \in Seq(Entries) /\ Len(w) = Len(cells') - off' /\ DOMAIN w = 1 .. Len(cells') - off'
      /\ \A k \in DOMAIN w : k + off' \in off' + 1 .. Len(cells') /\ w[k] = cells'[k + off']
  BY <1>1, SuffixFacts, Zenon
<1> HIDE DEF w
<1>3. Window' = w
  BY DEF Window, w
<1>4. QED
  BY <1>2, <1>3, Zenon

LEMMA CellFacts ==
  ASSUME TypeOK
  PROVE  /\ off \in Nat /\ Len(cells) \in Nat /\ off <= Len(cells)
         /\ DOMAIN cells = 1 .. Len(cells)
         /\ \A k \in 1 .. Len(cells) : /\ cells[k] \in Entries /\ cells[k].seq \in Nat
                                       /\ cells[k].req \in Requests
         /\ Live \subseteq 1 .. Len(cells)
<1>1. off \in Nat /\ Len(cells) \in Nat /\ off <= Len(cells) /\ DOMAIN cells = 1 .. Len(cells)
  BY LenProperties DEF TypeOK
<1>2. \A k \in 1 .. Len(cells) : cells[k] \in Entries
  BY ElementOfSeq DEF TypeOK
<1>3. QED
  BY <1>1, <1>2 DEF Entries, Live

(* An event is appended to the log.                                        *)
LEMMA LogAppended ==
  ASSUME TypeOK, NEW e \in Events, log' = Append(log, e)
  PROVE  /\ log' \in Seq(Events) /\ Len(log) \in Nat /\ Len(log') = Len(log) + 1
         /\ DOMAIN log = 1 .. Len(log) /\ DOMAIN log' = 1 .. Len(log) + 1
         /\ \A i \in DOMAIN log : i \in DOMAIN log' /\ log'[i] = log[i]
         /\ log'[Len(log) + 1] = e
<1>1. log \in Seq(Events)
  BY DEF TypeOK
<1>2. QED
  BY <1>1, AppendProperties, LenProperties

(* An answer changes one status in the log.                                *)
LEMMA LogAnswered ==
  ASSUME TypeOK, NEW r \in Requests, NEW status \in Statuses, LogAnswer(r, status)
  PROVE  /\ log' \in Seq(Events) /\ Len(log') = Len(log) /\ DOMAIN log' = DOMAIN log
         /\ \A i \in DOMAIN log : /\ log'[i].kind = log[i].kind
                                  /\ log[i].kind = "net" => log'[i].req = log[i].req
                                  /\ ~IsLatestHop(i, r) => log'[i] = log[i]
                                  /\ IsLatestHop(i, r) => log'[i].status = status
<1>1. log \in Seq(Events) /\ Len(log) \in Nat /\ DOMAIN log = 1 .. Len(log)
      /\ \A i \in DOMAIN log : log[i] \in Events
  BY LenProperties, ElementOfSeq DEF TypeOK
<1>2. log' = [i \in 1 .. Len(log) |->
                IF IsLatestHop(i, r) THEN [log[i] EXCEPT !.status = status] ELSE log[i]]
  BY <1>1 DEF LogAnswer
<1>3. ASSUME NEW i \in DOMAIN log, IsLatestHop(i, r)
      PROVE  LET e == [log[i] EXCEPT !.status = status]
             IN  e \in Events /\ e.kind = log[i].kind /\ e.req = log[i].req /\ e.status = status
  <2>1. log[i] \in [kind : {"net"}, req : Requests, status : Statuses \cup {Pending}]
    BY <1>1, <1>3 DEF IsLatestHop, Hops, Events
  <2>2. QED
    BY <2>1 DEF Events
<1>4. \A i \in 1 .. Len(log) : log'[i] \in Events
  BY <1>1, <1>2, <1>3
<1>5. DOMAIN log' = 1 .. Len(log)
  BY <1>2
<1>6. log' \in Seq(Events) /\ Len(log') = Len(log)
  <2>1. log' \in [1 .. Len(log) -> Events]
    BY <1>2, <1>4
  <2>2. log' \in Seq(Events)
    BY <1>1, <2>1, SeqDef
  <2>3. QED
    BY <1>1, <1>5, <2>2, LenProperties
<1>7. QED
  BY <1>1, <1>2, <1>3, <1>5, <1>6

(* A request enters the ring: the array moves down by d cells, and the     *)
(* slice drops its oldest entry if it was full.                            *)
Pushed(r, d) ==
    /\ eventSeq' = eventSeq + 1
    /\ cells' \in Seq(Entries) /\ Len(cells') = Len(cells) - d + 1
    /\ cells'[Len(cells')] = NewEntry(r)
    /\ size' \in Nat /\ Len(cells') <= size'
    /\ \/ off' = off - d /\ Len(cells') - off' <= RingCap
       \/ off' = off - d + 1 /\ Len(cells') - off' = RingCap
    /\ \A k \in off - d + 1 .. Len(cells) - d : cells'[k] = cells[k + d]
    /\ inFlight' \in [Requests -> {Absent, Moved} \cup (1 .. Len(cells'))]
    /\ inFlight'[r] = Len(cells')
    /\ \A q \in Requests \ {r} :
          inFlight'[q] > 0 => inFlight'[q] = inFlight[q] /\ cells'[inFlight[q]] = cells[inFlight[q]]

LEMMA Push ==
  ASSUME TypeOK, Numbered, NEW r \in Requests, PushNetRing(r)
  PROVE  \E d \in 0 .. off : Pushed(r, d)
<1> DEFINE e == NewEntry(r)
<1>1. e \in Entries /\ eventSeq \in Nat
  BY DEF TypeOK, NewEntry, Entries
<1>2. /\ off \in Nat /\ Len(cells) \in Nat /\ off <= Len(cells) /\ size \in Nat /\ Len(cells) <= size
      /\ cells \in Seq(Entries) /\ Len(cells) - off <= RingCap /\ RingCap \in Nat \ {0}
      /\ inFlight \in [Requests -> {Absent, Moved} \cup (1 .. Len(cells))]
  BY CellFacts, CapAssumption DEF TypeOK, Numbered
<1> HIDE DEF e
<1>3. CASE PushInPlace(r)
  <2>1. cells' = Append(cells, e) /\ size' = size /\ Len(cells) < size
        /\ inFlight' = [inFlight EXCEPT ![r] = Len(cells')] /\ off' = Resliced(cells', off)
    BY <1>3 DEF PushInPlace, e
  <2>2. /\ cells' \in Seq(Entries) /\ Len(cells') = Len(cells) + 1
        /\ cells'[Len(cells')] = e /\ \A k \in 1 .. Len(cells) : cells'[k] = cells[k]
    BY <1>1, <1>2, <2>1, AppendProperties
  <2>3. \/ off' = off /\ Len(cells') - off' <= RingCap
        \/ off' = off + 1 /\ Len(cells') - off' = RingCap
    BY <1>2, <2>1, <2>2 DEF Resliced
  <2>4. /\ inFlight' \in [Requests -> {Absent, Moved} \cup (1 .. Len(cells'))]
        /\ inFlight'[r] = Len(cells')
        /\ \A q \in Requests \ {r} :
              inFlight'[q] > 0 => inFlight'[q] = inFlight[q] /\ cells'[inFlight[q]] = cells[inFlight[q]]
    BY <1>2, <2>1, <2>2 DEF Absent, Moved
  <2>5. Pushed(r, 0)
    <3>1. /\ off' = off - 0 \/ off' = off - 0 + 1
          /\ off - 0 = off /\ Len(cells) - 0 = Len(cells)
          /\ \A k \in off + 1 .. Len(cells) : k + 0 = k /\ k \in 1 .. Len(cells)
      BY <1>2, <2>3
    <3>2. eventSeq' = eventSeq + 1
      BY DEF PushNetRing
    <3>3. size' \in Nat /\ Len(cells') <= size'
      BY <1>2, <2>1, <2>2
    <3>4. QED
      BY <2>2, <2>3, <2>4, <3>1, <3>2, <3>3 DEF Pushed, e
  <2>6. QED
    BY <1>2, <2>5
<1>4. CASE PushGrown(r)
  <2>1. cells' = Append(Window, e) /\ off' = Resliced(cells', 0)
        /\ inFlight' = [q \in Requests |->
                            IF q = r THEN Len(cells')
                            ELSE IF inFlight[q] = Absent THEN Absent ELSE Moved]
    BY <1>4 DEF PushGrown, e
  <2>2. /\ cells' \in Seq(Entries) /\ Len(cells') = Len(cells) - off + 1
        /\ cells'[Len(cells')] = e /\ \A k \in 1 .. Len(cells) - off : cells'[k] = cells[k + off]
    <3>1. /\ Window \in Seq(Entries) /\ Len(Window) = Len(cells) - off
          /\ \A k \in 1 .. Len(cells) - off : Window[k] = cells[k + off]
      BY WindowFacts
    <3>2. QED
      BY <1>1, <2>1, <3>1, AppendProperties
  <2>3. size' \in Nat /\ Len(cells') <= size'
    BY <1>2, <1>4, <2>2, CapAssumption DEF PushGrown
  <2>4. \/ off' = 0 /\ Len(cells') - off' <= RingCap
        \/ off' = 1 /\ Len(cells') - off' = RingCap
    <3> DEFINE n == Len(cells')
    <3>1. n \in Int /\ n <= RingCap + 1 /\ off' = IF n - 0 > RingCap THEN n - RingCap ELSE 0
      BY <1>2, <2>1, <2>2 DEF Resliced
    <3> HIDE DEF n
    <3>2. \/ off' = 0 /\ n - off' <= RingCap
          \/ off' = 1 /\ n - off' = RingCap
      BY <1>2, <3>1
    <3>3. QED
      BY <3>2 DEF n
  <2>5. /\ inFlight' \in [Requests -> {Absent, Moved} \cup (1 .. Len(cells'))]
        /\ inFlight'[r] = Len(cells')
        /\ \A q \in Requests \ {r} : ~(inFlight'[q] > 0)
    BY <1>2, <2>1, <2>2 DEF Absent, Moved
  <2>6. Pushed(r, off)
    BY <1>2, <2>2, <2>3, <2>4, <2>5 DEF Pushed, e, PushNetRing
  <2>7. QED
    BY <1>2, <2>6
<1>5. QED
  BY <1>3, <1>4 DEF PushNetRing

LEMMA LastOfFacts ==
  ASSUME NEW S, NEW s \in Seq(S), NEW n \in Nat
  PROVE  /\ LastOf(s, n) \in Seq(S)
         /\ Len(s) <= n => LastOf(s, n) = s
         /\ Len(s) > n => /\ Len(LastOf(s, n)) = n
                          /\ \A k \in 1 .. n : LastOf(s, n)[k] = s[k + (Len(s) - n)]
<1>1. Len(s) \in Nat /\ \A i \in 1 .. Len(s) : s[i] \in S
  BY LenProperties, ElementOfSeq
<1>2. CASE Len(s) > n
  <2> DEFINE m == Len(s) - n + 1
  <2>1. m \in Int /\ m >= 1 /\ Len(s) - m + 1 = n
        /\ \A k \in 1 .. n : m + k - 1 = k + (Len(s) - n)
    BY <1>1, <1>2
  <2>2. \A i \in m .. Len(s) : s[i] \in S
    BY <1>1, <2>1
  <2> HIDE DEF m
  <2>3. /\ SubSeq(s, m, Len(s)) \in Seq(S)
        /\ Len(SubSeq(s, m, Len(s))) = IF m <= Len(s) THEN Len(s) - m + 1 ELSE 0
        /\ \A k \in 1 .. Len(s) - m + 1 : SubSeq(s, m, Len(s))[k] = s[m + k - 1]
    BY <1>1, <2>1, <2>2, SubSeqProperties
  <2>4. LastOf(s, n) = SubSeq(s, m, Len(s))
    BY <1>2 DEF LastOf, m
  <2>5. m <= Len(s) \/ n = 0
    BY <1>1, <2>1
  <2>6. Len(LastOf(s, n)) = n
    BY <1>1, <2>1, <2>3, <2>4, <2>5
  <2>7. \A k \in 1 .. n : LastOf(s, n)[k] = s[k + (Len(s) - n)]
    BY <2>1, <2>3, <2>4
  <2>8. QED
    BY <1>1, <1>2, <2>3, <2>4, <2>6, <2>7
<1>3. CASE ~(Len(s) > n)
  BY <1>1, <1>3 DEF LastOf
<1>4. QED
  BY <1>2, <1>3

LEMMA EventIsEvent ==
  /\ \A r \in Requests : NetEvent(r) \in Events /\ NetEvent(r).kind = "net" /\ NetEvent(r).req = r
                         /\ NetEvent(r).status = Pending
  /\ \A level \in {"error", "warn"} : [kind |-> level] \in Events
BY DEF NetEvent, Events

-----------------------------------------------------------------------------
(* The types.                                                              *)

LEMMA InitType == Init => TypeOK
<1> SUFFICES ASSUME Init PROVE TypeOK
  OBVIOUS
<1>1. /\ cells \in Seq(Entries) /\ consoleRing \in Seq([seq : Nat, level : {"error", "warn"}])
      /\ log \in Seq(Events) /\ Len(cells) = 0
  BY EmptySeq DEF Init
<1>2. handler \in [Handlers -> Reports]
      /\ \A h \in Handlers : handler[h].anchor = 0 /\ handler[h].upto = 0
  BY DEF Init, Fresh, Report, Reports
<1>3. QED
  BY <1>1, <1>2 DEF Init, TypeOK, Absent, Moved

(* A step of a handler changes its own report only.                        *)
LEMMA HandlerType ==
  ASSUME TypeOK, NEW h \in Handlers, NEW report \in Reports,
         report.anchor <= eventSeq, report.upto <= eventSeq,
         handler' = [handler EXCEPT ![h] = report],
         UNCHANGED <<ringVars, consoleRing, phase, log>>
  PROVE  TypeOK'
<1>1. handler' \in [Handlers -> Reports]
      /\ \A g \in Handlers : handler'[g].anchor <= eventSeq /\ handler'[g].upto <= eventSeq
  BY DEF TypeOK
<1>2. QED
  BY <1>1 DEF TypeOK, ringVars

(* What the handlers find in the rings.                                    *)
LEMMA FoundTypes ==
  ASSUME TypeOK, NEW since
  PROVE  /\ NetRequestsSince(since) \subseteq Entries
         /\ {e.seq : e \in ConsoleErrorsSince(since)} \subseteq Nat
<1>1. NetRequestsSince(since) \subseteq Entries
  BY WindowFacts, CellFacts DEF NetRequestsSince
<1>2. \A k \in DOMAIN consoleRing : consoleRing[k].seq \in Nat
  <2>1. \A k \in 1 .. Len(consoleRing) : consoleRing[k] \in [seq : Nat, level : {"error", "warn"}]
    BY ElementOfSeq DEF TypeOK
  <2>2. DOMAIN consoleRing = 1 .. Len(consoleRing)
    BY LenProperties DEF TypeOK
  <2>3. QED
    BY <2>1, <2>2
<1>3. {e.seq : e \in ConsoleErrorsSince(since)} \subseteq Nat
  BY <1>2 DEF ConsoleErrorsSince
<1>4. QED
  BY <1>1, <1>3

LEMMA StepType ==
  ASSUME TypeOK, Numbered, [Next]_vars
  PROVE  TypeOK'
<1>1. eventSeq \in Nat
  BY DEF TypeOK
<1>2. ASSUME NEW r \in Requests, WillBeSent(r) PROVE TypeOK'
  <2>1. PICK d \in 0 .. off : Pushed(r, d)
    BY <1>2, Push DEF WillBeSent
  <2>2. /\ eventSeq' \in Nat /\ cells' \in Seq(Entries) /\ off' \in 0 .. Len(cells')
        /\ size' \in Nat /\ Len(cells') <= size'
        /\ inFlight' \in [Requests -> {Absent, Moved} \cup (1 .. Len(cells'))]
    <3>1. Len(cells') \in Nat
      BY <2>1, LenProperties DEF Pushed
    <3>2. Len(cells') = Len(cells) - d + 1 /\ (off' = off - d \/ off' = off - d + 1)
      BY <2>1 DEF Pushed
    <3>3. off' \in 0 .. Len(cells')
      BY <3>1, <3>2, CellFacts
    <3>4. QED
      BY <1>1, <2>1, <3>3 DEF Pushed
  <2>3. log' \in Seq(Events) /\ phase' \in [Requests -> {"new", "open", "answered", "over"}]
    BY <1>2, LogAppended, EventIsEvent DEF WillBeSent, TypeOK
  <2>4. /\ handler' = handler /\ consoleRing' = consoleRing
        /\ \A h \in Handlers : handler[h].anchor <= eventSeq' /\ handler[h].upto <= eventSeq'
    <3>1. handler' = handler /\ consoleRing' = consoleRing /\ eventSeq' = eventSeq + 1
      BY <1>2, <2>1 DEF WillBeSent, Pushed
    <3>2. \A h \in Handlers : /\ handler[h].anchor \in Nat /\ handler[h].upto \in Nat
                              /\ handler[h].anchor <= eventSeq /\ handler[h].upto <= eventSeq
      BY DEF TypeOK, Reports
    <3>3. QED
      BY <1>1, <3>1, <3>2
  <2>5. QED
    BY <2>2, <2>3, <2>4 DEF TypeOK
<1>3. ASSUME NEW r \in Requests, SentUnseen(r) \/ LoadingFailed(r) PROVE TypeOK'
  BY <1>3 DEF SentUnseen, LoadingFailed, TypeOK, ringVars, Absent
<1>4. ASSUME NEW r \in Requests, NEW status \in Statuses, ResponseReceived(r, status) PROVE TypeOK'
  <2>1. log' \in Seq(Events)
    BY <1>4, LogAnswered DEF ResponseReceived
  <2>2. cells' \in Seq(Entries) /\ Len(cells') = Len(cells)
    <3>1. CASE inFlight[r] > 0
      <4>1. inFlight[r] \in 1 .. Len(cells)
        BY <3>1 DEF TypeOK, Absent, Moved
      <4>2. [cells[inFlight[r]] EXCEPT !.status = status] \in Entries
        BY <4>1, CellFacts DEF Entries
      <4>3. QED
        BY <1>4, <3>1, <4>1, <4>2, ExceptSeq DEF ResponseReceived, RingCorrelate, TypeOK
    <3>2. CASE ~(inFlight[r] > 0)
      BY <1>4, <3>2 DEF ResponseReceived, RingCorrelate, TypeOK
    <3>3. QED
      BY <3>1, <3>2
  <2>3. /\ inFlight' \in [Requests -> {Absent, Moved} \cup (1 .. Len(cells'))]
        /\ phase' \in [Requests -> {"new", "open", "answered", "over"}]
        /\ UNCHANGED <<eventSeq, off, size, consoleRing, handler>>
    BY <1>4, <2>2 DEF ResponseReceived, RingCorrelate, TypeOK
  <2>4. QED
    BY <2>1, <2>2, <2>3 DEF TypeOK
<1>5. ASSUME NEW level \in {"error", "warn"}, ConsoleAPICalled(level) PROVE TypeOK'
  <2>1. log' \in Seq(Events) /\ eventSeq' = eventSeq + 1
    BY <1>5, LogAppended, EventIsEvent DEF ConsoleAPICalled, PushConsoleRing
  <2>2. consoleRing' \in Seq([seq : Nat, level : {"error", "warn"}])
    <3> DEFINE e == [seq |-> eventSeq', level |-> level]
    <3>1. e \in [seq : Nat, level : {"error", "warn"}]
      BY <1>1, <2>1
    <3>2. consoleRing' = LastOf(Append(consoleRing, e), ConsoleCap)
      BY <1>5 DEF ConsoleAPICalled, PushConsoleRing
    <3> HIDE DEF e
    <3>3. Append(consoleRing, e) \in Seq([seq : Nat, level : {"error", "warn"}])
      BY <3>1, AppendProperties DEF TypeOK
    <3>4. QED
      BY <3>2, <3>3, LastOfFacts, CapAssumption
  <2>3. \A h \in Handlers : handler[h].anchor <= eventSeq' /\ handler[h].upto <= eventSeq'
    BY <1>1, <2>1 DEF TypeOK, Reports
  <2>4. QED
    BY <1>1, <1>5, <2>1, <2>2, <2>3 DEF ConsoleAPICalled, TypeOK
<1>6. ASSUME NEW h \in Handlers, Anchor(h) PROVE TypeOK'
  <2> DEFINE report == Report("acting", eventSeq, 0, {}, {})
  <2>1. report \in Reports /\ report.anchor <= eventSeq /\ report.upto <= eventSeq
    BY <1>1 DEF Reports, Report
  <2> HIDE DEF report
  <2>2. QED
    BY <1>6, <2>1, HandlerType DEF Anchor, report
<1>7. ASSUME NEW h \in Handlers, ReadRequests(h) PROVE TypeOK'
  <2> DEFINE report == Report("netRead", handler[h].anchor, eventSeq,
                              NetRequestsSince(handler[h].anchor), {})
  <2>1. handler[h] \in Reports /\ handler[h].anchor <= eventSeq
    BY DEF TypeOK
  <2>2. report \in Reports /\ report.anchor <= eventSeq /\ report.upto <= eventSeq
    BY <1>1, <2>1, FoundTypes DEF Reports, Report
  <2> HIDE DEF report
  <2>3. QED
    BY <1>7, <2>2, HandlerType DEF ReadRequests, report
<1>8. ASSUME NEW h \in Handlers, ReadErrors(h) PROVE TypeOK'
  <2> DEFINE report == Report("reported", handler[h].anchor, handler[h].upto, handler[h].net,
                              {e.seq : e \in ConsoleErrorsSince(handler[h].anchor)})
  <2>1. handler[h] \in Reports /\ handler[h].anchor <= eventSeq /\ handler[h].upto <= eventSeq
    BY DEF TypeOK
  <2>2. report \in Reports /\ report.anchor <= eventSeq /\ report.upto <= eventSeq
    BY <1>1, <2>1, FoundTypes DEF Reports, Report
  <2> HIDE DEF report
  <2>3. QED
    BY <1>8, <2>2, HandlerType DEF ReadErrors, report
<1>9. ASSUME NEW h \in Handlers, Reply(h) PROVE TypeOK'
  <2>1. Fresh \in Reports /\ Fresh.anchor <= eventSeq /\ Fresh.upto <= eventSeq
    BY <1>1 DEF Reports, Report, Fresh
  <2>2. QED
    BY <1>9, <2>1, HandlerType DEF Reply
<1>10. CASE UNCHANGED vars
  BY <1>10 DEF vars, ringVars, TypeOK
<1>11. QED
  BY <1>2, <1>3, <1>4, <1>5, <1>6, <1>7, <1>8, <1>9, <1>10 DEF Next

-----------------------------------------------------------------------------
(* The ring.                                                               *)

(* Where the entries are after a push.                                     *)
LEMMA LiveAfterPush ==
  ASSUME TypeOK, NEW r \in Requests, NEW d \in 0 .. off, Pushed(r, d)
  PROVE  /\ Len(cells') \in Live' /\ Len(cells') \in Nat
         /\ \A k \in Live' : k # Len(cells') => k + d \in Live /\ cells'[k] = cells[k + d]
         /\ \A k \in Live : \/ k - d \in Live' /\ cells'[k - d] = cells[k]
                            \/ /\ Len(cells') - off' = RingCap
                               /\ \A j \in Live' : j # Len(cells') => j + d > k
         /\ Len(cells) - off = RingCap => /\ Len(cells') - off' = RingCap
<1>1. /\ off \in Nat /\ Len(cells) \in Nat /\ off <= Len(cells) /\ d \in Nat /\ d <= off
      /\ RingCap \in Nat /\ RingCap >= 1
  BY CellFacts, CapAssumption
<1>2. /\ Len(cells') = Len(cells) - d + 1
      /\ \/ off' = off - d /\ Len(cells') - off' <= RingCap
         \/ off' = off - d + 1 /\ Len(cells') - off' = RingCap
      /\ \A k \in off - d + 1 .. Len(cells) - d : cells'[k] = cells[k + d]
  BY DEF Pushed
<1>3. Live' = off' + 1 .. Len(cells')
  BY DEF Live
<1>4. Len(cells') \in Live' /\ Len(cells') \in Nat
  BY <1>1, <1>2, <1>3
<1>5. ASSUME NEW k \in Live', k # Len(cells')
      PROVE  k + d \in Live /\ cells'[k] = cells[k + d]
  <2>0. k \in Int /\ off' + 1 <= k /\ k < Len(cells')
    BY <1>1, <1>2, <1>3, <1>5
  <2>1. k \in off - d + 1 .. Len(cells) - d /\ k + d \in off + 1 .. Len(cells)
    BY <1>1, <1>2, <2>0
  <2>2. QED
    BY <1>2, <2>1 DEF Live
<1>6. ASSUME NEW k \in Live
      PROVE  \/ k - d \in Live' /\ cells'[k - d] = cells[k]
             \/ /\ Len(cells') - off' = RingCap
                /\ \A j \in Live' : j # Len(cells') => j + d > k
  <2>1. k \in Int /\ off + 1 <= k /\ k <= Len(cells)
    BY <1>1 DEF Live
  <2>2. k - d \in off - d + 1 .. Len(cells) - d /\ (k - d) + d = k
    BY <1>1, <2>1
  <2>3. cells'[k - d] = cells[k]
    BY <1>2, <2>2
  <2>4. CASE off' = off - d \/ k > off + 1
    BY <1>1, <1>2, <1>3, <2>1, <2>3, <2>4
  <2>5. CASE off' = off - d + 1 /\ k = off + 1
    BY <1>1, <1>2, <1>3, <2>1, <2>5
  <2>6. QED
    BY <1>2, <2>1, <2>4, <2>5, <1>1
<1>7. Len(cells) - off = RingCap => Len(cells') - off' = RingCap
  BY <1>1, <1>2
<1>8. QED
  BY <1>4, <1>5, <1>6, <1>7

LEMMA PushKeepsRing ==
  ASSUME RingInv, TypeOK', NEW r \in Requests, WillBeSent(r)
  PROVE  RingInv'
<1>1. TypeOK /\ Numbered /\ log' = Append(log, NetEvent(r))
  BY DEF RingInv, WillBeSent
<1>2. PICK d \in 0 .. off : Pushed(r, d)
  BY <1>1, Push DEF WillBeSent
<1>3. /\ log \in Seq(Events) /\ Len(log) \in Nat /\ eventSeq = Len(log) /\ Len(log') = Len(log) + 1
      /\ DOMAIN log = 1 .. Len(log) /\ DOMAIN log' = 1 .. Len(log) + 1
      /\ \A i \in DOMAIN log : i \in DOMAIN log' /\ log'[i] = log[i]
      /\ log'[Len(log) + 1] = NetEvent(r)
  BY <1>1, EventIsEvent, LogAppended DEF Numbered, TypeOK
<1> DEFINE last == Len(cells')
<1>4. /\ last \in Live' /\ last \in Nat
      /\ cells'[last].seq = Len(log) + 1 /\ cells'[last].req = r /\ cells'[last].status = Pending
  <2>1. last \in Live' /\ last \in Nat
    BY <1>1, <1>2, LiveAfterPush
  <2>2. cells'[last] = NewEntry(r)
    BY <1>2 DEF Pushed
  <2>3. QED
    BY <1>3, <2>1, <2>2 DEF NewEntry
<1>5. /\ \A k \in Live' : k # last => k + d \in Live /\ cells'[k] = cells[k + d]
      /\ \A k \in Live : \/ k - d \in Live' /\ cells'[k - d] = cells[k]
                         \/ /\ last - off' = RingCap
                            /\ \A j \in Live' : j # last => j + d > k
      /\ Len(cells) - off = RingCap => last - off' = RingCap
  BY <1>1, <1>2, LiveAfterPush
<1>6. \A i : NetAt(i)' <=> NetAt(i) \/ i = Len(log) + 1
  BY <1>3, EventIsEvent DEF NetAt
<1>7. /\ \A k \in Live : /\ NetAt(cells[k].seq) /\ log[cells[k].seq].req = cells[k].req
                         /\ cells[k].seq \in 1 .. Len(log)
                         /\ cells[k].status \in {Pending, log[cells[k].seq].status}
      /\ \A k \in Live' : k \in Int /\ k <= last
      /\ \A k \in Live : k \in Int
      /\ d \in Int
  BY <1>1, <1>3, <1>4, CellFacts DEF RingInv, LiveLogged, LiveStatus, NetAt, Live
<1> HIDE DEF last
<1>8. Numbered'
  <2>1. eventSeq' = Len(log')
    BY <1>2, <1>3 DEF Pushed
  <2>2. Len(cells') - off' <= RingCap
    BY <1>2, CapAssumption DEF Pushed
  <2>3. QED
    BY <2>1, <2>2 DEF Numbered
<1>9. LiveLogged'
  BY <1>3, <1>4, <1>5, <1>6, <1>7, EventIsEvent DEF LiveLogged
<1>10. LiveOrdered'
  <2> SUFFICES ASSUME NEW j \in Live', NEW k \in Live', j < k PROVE cells'[j].seq < cells'[k].seq
    BY DEF LiveOrdered
  <2>1. j # last /\ j + d \in Live /\ cells'[j] = cells[j + d] /\ cells[j + d].seq \in 1 .. Len(log)
    BY <1>4, <1>5, <1>7
  <2>2. CASE k = last
    BY <1>3, <1>4, <2>1, <2>2
  <2>3. CASE k # last
    <3>1. k + d \in Live /\ cells'[k] = cells[k + d] /\ j + d < k + d
      BY <1>5, <1>7, <2>3
    <3>2. QED
      BY <2>1, <3>1 DEF RingInv, LiveOrdered
  <2>4. QED
    BY <2>2, <2>3
<1>11. LiveComplete'
  <2> SUFFICES ASSUME NEW i \in DOMAIN log', NetAt(i)'
               PROVE  \/ \E k \in Live' : cells'[k].seq = i
                      \/ last - off' = RingCap /\ \A k \in Live' : i < cells'[k].seq
    BY DEF LiveComplete, last
  <2>1. CASE i = Len(log) + 1
    BY <1>4, <2>1
  <2>2. CASE NetAt(i)
    <3>0. i \in DOMAIN log /\ i \in Int /\ i < Len(log) + 1
      BY <1>3, <2>2 DEF NetAt
    <3>1. CASE \E k \in Live : cells[k].seq = i
      <4>1. PICK k \in Live : cells[k].seq = i
        BY <3>1
      <4>2. CASE k - d \in Live' /\ cells'[k - d] = cells[k]
        BY <4>1, <4>2
      <4>3. CASE last - off' = RingCap /\ \A j \in Live' : j # last => j + d > k
        <5>1. ASSUME NEW j \in Live' PROVE i < cells'[j].seq
          <6>1. CASE j = last
            BY <1>4, <3>0, <6>1
          <6>2. CASE j # last
            BY <1>5, <1>7, <4>1, <4>3, <6>2 DEF RingInv, LiveOrdered
          <6>3. QED
            BY <6>1, <6>2
        <5>2. QED
          BY <4>3, <5>1
      <4>4. QED
        BY <1>5, <4>2, <4>3
    <3>2. CASE Len(cells) - off = RingCap /\ \A k \in Live : i < cells[k].seq
      <4>1. ASSUME NEW j \in Live' PROVE i < cells'[j].seq
        BY <1>4, <1>5, <3>0, <3>2
      <4>2. QED
        BY <1>5, <3>2, <4>1
    <3>3. QED
      BY <2>2, <3>0, <3>1, <3>2 DEF RingInv, LiveComplete
  <2>3. QED
    BY <1>6, <2>1, <2>2
<1>12. LiveStatus'
  <2> SUFFICES ASSUME NEW k \in Live' PROVE cells'[k].status \in {Pending, log'[cells'[k].seq].status}
    BY DEF LiveStatus
  <2>1. CASE k = last
    BY <1>4, <2>1
  <2>2. CASE k # last
    BY <1>3, <1>5, <1>7, <2>2
  <2>3. QED
    BY <2>1, <2>2
<1>13. OpenPending'
  <2> SUFFICES ASSUME NEW q \in Requests, phase'[q] \in {"new", "open"}, NEW k \in Live', cells'[k].req = q
               PROVE  cells'[k].status = Pending
    BY DEF OpenPending
  <2>1. CASE k = last
    BY <1>4, <2>1
  <2>2. CASE k # last
    <3>1. phase[q] \in {"new", "open"}
      BY DEF WillBeSent, RingInv, TypeOK
    <3>2. QED
      BY <1>5, <2>2, <3>1 DEF RingInv, OpenPending
  <2>3. QED
    BY <2>1, <2>2
<1>14. PointersLatest'
  <2> SUFFICES ASSUME NEW q \in Requests, inFlight'[q] > 0
               PROVE  /\ cells'[inFlight'[q]].req = q
                      /\ cells'[inFlight'[q]].status = Pending
                      /\ \A i \in Hops(q)' : i <= cells'[inFlight'[q]].seq
    BY DEF PointersLatest
  <2>1. CASE q = r
    <3>1. inFlight'[q] = last
      BY <1>2, <2>1 DEF Pushed, last
    <3>2. QED
      BY <1>3, <1>4, <2>1, <3>1 DEF Hops
  <2>2. CASE q # r
    <3>1. inFlight'[q] = inFlight[q] /\ cells'[inFlight[q]] = cells[inFlight[q]]
      BY <1>2, <2>2 DEF Pushed
    <3>2. Hops(q)' \subseteq Hops(q)
      BY <1>3, <2>2, EventIsEvent DEF Hops
    <3>3. QED
      BY <3>1, <3>2 DEF RingInv, PointersLatest
  <2>3. QED
    BY <2>1, <2>2
<1>15. QED
  BY <1>8, <1>9, <1>10, <1>11, <1>12, <1>13, <1>14 DEF RingInv

LEMMA AnswerKeepsRing ==
  ASSUME RingInv, TypeOK', NEW r \in Requests, NEW status \in Statuses, ResponseReceived(r, status)
  PROVE  RingInv'
<1>1. /\ TypeOK /\ Numbered /\ LogAnswer(r, status) /\ RingCorrelate(r, status)
      /\ phase[r] = "open" /\ phase' = [phase EXCEPT ![r] = "answered"]
      /\ UNCHANGED <<eventSeq, off>>
  BY DEF RingInv, ResponseReceived, RingCorrelate
<1>2. /\ Len(log') = Len(log) /\ DOMAIN log' = DOMAIN log
      /\ \A i \in DOMAIN log : /\ log'[i].kind = log[i].kind
                               /\ log[i].kind = "net" => log'[i].req = log[i].req
                               /\ ~IsLatestHop(i, r) => log'[i] = log[i]
                               /\ IsLatestHop(i, r) => log'[i].status = status
  BY <1>1, LogAnswered
<1> DEFINE p == inFlight[r]
<1>3. /\ inFlight' = [inFlight EXCEPT ![r] = Absent]
      /\ p > 0 => p \in 1 .. Len(cells) /\ cells' = [cells EXCEPT ![p].status = status]
      /\ ~(p > 0) => cells' = cells
      /\ inFlight \in [Requests -> {Absent, Moved} \cup (1 .. Len(cells))]
  BY <1>1 DEF RingCorrelate, TypeOK, Absent, Moved
<1>4. /\ DOMAIN cells = 1 .. Len(cells) /\ Live \subseteq 1 .. Len(cells)
      /\ \A k \in 1 .. Len(cells) : cells[k] \in Entries
  BY <1>1, CellFacts
<1>5. Len(cells') = Len(cells) /\ Live' = Live
  <2>1. DOMAIN cells' = DOMAIN cells
    BY <1>3
  <2>2. Len(cells') = Len(cells)
    BY <1>1, <1>4, <2>1, LenProperties DEF TypeOK
  <2>3. QED
    BY <1>1, <2>2 DEF Live
<1> HIDE DEF p
<1>6. \A k \in 1 .. Len(cells) : /\ cells'[k].seq = cells[k].seq /\ cells'[k].req = cells[k].req
                                 /\ k # p => cells'[k] = cells[k]
                                 /\ k = p => cells'[k].status = status
  <2> SUFFICES ASSUME NEW k \in 1 .. Len(cells)
               PROVE  /\ cells'[k].seq = cells[k].seq /\ cells'[k].req = cells[k].req
                      /\ k # p => cells'[k] = cells[k]
                      /\ k = p => cells'[k].status = status
    OBVIOUS
  <2>1. CASE p > 0
    <3>1. cells' = [cells EXCEPT ![p].status = status] /\ p \in DOMAIN cells /\ k \in DOMAIN cells
          /\ cells[p] \in Entries
      BY <1>3, <1>4, <2>1
    <3>2. k # p => cells'[k] = cells[k]
      BY <3>1
    <3>3. cells'[p] = [cells[p] EXCEPT !.status = status]
      BY <3>1
    <3>4. cells'[p].seq = cells[p].seq /\ cells'[p].req = cells[p].req /\ cells'[p].status = status
      BY <3>1, <3>3 DEF Entries
    <3>5. QED
      BY <3>2, <3>4
  <2>2. CASE ~(p > 0)
    BY <1>3, <2>2
  <2>3. QED
    BY <2>1, <2>2
<1>7. /\ \A i : NetAt(i)' <=> NetAt(i)
      /\ \A q \in Requests : Hops(q)' = Hops(q)
  BY <1>2 DEF NetAt, Hops
<1>8. Numbered' /\ LiveLogged' /\ LiveOrdered' /\ LiveComplete'
  <2>1. Numbered'
    BY <1>1, <1>2, <1>5 DEF Numbered
  <2>2. LiveLogged'
    <3> SUFFICES ASSUME NEW k \in Live
                 PROVE  (NetAt(cells[k].seq) /\ log[cells[k].seq].req = cells[k].req)'
      BY <1>5 DEF LiveLogged
    <3>1. NetAt(cells[k].seq) /\ log[cells[k].seq].req = cells[k].req
      BY DEF RingInv, LiveLogged
    <3>2. log'[cells[k].seq].req = log[cells[k].seq].req
      BY <1>2, <3>1 DEF NetAt
    <3>3. cells'[k].seq = cells[k].seq /\ cells'[k].req = cells[k].req
      BY <1>4, <1>6
    <3>4. QED
      BY <1>2, <3>1, <3>2, <3>3 DEF NetAt
  <2>3. LiveOrdered'
    BY <1>4, <1>5, <1>6 DEF LiveOrdered, RingInv
  <2>4. LiveComplete'
    <3> SUFFICES ASSUME NEW i \in DOMAIN log, NetAt(i)
                 PROVE  \/ \E k \in Live : cells'[k].seq = i
                        \/ Len(cells) - off = RingCap /\ \A k \in Live : i < cells'[k].seq
      BY <1>1, <1>2, <1>5, <1>7 DEF LiveComplete
    <3>1. \A k \in Live : cells'[k].seq = cells[k].seq
      BY <1>4, <1>6
    <3>2. \/ \E k \in Live : cells[k].seq = i
          \/ Len(cells) - off = RingCap /\ \A k \in Live : i < cells[k].seq
      BY DEF RingInv, LiveComplete
    <3>3. QED
      BY <3>1, <3>2
  <2>5. QED
    BY <2>1, <2>2, <2>3, <2>4
(* The hop answered has no status in the ring yet, and the pointer, if it  *)
(* points anywhere in the array, points at this hop.                       *)
<1>9. LiveStatus'
  <2> SUFFICES ASSUME NEW k \in Live
               PROVE  cells'[k].status \in {Pending, log'[cells'[k].seq].status}
    BY <1>5 DEF LiveStatus
  <2>1. /\ k \in 1 .. Len(cells) /\ NetAt(cells[k].seq) /\ log[cells[k].seq].req = cells[k].req
        /\ cells[k].status \in {Pending, log[cells[k].seq].status}
        /\ cells'[k].seq = cells[k].seq
    BY <1>4, <1>6 DEF RingInv, LiveLogged, LiveStatus
  <2>2. CASE IsLatestHop(cells[k].seq, r)
    <3>1. log'[cells[k].seq].status = status
      BY <1>2, <2>1, <2>2 DEF NetAt
    <3>2. cells[k].status = Pending
      <4>1. cells[k].req = r
        BY <2>1, <2>2 DEF IsLatestHop, Hops
      <4>2. QED
        BY <1>1, <4>1 DEF RingInv, OpenPending
    <3>3. cells'[k].status \in {status, Pending}
      BY <1>6, <2>1, <3>2
    <3>4. QED
      BY <2>1, <3>1, <3>3
  <2>3. CASE ~IsLatestHop(cells[k].seq, r)
    <3>1. log'[cells[k].seq] = log[cells[k].seq]
      BY <1>2, <2>1, <2>3 DEF NetAt
    <3>2. k # p
      <4>1. SUFFICES ASSUME k = p PROVE FALSE
        OBVIOUS
      <4>2. inFlight[r] > 0
        BY <1>4, <2>1, <4>1 DEF p
      <4>3. cells[p].req = r /\ \A i \in Hops(r) : i <= cells[p].seq
        BY <4>2 DEF RingInv, PointersLatest, p
      <4>4. cells[p].seq \in Hops(r)
        BY <2>1, <4>1, <4>3 DEF Hops, NetAt
      <4>5. QED
        BY <2>3, <4>1, <4>3, <4>4 DEF IsLatestHop
    <3>3. QED
      BY <1>6, <2>1, <3>1, <3>2
  <2>4. QED
    BY <2>2, <2>3
<1>10. OpenPending'
  <2> SUFFICES ASSUME NEW q \in Requests, phase'[q] \in {"new", "open"}, NEW k \in Live, cells'[k].req = q
               PROVE  cells'[k].status = Pending
    BY <1>5 DEF OpenPending
  <2>1. q # r /\ phase[q] \in {"new", "open"}
    BY <1>1 DEF TypeOK
  <2>2. cells[k].req = q /\ cells[k].status = Pending /\ k \in 1 .. Len(cells)
    BY <1>4, <1>6, <2>1 DEF RingInv, OpenPending
  <2>3. k # p
    <3>1. inFlight[r] > 0 => cells[p].req = r
      BY DEF RingInv, PointersLatest, p
    <3>2. QED
      BY <1>4, <2>1, <2>2, <3>1 DEF p
  <2>4. QED
    BY <1>6, <2>2, <2>3
<1>11. PointersLatest'
  <2> SUFFICES ASSUME NEW q \in Requests, inFlight'[q] > 0
               PROVE  /\ cells'[inFlight'[q]].req = q
                      /\ cells'[inFlight'[q]].status = Pending
                      /\ \A i \in Hops(q)' : i <= cells'[inFlight'[q]].seq
    BY DEF PointersLatest
  <2>1. q # r /\ inFlight'[q] = inFlight[q] /\ inFlight[q] \in 1 .. Len(cells)
    BY <1>3 DEF Absent, Moved
  <2>2. /\ cells[inFlight[q]].req = q /\ cells[inFlight[q]].status = Pending
        /\ \A i \in Hops(q) : i <= cells[inFlight[q]].seq
    BY <2>1 DEF RingInv, PointersLatest
  <2>3. inFlight[q] # p
    BY <2>1, <2>2 DEF RingInv, PointersLatest, p
  <2>4. QED
    BY <1>6, <1>7, <2>1, <2>2, <2>3
<1>12. QED
  BY <1>8, <1>9, <1>10, <1>11 DEF RingInv

(* Steps that move no cell and log nothing: a request sent unseen or       *)
(* failed, a handler's step.                                               *)
LEMMA QuietKeepsRing ==
  ASSUME RingInv, TypeOK', UNCHANGED <<eventSeq, cells, off, log>>,
         \A r \in Requests : /\ inFlight'[r] > 0 => inFlight'[r] = inFlight[r]
                             /\ phase'[r] \in {"new", "open"} => phase[r] \in {"new", "open"}
  PROVE  RingInv'
<1>1. /\ Live' = Live /\ \A r \in Requests : Hops(r)' = Hops(r)
      /\ \A i : NetAt(i)' <=> NetAt(i)
  BY DEF Live, Hops, NetAt
<1>2. Numbered' /\ LiveLogged' /\ LiveOrdered' /\ LiveComplete' /\ LiveStatus'
  BY <1>1 DEF RingInv, Numbered, LiveLogged, LiveOrdered, LiveComplete, LiveStatus
<1>3. OpenPending' /\ PointersLatest'
  BY <1>1 DEF RingInv, OpenPending, PointersLatest
<1>4. QED
  BY <1>2, <1>3 DEF RingInv

LEMMA ConsoleKeepsRing ==
  ASSUME RingInv, TypeOK', NEW level \in {"error", "warn"}, ConsoleAPICalled(level)
  PROVE  RingInv'
<1>1. /\ TypeOK /\ Numbered /\ log' = Append(log, [kind |-> level])
      /\ eventSeq' = eventSeq + 1 /\ UNCHANGED <<cells, off, inFlight, phase>>
  BY DEF RingInv, ConsoleAPICalled, PushConsoleRing
<1>2. /\ Len(log') = Len(log) + 1
      /\ DOMAIN log = 1 .. Len(log) /\ DOMAIN log' = 1 .. Len(log) + 1
      /\ \A i \in DOMAIN log : i \in DOMAIN log' /\ log'[i] = log[i]
      /\ log'[Len(log) + 1] = [kind |-> level]
  BY <1>1, EventIsEvent, LogAppended
<1>3. /\ Live' = Live /\ \A i : NetAt(i)' <=> NetAt(i)
      /\ \A r \in Requests : Hops(r)' = Hops(r)
  <2>1. Live' = Live
    BY <1>1 DEF Live
  <2>2. log'[Len(log) + 1].kind # "net"
    BY <1>2
  <2>3. QED
    BY <1>2, <2>1, <2>2 DEF NetAt, Hops
<1>4. Numbered' /\ LiveOrdered' /\ OpenPending' /\ PointersLatest'
  BY <1>1, <1>2, <1>3 DEF RingInv, Numbered, LiveOrdered, OpenPending, PointersLatest
<1>5. LiveLogged' /\ LiveStatus'
  BY <1>1, <1>2, <1>3 DEF RingInv, LiveLogged, LiveStatus, NetAt
<1>6. LiveComplete'
  BY <1>1, <1>2, <1>3 DEF RingInv, LiveComplete, NetAt
<1>7. QED
  BY <1>4, <1>5, <1>6 DEF RingInv

LEMMA InitRing == Init => RingInv
<1> SUFFICES ASSUME Init PROVE RingInv
  OBVIOUS
<1>1. TypeOK
  BY InitType
<1>2. cells = <<>> /\ off = 0 /\ log = <<>> /\ eventSeq = 0 /\ Len(cells) = 0 /\ Len(log) = 0
      /\ DOMAIN log = {} /\ Live = {} /\ inFlight = [r \in Requests |-> Absent]
  BY EmptySeq DEF Init, Live
<1>3. QED
  BY <1>1, <1>2, CapAssumption
     DEF RingInv, Numbered, LiveLogged, LiveOrdered, LiveComplete, LiveStatus, OpenPending,
         PointersLatest, Absent

LEMMA StepRing ==
  ASSUME RingInv, [Next]_vars
  PROVE  RingInv'
<1>1. TypeOK'
  BY StepType DEF RingInv
<1>2. ASSUME NEW r \in Requests, WillBeSent(r) PROVE RingInv'
  BY <1>1, <1>2, PushKeepsRing
<1>3. ASSUME NEW r \in Requests, NEW status \in Statuses, ResponseReceived(r, status) PROVE RingInv'
  BY <1>1, <1>3, AnswerKeepsRing
<1>4. ASSUME NEW r \in Requests, SentUnseen(r) \/ LoadingFailed(r) PROVE RingInv'
  <2>1. UNCHANGED <<eventSeq, cells, off, log>>
    BY <1>4 DEF SentUnseen, LoadingFailed, ringVars
  <2>2. \A q \in Requests : /\ inFlight'[q] > 0 => inFlight'[q] = inFlight[q]
                            /\ phase'[q] \in {"new", "open"} => phase[q] \in {"new", "open"}
    BY <1>4 DEF SentUnseen, LoadingFailed, ringVars, RingInv, TypeOK, Absent
  <2>3. QED
    BY <1>1, <2>1, <2>2, QuietKeepsRing
<1>5. ASSUME NEW level \in {"error", "warn"}, ConsoleAPICalled(level) PROVE RingInv'
  BY <1>1, <1>5, ConsoleKeepsRing
<1>6. ASSUME NEW h \in Handlers, Anchor(h) \/ ReadRequests(h) \/ ReadErrors(h) \/ Reply(h)
      PROVE  RingInv'
  BY <1>1, <1>6, QuietKeepsRing DEF Anchor, ReadRequests, ReadErrors, Reply, ringVars
<1>7. CASE UNCHANGED vars
  BY <1>1, <1>7, QuietKeepsRing DEF vars, ringVars
<1>8. QED
  BY <1>2, <1>3, <1>4, <1>5, <1>6, <1>7 DEF Next

(* The types, and what is in the ring at any time.                         *)
THEOREM RingInvHolds == Spec => []RingInv
<1>1. Init => RingInv
  BY InitRing
<1>2. RingInv /\ [Next]_vars => RingInv'
  BY StepRing
<1>3. QED
  BY <1>1, <1>2, PTL DEF Spec

(* A status that a reader of the ring sees beside a request is the one the *)
(* browser gave that hop of it, or none (ring.go, ringCorrelate).          *)
THEOREM NoForeignStatusHolds == Spec => []NoForeignStatus
<1>1. RingInv => NoForeignStatus
  BY WindowFacts DEF RingInv, LiveStatus, NoForeignStatus
<1>2. QED
  BY <1>1, RingInvHolds, PTL

-----------------------------------------------------------------------------
(* The refinement: a push enters the request, an answer fills in its       *)
(* latest entry if the pointer is to an entry still in the slice, a        *)
(* console event takes a number, and nothing else is to be seen.           *)

LEMMA PushEnters ==
  ASSUME RingInv, TypeOK', NEW r \in Requests, WillBeSent(r)
  PROVE  Ring!Enter(r)
<1>1. TypeOK /\ Numbered
  BY DEF RingInv
<1>2. PICK d \in 0 .. off : Pushed(r, d)
  BY <1>1, Push DEF WillBeSent
<1> DEFINE e == NewEntry(r)
           all == Append(Window, e)
           n == Len(cells) - off
<1>3. e \in Entries /\ e = [seq |-> eventSeq', req |-> r, status |-> Ring!Pending]
  BY <1>1, <1>2 DEF Pushed, NewEntry, Entries, TypeOK, Pending, Ring!Pending
<1>4. /\ off \in Nat /\ Len(cells) \in Nat /\ off <= Len(cells) /\ d \in Nat /\ d <= off
      /\ n \in Nat /\ n + off = Len(cells) /\ RingCap \in Nat
  BY <1>1, CellFacts, CapAssumption
<1>5. /\ Window \in Seq(Entries) /\ Len(Window) = n
      /\ \A k \in 1 .. n : Window[k] = cells[k + off]
  BY <1>1, WindowFacts
<1>6. /\ Window' \in Seq(Entries) /\ Len(Window') = Len(cells') - off'
      /\ \A k \in 1 .. Len(cells') - off' : Window'[k] = cells'[k + off']
  BY WindowFactsNext
<1> HIDE DEF e
<1>7. /\ all \in Seq(Entries) /\ Len(all) = n + 1 /\ all[n + 1] = e
      /\ \A k \in 1 .. n : all[k] = cells[k + off]
  BY <1>3, <1>4, <1>5, AppendProperties
<1> HIDE DEF all, n
<1>8. /\ Len(cells') = n + off - d + 1
      /\ cells'[n + off - d + 1] = e
      /\ \A k \in off - d + 1 .. n + off - d : cells'[k] = cells[k + d]
      /\ \/ off' = off - d /\ n + 1 <= RingCap
         \/ off' = off - d + 1 /\ n = RingCap
  <2>1. /\ Len(cells') = Len(cells) - d + 1 /\ cells'[Len(cells')] = e
        /\ \A k \in off - d + 1 .. Len(cells) - d : cells'[k] = cells[k + d]
        /\ \/ off' = off - d /\ Len(cells') - off' <= RingCap
           \/ off' = off - d + 1 /\ Len(cells') - off' = RingCap
    BY <1>2 DEF Pushed, e
  <2>2. Len(cells) - d = n + off - d /\ Len(cells) - d + 1 = n + off - d + 1
    BY <1>4
  <2>3. \/ off' = off - d /\ n + 1 <= RingCap
        \/ off' = off - d + 1 /\ n = RingCap
    <3>1. CASE off' = off - d /\ Len(cells') - off' <= RingCap
      BY <1>4, <2>1, <3>1
    <3>2. CASE off' = off - d + 1 /\ Len(cells') - off' = RingCap
      BY <1>4, <2>1, <3>2
    <3>3. QED
      BY <2>1, <3>1, <3>2
  <2>4. QED
    BY <2>1, <2>2, <2>3
<1>9. Window' = LastOf(all, RingCap)
  <2>1. CASE off' = off - d /\ n + 1 <= RingCap
    <3>1. LastOf(all, RingCap) = all
      BY <1>4, <1>7, <2>1 DEF LastOf
    <3>2. Len(Window') = n + 1
      BY <1>4, <1>6, <1>8, <2>1
    <3>3. ASSUME NEW k \in 1 .. n + 1 PROVE Window'[k] = all[k]
      <4>1. Window'[k] = cells'[k + off']
        BY <1>6, <3>2
      <4>2. CASE k = n + 1
        <5>1. k + off' = n + off - d + 1
          BY <1>4, <2>1, <4>2
        <5>2. QED
          BY <1>7, <1>8, <4>1, <4>2, <5>1
      <4>3. CASE k \in 1 .. n
        <5>1. k + off' \in off - d + 1 .. n + off - d /\ (k + off') + d = k + off
          BY <1>4, <2>1, <4>3
        <5>2. QED
          BY <1>7, <1>8, <4>1, <4>3, <5>1
      <4>4. QED
        BY <1>4, <4>2, <4>3
    <3>4. QED
      BY <1>6, <1>7, <3>1, <3>2, <3>3, SeqEqual
  <2>2. CASE off' = off - d + 1 /\ n = RingCap
    <3>1. /\ LastOf(all, RingCap) \in Seq(Entries) /\ Len(LastOf(all, RingCap)) = n
          /\ \A k \in 1 .. n : LastOf(all, RingCap)[k] = all[k + (Len(all) - RingCap)]
      <4>1. Len(all) > RingCap
        BY <1>4, <1>7, <2>2
      <4>2. QED
        BY <1>4, <1>7, <2>2, <4>1, LastOfFacts
    <3>2. Len(Window') = n
      BY <1>4, <1>6, <1>8, <2>2
    <3>3. ASSUME NEW k \in 1 .. n PROVE Window'[k] = LastOf(all, RingCap)[k]
      <4>1. Window'[k] = cells'[k + off'] /\ LastOf(all, RingCap)[k] = all[k + 1]
        <5>1. k + (Len(all) - RingCap) = k + 1
          BY <1>4, <1>7, <2>2
        <5>2. QED
          BY <1>6, <3>1, <3>2, <5>1
      <4>2. CASE k = n
        <5>1. k + off' = n + off - d + 1 /\ k + 1 = n + 1
          BY <1>4, <2>2, <4>2
        <5>2. QED
          BY <1>7, <1>8, <4>1, <5>1
      <4>3. CASE k + 1 \in 1 .. n
        <5>1. k + off' \in off - d + 1 .. n + off - d /\ (k + off') + d = (k + 1) + off
          BY <1>4, <2>2, <4>3
        <5>2. QED
          BY <1>7, <1>8, <4>1, <4>3, <5>1
      <4>4. QED
        BY <1>4, <4>2, <4>3
    <3>4. QED
      BY <1>6, <3>1, <3>2, <3>3, SeqEqual
  <2>3. QED
    BY <1>8, <2>1, <2>2
<1>10. eventSeq' = eventSeq + 1
  BY <1>2 DEF Pushed
<1>11. QED
  BY <1>3, <1>9, <1>10 DEF Ring!Enter, Ring!LastOf, LastOf, all

LEMMA AnswerFillsIn ==
  ASSUME RingInv, TypeOK', NEW r \in Requests, NEW status \in Statuses, ResponseReceived(r, status)
  PROVE  Ring!Answer(r, status) \/ UNCHANGED <<Window, eventSeq>>
<1>1. TypeOK /\ UNCHANGED <<eventSeq, off>>
      /\ cells' = IF inFlight[r] > 0 THEN [cells EXCEPT ![inFlight[r]].status = status] ELSE cells
  BY DEF RingInv, ResponseReceived, RingCorrelate
<1>2. /\ off \in Nat /\ Len(cells) \in Nat /\ off <= Len(cells) /\ DOMAIN cells = 1 .. Len(cells)
      /\ \A k \in 1 .. Len(cells) : cells[k] \in Entries /\ cells[k].seq \in Nat
  BY <1>1, CellFacts
<1>3. /\ Window \in Seq(Entries) /\ Len(Window) = Len(cells) - off
      /\ DOMAIN Window = 1 .. Len(cells) - off
      /\ \A k \in DOMAIN Window : k + off \in Live /\ Window[k] = cells[k + off]
      /\ \A k \in Live : k - off \in DOMAIN Window /\ Window[k - off] = cells[k]
  BY <1>1, WindowFacts
<1>4. /\ Window' \in Seq(Entries) /\ Len(Window') = Len(cells') - off'
      /\ \A k \in 1 .. Len(cells') - off' : Window'[k] = cells'[k + off']
  BY WindowFactsNext
<1>5. Len(cells') = Len(cells) /\ Len(Window') = Len(Window)
      /\ \A k \in 1 .. Len(Window) : Window'[k] = cells'[k + off]
  <2>1. DOMAIN cells' = DOMAIN cells /\ cells' \in Seq(Entries)
    BY <1>1 DEF TypeOK
  <2>2. Len(cells') = Len(cells)
    BY <1>2, <2>1, LenProperties
  <2>3. QED
    BY <1>1, <1>3, <1>4, <2>2
<1>6. CASE inFlight[r] \in Live
  <2> DEFINE p == inFlight[r]
             k0 == p - off
             filled == [Window[k0] EXCEPT !.status = status]
             after == [Window EXCEPT ![k0] = filled]
  <2>1. /\ p \in 1 .. Len(cells) /\ p > 0 /\ k0 \in DOMAIN Window /\ Window[k0] = cells[p]
        /\ k0 \in Int /\ k0 + off = p
    BY <1>2, <1>3, <1>6 DEF Live
  <2>2. /\ cells[p].req = r /\ cells[p].status = Pending
        /\ \A i \in Hops(r) : i <= cells[p].seq
    BY <2>1 DEF RingInv, PointersLatest
  <2>3. ASSUME NEW j \in DOMAIN Window, Window[j].req = r PROVE j <= k0
    <3>1. j + off \in Live /\ cells[j + off].req = r /\ j \in Int
      BY <1>3, <2>3
    <3>2. cells[j + off].seq \in Hops(r)
      BY <3>1 DEF RingInv, LiveLogged, NetAt, Hops
    <3>3. cells[j + off].seq <= cells[p].seq
      BY <2>2, <3>2
    <3>4. ~(p < j + off)
      <4>1. SUFFICES ASSUME p < j + off PROVE FALSE
        OBVIOUS
      <4>2. cells[p].seq < cells[j + off].seq
        BY <1>6, <3>1, <4>1 DEF RingInv, LiveOrdered
      <4>3. cells[p].seq \in Nat /\ cells[j + off].seq \in Nat
        BY <1>2, <2>1, <3>1 DEF Live
      <4>4. QED
        BY <3>3, <4>2, <4>3
    <3>5. QED
      BY <1>2, <2>1, <3>1, <3>4
  <2>4. Ring!IsLatestOf(k0, r) /\ Window[k0].status = Ring!Pending
    BY <2>1, <2>2, <2>3 DEF Ring!IsLatestOf, Pending, Ring!Pending
  <2>5. filled \in Entries /\ filled = [cells[p] EXCEPT !.status = status]
    BY <1>2, <2>1 DEF Entries
  <2>6. \A k \in 1 .. Len(cells) : cells'[k] = IF k = p THEN filled ELSE cells[k]
    BY <1>1, <1>2, <2>1, <2>5
  <2> HIDE DEF filled, p
  <2>7. /\ after \in Seq(Entries) /\ Len(after) = Len(Window)
        /\ \A k \in 1 .. Len(Window) : after[k] = IF k = k0 THEN filled ELSE Window[k]
    BY <1>3, <2>1, <2>5, ExceptSeq
  <2> HIDE DEF after
  <2>8. ASSUME NEW k \in 1 .. Len(Window) PROVE Window'[k] = after[k]
    <3>1. /\ k + off \in 1 .. Len(cells) /\ (k + off = p <=> k = k0)
          /\ Window'[k] = cells'[k + off] /\ Window[k] = cells[k + off]
      <4>1. k \in Int /\ 1 <= k /\ k <= Len(cells) - off /\ k \in DOMAIN Window
        BY <1>2, <1>3
      <4>2. k + off \in 1 .. Len(cells) /\ (k + off = p <=> k = k0)
        BY <1>2, <2>1, <4>1
      <4>3. QED
        BY <1>3, <1>5, <4>1, <4>2
    <3>2. QED
      BY <2>6, <2>7, <3>1
  <2>9. Window' = after
    BY <1>4, <1>5, <2>7, <2>8, SeqEqual
  <2>10. Window' = [Window EXCEPT ![k0].status = status]
    BY <2>9 DEF after, filled
  <2>11. QED
    BY <1>1, <2>1, <2>4, <2>10 DEF Ring!Answer
<1>7. CASE inFlight[r] \notin Live
  <2>1. ASSUME NEW k \in 1 .. Len(Window) PROVE Window'[k] = Window[k]
    <3>1. k + off \in Live /\ k + off \in 1 .. Len(cells) /\ Window[k] = cells[k + off]
      BY <1>2, <1>3 DEF Live
    <3>2. cells'[k + off] = cells[k + off]
      BY <1>1, <1>2, <1>7, <3>1
    <3>3. QED
      BY <1>5, <3>1, <3>2
  <2>2. Window' = Window
    BY <1>3, <1>4, <1>5, <2>1, SeqEqual
  <2>3. QED
    BY <1>1, <2>2
<1>8. QED
  BY <1>6, <1>7

(* The ring with its array and pointers is a window over the latest        *)
(* RingCap requests, each with its own status or none yet (ring.go).       *)
THEOREM ImplementsWindowHolds == Spec => ImplementsWindow
<1>1. Init => Ring!WInit
  <2> SUFFICES ASSUME Init PROVE Window = <<>> /\ eventSeq = 0
    BY DEF Ring!WInit
  <2>1. Window \in Seq(Entries) /\ Len(Window) = 0
    BY InitType, WindowFacts, EmptySeq DEF Init
  <2>2. QED
    BY <2>1, EmptySeq DEF Init
<1>2. RingInv /\ [Next]_vars => [Ring!WNext]_(Ring!windowVars)
  <2> SUFFICES ASSUME RingInv, [Next]_vars
               PROVE  Ring!WNext \/ UNCHANGED <<Window, eventSeq>>
    BY DEF Ring!windowVars
  <2>1. TypeOK'
    BY StepType DEF RingInv
  <2>2. ASSUME NEW r \in Requests, WillBeSent(r) PROVE Ring!WNext
    BY <2>1, <2>2, PushEnters DEF Ring!WNext
  <2>3. ASSUME NEW r \in Requests, NEW status \in Statuses, ResponseReceived(r, status)
        PROVE  Ring!WNext \/ UNCHANGED <<Window, eventSeq>>
    BY <2>1, <2>3, AnswerFillsIn DEF Ring!WNext
  <2>4. ASSUME NEW level \in {"error", "warn"}, ConsoleAPICalled(level) PROVE Ring!WNext
    BY <2>4 DEF ConsoleAPICalled, PushConsoleRing, Window, Ring!Number, Ring!WNext
  <2>5. ASSUME NEW r \in Requests, SentUnseen(r) \/ LoadingFailed(r)
        PROVE  UNCHANGED <<Window, eventSeq>>
    BY <2>5 DEF SentUnseen, LoadingFailed, ringVars, Window
  <2>6. ASSUME NEW h \in Handlers, Anchor(h) \/ ReadRequests(h) \/ ReadErrors(h) \/ Reply(h)
        PROVE  UNCHANGED <<Window, eventSeq>>
    BY <2>6 DEF Anchor, ReadRequests, ReadErrors, Reply, ringVars, Window
  <2>7. CASE UNCHANGED vars
    BY <2>7 DEF vars, ringVars, Window
  <2>8. QED
    BY <2>2, <2>3, <2>4, <2>5, <2>6, <2>7 DEF Next
<1>3. QED
  BY <1>1, <1>2, RingInvHolds, PTL DEF Spec, ImplementsWindow, Ring!WSpec

-----------------------------------------------------------------------------
(* What the handlers report.                                               *)

LEMMA IncreasingCount ==
  ASSUME NEW a \in Int, NEW b \in Int, a <= b + 1, NEW f \in [a .. b -> Int],
         \A j, k \in a .. b : j < k => f[j] < f[k]
  PROVE  /\ IsFiniteSet({f[k] : k \in a .. b})
         /\ Cardinality({f[k] : k \in a .. b}) = b - a + 1
<1> DEFINE S == a .. b
           T == {f[k] : k \in S}
<1>1. IsFiniteSet(S) /\ Cardinality(S) = b - a + 1
  BY FS_Interval
<1>2. \A j, k \in S : f[j] = f[k] => j = k
  OBVIOUS
<1>3. f \in [S -> T] /\ \A t \in T : \E k \in S : f[k] = t
  OBVIOUS
<1> HIDE DEF S, T
<1>4. f \in Injection(S, T) /\ f \in Surjection(S, T)
  BY <1>2, <1>3 DEF Injection, Surjection, IsInjective
<1>5. IsFiniteSet(T) /\ Cardinality(T) = Cardinality(S)
  BY <1>1, <1>4, FS_Surjection
<1>6. QED
  BY <1>1, <1>5 DEF S, T

(* No step forgets an event or makes another of it.                        *)
LEMMA LogKept ==
  ASSUME TypeOK, [Next]_vars
  PROVE  /\ DOMAIN log \subseteq DOMAIN log'
         /\ \A i \in DOMAIN log : log'[i].kind = log[i].kind
<1>1. ASSUME NEW r \in Requests, WillBeSent(r)
      PROVE  DOMAIN log \subseteq DOMAIN log' /\ \A i \in DOMAIN log : log'[i] = log[i]
  BY <1>1, EventIsEvent, LogAppended DEF WillBeSent
<1>2. ASSUME NEW level \in {"error", "warn"}, ConsoleAPICalled(level)
      PROVE  DOMAIN log \subseteq DOMAIN log' /\ \A i \in DOMAIN log : log'[i] = log[i]
  BY <1>2, EventIsEvent, LogAppended DEF ConsoleAPICalled
<1>3. ASSUME NEW r \in Requests, NEW status \in Statuses, ResponseReceived(r, status)
      PROVE  DOMAIN log' = DOMAIN log /\ \A i \in DOMAIN log : log'[i].kind = log[i].kind
  BY <1>3, LogAnswered DEF ResponseReceived
<1>4. ASSUME NEW r \in Requests, SentUnseen(r) \/ LoadingFailed(r) PROVE log' = log
  BY <1>4 DEF SentUnseen, LoadingFailed
<1>5. ASSUME NEW h \in Handlers, Anchor(h) \/ ReadRequests(h) \/ ReadErrors(h) \/ Reply(h)
      PROVE  log' = log
  BY <1>5 DEF Anchor, ReadRequests, ReadErrors, Reply
<1>6. CASE UNCHANGED vars
  BY <1>6 DEF vars
<1>7. QED
  BY <1>1, <1>2, <1>3, <1>4, <1>5, <1>6 DEF Next

(* The report of one handler, and of all.                                  *)
During(h) == {i \in handler[h].anchor + 1 .. handler[h].upto : log[i].kind = "net"}
Told(h) == {e.seq : e \in handler[h].net}
Complete(h) ==
    /\ Told(h) \subseteq During(h)
    /\ \A i \in During(h) \ Told(h) : Cardinality(Told(h)) = RingCap /\ \A j \in Told(h) : i < j

LEMMA CompleteDef ==
  ReportComplete <=> \A h \in Handlers : handler[h].pc \in {"netRead", "reported"} => Complete(h)
BY DEF ReportComplete, Complete, During, Told

(* The numbers between an anchor and a read are logged events.             *)
LEMMA DuringLogged ==
  ASSUME TypeOK, Numbered, NEW h \in Handlers
  PROVE  handler[h].anchor + 1 .. handler[h].upto \subseteq DOMAIN log
<1>1. DOMAIN log = 1 .. Len(log) /\ eventSeq = Len(log) /\ eventSeq \in Nat
  BY LenProperties DEF TypeOK, Numbered
<1>2. handler[h].anchor \in Nat /\ handler[h].upto \in Nat /\ handler[h].upto <= eventSeq
  BY DEF TypeOK, Reports
<1>3. QED
  BY <1>1, <1>2

(* A read of the ring finds every request since the anchor, or RingCap     *)
(* later ones than those it misses.                                        *)
LEMMA ReadIsComplete ==
  ASSUME RingInv, NEW since \in Nat
  PROVE  LET told == {e.seq : e \in NetRequestsSince(since)}
             during == {i \in since + 1 .. eventSeq : log[i].kind = "net"}
         IN  /\ told \subseteq during
             /\ \A i \in during \ told : Cardinality(told) = RingCap /\ \A j \in told : i < j
<1> DEFINE told == {e.seq : e \in NetRequestsSince(since)}
           during == {i \in since + 1 .. eventSeq : log[i].kind = "net"}
<1>1. /\ TypeOK /\ eventSeq = Len(log) /\ eventSeq \in Nat /\ DOMAIN log = 1 .. Len(log)
      /\ off \in Nat /\ Len(cells) \in Nat /\ off <= Len(cells)
  BY CellFacts, LenProperties DEF RingInv, TypeOK, Numbered
<1>2. /\ \A k \in Live : /\ cells[k].seq \in 1 .. eventSeq /\ log[cells[k].seq].kind = "net"
                         /\ cells[k].seq \in Nat
      /\ Live = off + 1 .. Len(cells)
  BY <1>1, CellFacts DEF RingInv, LiveLogged, NetAt, Live
<1>3. told = {cells[k].seq : k \in {l \in Live : cells[l].seq > since}}
  <2>1. NetRequestsSince(since) = {e \in {cells[k] : k \in Live} : e.seq > since}
    <3>1. {Window[k] : k \in DOMAIN Window} = {cells[k] : k \in Live}
      BY <1>1, WindowFacts
    <3>2. QED
      BY <3>1 DEF NetRequestsSince
  <2>2. QED
    BY <2>1
<1>4. told \subseteq during
  <2> SUFFICES ASSUME NEW k \in Live, cells[k].seq > since PROVE cells[k].seq \in during
    BY <1>3
  <2>1. QED
    BY <1>1, <1>2
<1>5. ASSUME NEW i \in during \ told
      PROVE  Cardinality(told) = RingCap /\ \A j \in told : i < j
  <2>1. i \in DOMAIN log /\ NetAt(i) /\ i > since /\ i \in Nat
    BY <1>1, <1>5 DEF NetAt
  <2>2. ~ \E k \in Live : cells[k].seq = i
    BY <1>3, <1>5, <2>1
  <2>3. Len(cells) - off = RingCap /\ \A k \in Live : i < cells[k].seq
    BY <2>1, <2>2 DEF RingInv, LiveComplete
  <2>4. \A k \in Live : cells[k].seq > since
    BY <1>2, <2>1, <2>3
  <2> DEFINE f == [k \in Live |-> cells[k].seq]
  <2> HIDE DEF told
  <2>5. f \in [Live -> Int] /\ told = {f[k] : k \in Live}
    <3>1. f \in [Live -> Int]
      BY <1>2
    <3>2. {l \in Live : cells[l].seq > since} = Live
      BY <2>4
    <3>3. told = {cells[k].seq : k \in Live}
      BY <1>3, <3>2
    <3>4. QED
      BY <3>1, <3>3
  <2>6. \A j, k \in Live : j < k => f[j] < f[k]
    BY DEF RingInv, LiveOrdered
  <2> HIDE DEF f
  <2>7. Cardinality({f[k] : k \in Live}) = Len(cells) - (off + 1) + 1
    <3> DEFINE a == off + 1
               b == Len(cells)
    <3>1. a \in Int /\ b \in Int /\ a <= b + 1 /\ Live = a .. b
      BY <1>1, <1>2
    <3> HIDE DEF a, b
    <3>2. f \in [a .. b -> Int] /\ \A j, k \in a .. b : j < k => f[j] < f[k]
      BY <2>5, <2>6, <3>1
    <3>3. Cardinality({f[k] : k \in a .. b}) = b - a + 1
      BY <3>1, <3>2, IncreasingCount
    <3>4. QED
      BY <3>1, <3>3 DEF a, b
  <2>8. Cardinality(told) = RingCap
    BY <1>1, <2>3, <2>5, <2>7
  <2>9. QED
    BY <1>3, <2>3, <2>8 DEF told
<1>6. QED
  BY <1>4, <1>5

(* A step touches the report of one handler only.                          *)
LEMMA HandlersApart ==
  ASSUME TypeOK, [Next]_vars, NEW h \in Handlers
  PROVE  \/ handler'[h] = handler[h]
         \/ Anchor(h) \/ ReadRequests(h) \/ ReadErrors(h) \/ Reply(h)
<1>1. ASSUME NEW g \in Handlers, g # h, Anchor(g) \/ ReadRequests(g) \/ ReadErrors(g) \/ Reply(g)
      PROVE  handler'[h] = handler[h]
  BY <1>1 DEF Anchor, ReadRequests, ReadErrors, Reply, TypeOK
<1>2. ASSUME NEW r \in Requests,
             \/ WillBeSent(r) \/ SentUnseen(r) \/ LoadingFailed(r)
             \/ \E status \in Statuses : ResponseReceived(r, status)
      PROVE  handler' = handler
  BY <1>2 DEF WillBeSent, SentUnseen, LoadingFailed, ResponseReceived
<1>3. ASSUME NEW level \in {"error", "warn"}, ConsoleAPICalled(level) PROVE handler' = handler
  BY <1>3 DEF ConsoleAPICalled
<1>4. CASE UNCHANGED vars
  BY <1>4 DEF vars
<1>5. QED
  BY <1>1, <1>2, <1>3, <1>4 DEF Next

LEMMA StepReport ==
  ASSUME RingInv, ReportComplete, [Next]_vars
  PROVE  ReportComplete'
<1>1. TypeOK /\ Numbered /\ eventSeq \in Nat
  BY DEF RingInv, TypeOK
(* A report that is not touched says the same of the log that has grown.   *)
<1>2. ASSUME NEW h \in Handlers, Complete(h),
             handler'[h].anchor = handler[h].anchor, handler'[h].upto = handler[h].upto,
             handler'[h].net = handler[h].net
      PROVE  Complete(h)'
  <2>1. \A i \in handler[h].anchor + 1 .. handler[h].upto : log'[i].kind = log[i].kind
    BY <1>1, DuringLogged, LogKept
  <2>2. During(h)' = During(h) /\ Told(h)' = Told(h)
    BY <1>2, <2>1 DEF During, Told
  <2>3. QED
    BY <1>2, <2>2 DEF Complete
<1>3. SUFFICES ASSUME NEW h \in Handlers, handler'[h].pc \in {"netRead", "reported"}
               PROVE  Complete(h)'
  BY DEF ReportComplete, Complete, During, Told
<1>4. CASE handler'[h] = handler[h]
  BY <1>2, <1>3, <1>4, CompleteDef
<1>5. CASE ReadRequests(h)
  <2>1. /\ handler' = [handler EXCEPT ![h] = Report("netRead", handler[h].anchor, eventSeq,
                                                     NetRequestsSince(handler[h].anchor), {})]
        /\ log' = log
    BY <1>5 DEF ReadRequests
  <2>2. /\ handler'[h].anchor = handler[h].anchor /\ handler'[h].upto = eventSeq
        /\ handler'[h].net = NetRequestsSince(handler[h].anchor)
    BY <1>1, <2>1 DEF TypeOK, Report
  <2>3. handler[h].anchor \in Nat
    BY <1>1 DEF TypeOK, Reports
  <2>4. QED
    BY <2>1, <2>2, <2>3, ReadIsComplete DEF Complete, During, Told
<1>6. CASE ReadErrors(h)
  <2>1. /\ handler'[h].anchor = handler[h].anchor /\ handler'[h].upto = handler[h].upto
        /\ handler'[h].net = handler[h].net /\ handler[h].pc = "netRead"
    BY <1>1, <1>6 DEF ReadErrors, Report, TypeOK
  <2>2. Complete(h)
    BY <2>1, CompleteDef
  <2>3. QED
    BY <1>2, <2>1, <2>2
<1>7. CASE Anchor(h) \/ Reply(h)
  BY <1>1, <1>3, <1>7 DEF Anchor, Reply, Report, Fresh, TypeOK
<1>8. \/ handler'[h] = handler[h]
      \/ Anchor(h) \/ ReadRequests(h) \/ ReadErrors(h) \/ Reply(h)
  BY <1>1, HandlersApart
<1>9. QED
  BY <1>4, <1>5, <1>6, <1>7, <1>8

(* The requests that a handler reports with its action are those observed  *)
(* since its anchor; it misses one only when RingCap later ones are told   *)
(* (dialogs.go, collectEvidence; ring.go, networkRequestsSince).           *)
THEOREM ReportCompleteHolds == Spec => []ReportComplete
<1>1. Init => ReportComplete
  BY DEF Init, Fresh, Report, ReportComplete
<1>2. RingInv /\ ReportComplete /\ [Next]_vars => ReportComplete'
  BY StepReport
<1>3. QED
  BY <1>1, <1>2, RingInvHolds, PTL DEF Spec

-----------------------------------------------------------------------------
(* The console ring: the latest errors and warnings, by their numbers.     *)

ConsoleLogged ==
    \A k \in DOMAIN consoleRing : /\ consoleRing[k].seq \in DOMAIN log
                                  /\ log[consoleRing[k].seq].kind = consoleRing[k].level
ConsoleOrdered ==
    \A j, k \in DOMAIN consoleRing : j < k => consoleRing[j].seq < consoleRing[k].seq
ConsoleComplete ==
    \A i \in DOMAIN log : log[i].kind # "net" =>
        \/ \E k \in DOMAIN consoleRing : consoleRing[k].seq = i
        \/ Len(consoleRing) = ConsoleCap /\ \A k \in DOMAIN consoleRing : i < consoleRing[k].seq

ConsoleInv ==
    /\ TypeOK /\ eventSeq = Len(log) /\ Len(consoleRing) <= ConsoleCap
    /\ ConsoleLogged /\ ConsoleOrdered /\ ConsoleComplete

LEMMA ConsoleTypes ==
  ASSUME TypeOK
  PROVE  /\ Len(consoleRing) \in Nat /\ DOMAIN consoleRing = 1 .. Len(consoleRing)
         /\ \A k \in DOMAIN consoleRing : /\ consoleRing[k].seq \in Nat
                                          /\ consoleRing[k].level \in {"error", "warn"}
         /\ Len(log) \in Nat /\ DOMAIN log = 1 .. Len(log)
         /\ ConsoleCap \in Nat /\ ConsoleCap >= 1
<1>1. /\ Len(consoleRing) \in Nat /\ DOMAIN consoleRing = 1 .. Len(consoleRing)
      /\ \A k \in 1 .. Len(consoleRing) : consoleRing[k] \in [seq : Nat, level : {"error", "warn"}]
  BY LenProperties, ElementOfSeq DEF TypeOK
<1>2. Len(log) \in Nat /\ DOMAIN log = 1 .. Len(log)
  BY LenProperties DEF TypeOK
<1>3. ConsoleCap \in Nat /\ ConsoleCap >= 1
  BY CapAssumption
<1>4. QED
  BY <1>1, <1>2, <1>3

(* A console event enters; the ring, if full, moves down by one.           *)
LEMMA ConsolePushed ==
  ASSUME ConsoleInv, NEW level \in {"error", "warn"}, ConsoleAPICalled(level)
  PROVE  LET n == Len(consoleRing)
         IN  \E gone \in {0, 1} :
               /\ DOMAIN consoleRing' = 1 .. n + 1 - gone /\ Len(consoleRing') = n + 1 - gone
               /\ gone = 1 => n = ConsoleCap
               /\ gone = 0 => n < ConsoleCap
               /\ consoleRing'[n + 1 - gone] = [seq |-> eventSeq + 1, level |-> level]
               /\ \A k \in 1 .. n - gone : consoleRing'[k] = consoleRing[k + gone]
<1> DEFINE n == Len(consoleRing)
           e == [seq |-> eventSeq + 1, level |-> level]
           all == Append(consoleRing, e)
           Errors == [seq : Nat, level : {"error", "warn"}]
<1>1. /\ n \in Nat /\ n <= ConsoleCap /\ ConsoleCap \in Nat /\ ConsoleCap >= 1
      /\ consoleRing \in Seq(Errors) /\ eventSeq \in Nat
  BY ConsoleTypes DEF ConsoleInv, TypeOK
<1>2. e \in Errors /\ consoleRing' = LastOf(all, ConsoleCap)
  BY <1>1 DEF ConsoleAPICalled, PushConsoleRing
<1> HIDE DEF e, Errors
<1>3. /\ all \in Seq(Errors) /\ Len(all) = n + 1 /\ all[n + 1] = e
      /\ \A k \in 1 .. n : all[k] = consoleRing[k]
  BY <1>1, <1>2, AppendProperties
<1> HIDE DEF all
<1>4. /\ consoleRing' \in Seq(Errors)
      /\ Len(all) <= ConsoleCap => consoleRing' = all
      /\ Len(all) > ConsoleCap =>
            /\ Len(consoleRing') = ConsoleCap
            /\ \A k \in 1 .. ConsoleCap : consoleRing'[k] = all[k + (Len(all) - ConsoleCap)]
  BY <1>1, <1>2, <1>3, LastOfFacts
<1>5. DOMAIN consoleRing' = 1 .. Len(consoleRing')
  BY <1>4, LenProperties
<1> HIDE DEF n
<1>6. CASE n < ConsoleCap
  <2>1. consoleRing' = all /\ n + 1 - 0 = n + 1 /\ n - 0 = n
    BY <1>1, <1>3, <1>4, <1>6
  <2>2. \A k \in 1 .. n - 0 : consoleRing'[k] = consoleRing[k + 0]
    <3>1. \A k \in 1 .. n - 0 : k \in 1 .. n /\ k + 0 = k
      BY <1>1
    <3>2. QED
      BY <1>3, <2>1, <3>1
  <2>3. /\ DOMAIN consoleRing' = 1 .. n + 1 - 0 /\ Len(consoleRing') = n + 1 - 0
        /\ consoleRing'[n + 1 - 0] = e
    BY <1>3, <1>5, <2>1
  <2>4. QED
    BY <1>6, <2>2, <2>3 DEF n, e
<1>7. CASE n = ConsoleCap
  <2>1. /\ Len(consoleRing') = n /\ n + 1 - 1 = n
        /\ \A k \in 1 .. n : consoleRing'[k] = all[k + (Len(all) - ConsoleCap)]
    BY <1>1, <1>3, <1>4, <1>7
  <2>2. \A k \in 1 .. n : k + (Len(all) - ConsoleCap) = k + 1
    BY <1>1, <1>3, <1>7
  <2>3. n \in 1 .. n /\ consoleRing'[n] = e
    BY <1>1, <1>3, <1>7, <2>1, <2>2
  <2>4. \A k \in 1 .. n - 1 : consoleRing'[k] = consoleRing[k + 1]
    <3>1. \A k \in 1 .. n - 1 : k \in 1 .. n /\ k + 1 \in 1 .. n
      BY <1>1
    <3>2. QED
      BY <1>3, <2>1, <2>2, <3>1
  <2>5. QED
    BY <1>5, <1>7, <2>1, <2>3, <2>4 DEF n, e
<1>8. QED
  BY <1>1, <1>6, <1>7

LEMMA PushKeepsConsole ==
  ASSUME ConsoleInv, TypeOK', NEW level \in {"error", "warn"}, ConsoleAPICalled(level)
  PROVE  ConsoleInv'
<1> DEFINE n == Len(consoleRing)
<1>1. /\ n \in Nat /\ n <= ConsoleCap /\ ConsoleCap \in Nat /\ DOMAIN consoleRing = 1 .. n
      /\ Len(log) \in Nat /\ DOMAIN log = 1 .. Len(log) /\ eventSeq = Len(log)
      /\ \A k \in 1 .. n : consoleRing[k].seq \in 1 .. Len(log)
  BY ConsoleTypes DEF ConsoleInv, ConsoleLogged
<1>2. PICK gone \in {0, 1} :
         /\ DOMAIN consoleRing' = 1 .. n + 1 - gone /\ Len(consoleRing') = n + 1 - gone
         /\ gone = 1 => n = ConsoleCap
         /\ gone = 0 => n < ConsoleCap
         /\ consoleRing'[n + 1 - gone] = [seq |-> Len(log) + 1, level |-> level]
         /\ \A k \in 1 .. n - gone : consoleRing'[k] = consoleRing[k + gone]
  BY <1>1, ConsolePushed
<1>3. /\ Len(log') = Len(log) + 1 /\ DOMAIN log' = 1 .. Len(log) + 1
      /\ \A i \in 1 .. Len(log) : log'[i] = log[i]
      /\ log'[Len(log) + 1] = [kind |-> level]
      /\ eventSeq' = eventSeq + 1
  BY <1>1, EventIsEvent, LogAppended DEF ConsoleInv, ConsoleAPICalled, PushConsoleRing
<1> DEFINE last == n + 1 - gone
<1>4. /\ last \in Nat /\ last \in 1 .. last /\ last <= ConsoleCap
      /\ \A k \in 1 .. last : k # last => k \in 1 .. n - gone /\ k + gone \in 1 .. n
  <2>1. n \in Nat /\ n <= ConsoleCap /\ ConsoleCap \in Nat /\ ConsoleCap >= 1
    BY <1>1, ConsoleTypes DEF ConsoleInv
  <2> HIDE DEF n
  <2>2. CASE gone = 0
    BY <1>2, <2>1, <2>2 DEF n
  <2>3. CASE gone = 1
    BY <1>2, <2>1, <2>3 DEF n
  <2>4. QED
    BY <2>2, <2>3
<1>5. /\ DOMAIN consoleRing' = 1 .. last /\ Len(consoleRing') = last
      /\ consoleRing'[last] = [seq |-> Len(log) + 1, level |-> level]
      /\ \A k \in 1 .. last : k # last => /\ consoleRing'[k] = consoleRing[k + gone]
                                          /\ consoleRing'[k].seq \in 1 .. Len(log)
  BY <1>1, <1>2, <1>4
<1> HIDE DEF last, n
<1>6. ConsoleLogged'
  <2> SUFFICES ASSUME NEW k \in 1 .. last
               PROVE  /\ consoleRing'[k].seq \in 1 .. Len(log) + 1
                      /\ log'[consoleRing'[k].seq].kind = consoleRing'[k].level
    BY <1>3, <1>5 DEF ConsoleLogged
  <2>1. CASE k = last
    BY <1>1, <1>3, <1>5, <2>1
  <2>2. CASE k # last
    <3>1. /\ k + gone \in DOMAIN consoleRing /\ consoleRing'[k] = consoleRing[k + gone]
          /\ consoleRing'[k].seq \in 1 .. Len(log)
      BY <1>1, <1>4, <1>5, <2>2
    <3>2. log[consoleRing[k + gone].seq].kind = consoleRing[k + gone].level
      BY <3>1 DEF ConsoleInv, ConsoleLogged
    <3>3. QED
      BY <1>1, <1>3, <3>1, <3>2
  <2>3. QED
    BY <2>1, <2>2
<1>7. ConsoleOrdered'
  <2> SUFFICES ASSUME NEW j \in 1 .. last, NEW k \in 1 .. last, j < k
               PROVE  consoleRing'[j].seq < consoleRing'[k].seq
    BY <1>5 DEF ConsoleOrdered
  <2>1. j # last
    BY <1>4
  <2>2. CASE k = last
    BY <1>1, <1>5, <2>1, <2>2
  <2>3. CASE k # last
    <3>1. /\ j + gone \in DOMAIN consoleRing /\ k + gone \in DOMAIN consoleRing /\ j + gone < k + gone
      BY <1>1, <1>2, <1>4, <2>1, <2>3
    <3>2. QED
      BY <1>5, <2>1, <2>3, <3>1 DEF ConsoleInv, ConsoleOrdered
  <2>4. QED
    BY <2>2, <2>3
<1>8. ConsoleComplete'
  <2> SUFFICES ASSUME NEW i \in 1 .. Len(log) + 1, log'[i].kind # "net"
               PROVE  \/ \E k \in 1 .. last : consoleRing'[k].seq = i
                      \/ last = ConsoleCap /\ \A k \in 1 .. last : i < consoleRing'[k].seq
    BY <1>3, <1>5 DEF ConsoleComplete
  <2>1. CASE i = Len(log) + 1
    BY <1>4, <1>5, <2>1
  <2>2. CASE i \in 1 .. Len(log)
    <3>1. \/ \E k \in 1 .. n : consoleRing[k].seq = i
          \/ n = ConsoleCap /\ \A k \in 1 .. n : i < consoleRing[k].seq
      BY <1>1, <1>3, <2>2 DEF ConsoleInv, ConsoleComplete, n
    <3>2. CASE \E k \in 1 .. n : consoleRing[k].seq = i
      <4>1. PICK k \in 1 .. n : consoleRing[k].seq = i
        BY <3>2
      <4>2. CASE k > gone
        <5>1. /\ k - gone \in 1 .. n - gone /\ (k - gone) + gone = k
              /\ k - gone \in 1 .. last
          BY <1>1, <4>1, <4>2 DEF last
        <5>2. consoleRing'[k - gone] = consoleRing[k]
          BY <1>2, <5>1 DEF n
        <5>3. QED
          BY <4>1, <5>1, <5>2
      <4>3. CASE ~(k > gone)
        <5>1. gone = 1 /\ k = 1 /\ n = ConsoleCap /\ last = ConsoleCap
          <6>1. k \in Int /\ k >= 1 /\ n \in Int
            BY <1>1, <4>1 DEF n
          <6>2. gone = 1
            BY <4>3, <6>1
          <6>3. n = ConsoleCap
            BY <1>2, <6>2 DEF n
          <6>4. QED
            BY <4>3, <6>1, <6>2, <6>3 DEF last
        <5>2. ASSUME NEW j \in 1 .. last, j # last PROVE i < consoleRing'[j].seq
          <6>1. /\ j + gone \in DOMAIN consoleRing /\ k \in DOMAIN consoleRing /\ k < j + gone
                /\ consoleRing'[j] = consoleRing[j + gone]
            BY <1>1, <1>4, <1>5, <4>1, <5>1, <5>2
          <6>2. QED
            BY <4>1, <6>1 DEF ConsoleInv, ConsoleOrdered
        <5>3. i < consoleRing'[last].seq
          BY <1>1, <1>5, <2>2
        <5>4. QED
          BY <5>1, <5>2, <5>3
      <4>4. QED
        BY <4>2, <4>3
    <3>3. CASE n = ConsoleCap /\ \A k \in 1 .. n : i < consoleRing[k].seq
      <4>1. last = ConsoleCap
        BY <1>1, <1>2, <3>3 DEF n, last
      <4>2. ASSUME NEW j \in 1 .. last, j # last PROVE i < consoleRing'[j].seq
        BY <1>4, <1>5, <3>3, <4>2
      <4>3. i < consoleRing'[last].seq
        BY <1>1, <1>5, <2>2
      <4>4. QED
        BY <4>1, <4>2, <4>3
    <3>4. QED
      BY <3>1, <3>2, <3>3
  <2>3. QED
    BY <1>1, <2>1, <2>2
<1>9. eventSeq' = Len(log') /\ Len(consoleRing') <= ConsoleCap
  BY <1>1, <1>3, <1>4, <1>5
<1>10. QED
  BY <1>6, <1>7, <1>8, <1>9 DEF ConsoleInv

(* Every other step leaves the console ring and the kinds of events alone. *)
LEMMA StepConsole ==
  ASSUME RingInv, ConsoleInv, [Next]_vars
  PROVE  ConsoleInv'
<1>1. TypeOK' /\ eventSeq' = Len(log')
  BY StepRing DEF RingInv, Numbered
<1>2. ASSUME NEW level \in {"error", "warn"}, ConsoleAPICalled(level) PROVE ConsoleInv'
  BY <1>1, <1>2, PushKeepsConsole
<1>3. ASSUME NEW r \in Requests, WillBeSent(r) PROVE ConsoleInv'
  <2>1. /\ consoleRing' = consoleRing
        /\ DOMAIN log = 1 .. Len(log) /\ DOMAIN log' = 1 .. Len(log) + 1 /\ Len(log) \in Nat
        /\ \A i \in DOMAIN log : i \in DOMAIN log' /\ log'[i] = log[i]
        /\ log'[Len(log) + 1].kind = "net"
    BY <1>3, EventIsEvent, LogAppended DEF WillBeSent, ConsoleInv
  <2>2. ConsoleLogged' /\ ConsoleOrdered' /\ ConsoleComplete'
    BY <2>1 DEF ConsoleInv, ConsoleLogged, ConsoleOrdered, ConsoleComplete
  <2>3. QED
    BY <1>1, <2>1, <2>2 DEF ConsoleInv
<1>4. ASSUME consoleRing' = consoleRing, DOMAIN log' = DOMAIN log,
             \A i \in DOMAIN log : log'[i].kind = log[i].kind
      PROVE  ConsoleInv'
  <2>1. ConsoleLogged' /\ ConsoleOrdered' /\ ConsoleComplete'
    BY <1>4 DEF ConsoleInv, ConsoleLogged, ConsoleOrdered, ConsoleComplete
  <2>2. QED
    BY <1>1, <1>4, <2>1 DEF ConsoleInv
<1>5. ASSUME NEW r \in Requests, NEW status \in Statuses, ResponseReceived(r, status)
      PROVE  ConsoleInv'
  BY <1>4, <1>5, LogAnswered DEF ResponseReceived, ConsoleInv
<1>6. ASSUME NEW r \in Requests, SentUnseen(r) \/ LoadingFailed(r) PROVE ConsoleInv'
  BY <1>4, <1>6 DEF SentUnseen, LoadingFailed
<1>7. ASSUME NEW h \in Handlers, Anchor(h) \/ ReadRequests(h) \/ ReadErrors(h) \/ Reply(h)
      PROVE  ConsoleInv'
  BY <1>4, <1>7 DEF Anchor, ReadRequests, ReadErrors, Reply
<1>8. CASE UNCHANGED vars
  BY <1>4, <1>8 DEF vars
<1>9. QED
  BY <1>2, <1>3, <1>5, <1>6, <1>7, <1>8 DEF Next

(* The errors of one handler's report.                                     *)
ErrorsAfter(h) ==
    \A i \in handler[h].errors :
        i \in DOMAIN log /\ i > handler[h].anchor /\ log[i].kind = "error"
LaterConsole(i) == {j \in DOMAIN log : j > i /\ log[j].kind # "net"}
ErrorsMissed(h) ==
    \A i \in handler[h].anchor + 1 .. handler[h].upto :
        log[i].kind = "error" /\ i \notin handler[h].errors
            => Cardinality(LaterConsole(i)) >= ConsoleCap

ErrorsInv ==
    \A h \in Handlers : handler[h].pc = "reported" => ErrorsAfter(h) /\ ErrorsMissed(h)

(* A read of the ring finds every error since the anchor, or the ring is   *)
(* full of later console events.                                           *)
LEMMA ErrorsFound ==
  ASSUME ConsoleInv, NEW since \in Nat
  PROVE  LET found == {e.seq : e \in ConsoleErrorsSince(since)}
         IN  /\ \A i \in found : i \in DOMAIN log /\ i > since /\ log[i].kind = "error"
             /\ \A i \in DOMAIN log : log[i].kind = "error" /\ i > since /\ i \notin found
                    => Cardinality(LaterConsole(i)) >= ConsoleCap
<1> DEFINE found == {e.seq : e \in ConsoleErrorsSince(since)}
           n == Len(consoleRing)
<1>1. /\ n \in Nat /\ DOMAIN consoleRing = 1 .. n
      /\ Len(log) \in Nat /\ DOMAIN log = 1 .. Len(log)
      /\ \A k \in 1 .. n : /\ consoleRing[k].seq \in DOMAIN log /\ consoleRing[k].seq \in Int
                           /\ log[consoleRing[k].seq].kind = consoleRing[k].level
  BY ConsoleTypes DEF ConsoleInv, ConsoleLogged
<1>2. \A i : i \in found <=> \E k \in 1 .. n : /\ consoleRing[k].seq = i /\ i > since
                                                 /\ consoleRing[k].level = "error"
  BY <1>1 DEF ConsoleErrorsSince
<1> HIDE DEF found, n
<1>3. ASSUME NEW i \in found
      PROVE  i \in DOMAIN log /\ i > since /\ log[i].kind = "error"
  BY <1>1, <1>2
<1>4. ASSUME NEW i \in DOMAIN log, log[i].kind = "error", i > since, i \notin found
      PROVE  Cardinality(LaterConsole(i)) >= ConsoleCap
  <2>1. ~ \E k \in 1 .. n : consoleRing[k].seq = i
    <3>1. \A k \in 1 .. n : consoleRing[k].seq = i => consoleRing[k].level = "error"
      BY <1>1, <1>4
    <3>2. QED
      BY <1>2, <1>4, <3>1
  <2>2. n = ConsoleCap /\ \A k \in 1 .. n : i < consoleRing[k].seq
    BY <1>1, <1>4, <2>1 DEF ConsoleInv, ConsoleComplete, n
  <2> DEFINE f == [k \in 1 .. n |-> consoleRing[k].seq]
             T == {f[k] : k \in 1 .. n}
  <2>3. f \in [1 .. n -> Int] /\ \A j, k \in 1 .. n : j < k => f[j] < f[k]
    BY <1>1 DEF ConsoleInv, ConsoleOrdered
  <2>4. T \subseteq LaterConsole(i)
    <3> SUFFICES ASSUME NEW k \in 1 .. n PROVE f[k] \in LaterConsole(i)
      OBVIOUS
    <3>1. consoleRing[k].level \in {"error", "warn"}
      BY <1>1, ConsoleTypes DEF ConsoleInv
    <3>2. QED
      BY <1>1, <2>2, <3>1 DEF LaterConsole
  <2> HIDE DEF f
  <2>5. Cardinality(T) = n - 1 + 1
    <3>1. 1 \in Int /\ n \in Int /\ 1 <= n + 1
      BY <1>1
    <3>2. QED
      BY <2>3, <3>1, IncreasingCount, Zenon
  <2>6. IsFiniteSet(LaterConsole(i)) /\ Cardinality(LaterConsole(i)) \in Nat
    <3>1. IsFiniteSet(1 .. Len(log)) /\ LaterConsole(i) \subseteq 1 .. Len(log)
      BY <1>1, FS_Interval DEF LaterConsole
    <3>2. IsFiniteSet(LaterConsole(i))
      BY <3>1, FS_Subset
    <3>3. QED
      BY <3>2, FS_CardinalityType
  <2> HIDE DEF T
  <2>7. Cardinality(T) <= Cardinality(LaterConsole(i))
    BY <2>4, <2>6, FS_Subset
  <2>8. QED
    BY <1>1, <2>2, <2>5, <2>6, <2>7
<1>5. QED
  BY <1>3, <1>4 DEF found

(* More console events may follow a missing error, never fewer.            *)
LEMMA LaterConsoleGrows ==
  ASSUME TypeOK, TypeOK', [Next]_vars, NEW i
  PROVE  /\ Cardinality(LaterConsole(i)) \in Nat /\ Cardinality(LaterConsole(i)') \in Nat
         /\ Cardinality(LaterConsole(i)) <= Cardinality(LaterConsole(i)')
<1>1. DOMAIN log' = 1 .. Len(log') /\ Len(log') \in Nat
  BY LenProperties DEF TypeOK
<1>2. LaterConsole(i) \subseteq LaterConsole(i)'
  BY LogKept DEF LaterConsole
<1>3. LaterConsole(i)' \subseteq 1 .. Len(log')
  BY <1>1 DEF LaterConsole
<1>4. IsFiniteSet(LaterConsole(i)')
  <2>1. IsFiniteSet(1 .. Len(log'))
    BY <1>1, FS_Interval
  <2>2. QED
    BY <1>3, <2>1, FS_Subset, Zenon
<1>5. IsFiniteSet(LaterConsole(i)) /\ Cardinality(LaterConsole(i)) <= Cardinality(LaterConsole(i)')
  BY <1>2, <1>4, FS_Subset
<1>6. QED
  BY <1>4, <1>5, FS_CardinalityType

LEMMA StepErrors ==
  ASSUME RingInv, ConsoleInv, ErrorsInv, [Next]_vars
  PROVE  ErrorsInv'
<1>1. TypeOK /\ Numbered /\ eventSeq \in Nat /\ TypeOK'
  BY StepType DEF RingInv, TypeOK
<1>2. ConsoleCap \in Nat
  BY CapAssumption
<1>3. SUFFICES ASSUME NEW h \in Handlers, handler'[h].pc = "reported"
               PROVE  ErrorsAfter(h)' /\ ErrorsMissed(h)'
  BY DEF ErrorsInv
<1>4. handler[h].anchor \in Nat /\ handler[h].upto \in Nat
  BY <1>1 DEF TypeOK, Reports
<1>5. CASE handler'[h] = handler[h]
  <2>1. ErrorsAfter(h) /\ ErrorsMissed(h)
    BY <1>3, <1>5 DEF ErrorsInv
  <2>2. ErrorsAfter(h)'
    BY <1>1, <1>5, <2>1, LogKept DEF ErrorsAfter
  <2>3. ErrorsMissed(h)'
    <3> SUFFICES ASSUME NEW i \in handler[h].anchor + 1 .. handler[h].upto,
                        log'[i].kind = "error", i \notin handler[h].errors
                 PROVE  Cardinality(LaterConsole(i)') >= ConsoleCap
      BY <1>5 DEF ErrorsMissed
    <3>1. log[i].kind = "error"
      BY <1>1, DuringLogged, LogKept
    <3>2. Cardinality(LaterConsole(i)) >= ConsoleCap
      BY <2>1, <3>1 DEF ErrorsMissed
    <3>3. QED
      BY <1>1, <1>2, <3>2, LaterConsoleGrows
  <2>4. QED
    BY <2>2, <2>3
<1>6. CASE ReadErrors(h)
  <2>1. /\ handler'[h].anchor = handler[h].anchor /\ handler'[h].upto = handler[h].upto
        /\ handler'[h].errors = {e.seq : e \in ConsoleErrorsSince(handler[h].anchor)}
        /\ log' = log
    BY <1>1, <1>6 DEF ReadErrors, Report, TypeOK
  <2>2. ErrorsAfter(h)'
    BY <1>4, <2>1, ErrorsFound DEF ErrorsAfter
  <2>3. ErrorsMissed(h)'
    <3> SUFFICES ASSUME NEW i \in handler[h].anchor + 1 .. handler[h].upto,
                        log[i].kind = "error", i \notin handler'[h].errors
                 PROVE  Cardinality(LaterConsole(i)') >= ConsoleCap
      BY <2>1 DEF ErrorsMissed
    <3>1. i \in DOMAIN log /\ i > handler[h].anchor
      BY <1>1, <1>4, DuringLogged
    <3>2. LaterConsole(i)' = LaterConsole(i)
      BY <2>1 DEF LaterConsole
    <3>3. QED
      BY <1>4, <2>1, <3>1, <3>2, ErrorsFound
  <2>4. QED
    BY <2>2, <2>3
<1>7. CASE Anchor(h) \/ ReadRequests(h) \/ Reply(h)
  BY <1>1, <1>3, <1>7 DEF Anchor, ReadRequests, Reply, Report, Fresh, TypeOK
<1>8. \/ handler'[h] = handler[h]
      \/ Anchor(h) \/ ReadRequests(h) \/ ReadErrors(h) \/ Reply(h)
  BY <1>1, HandlersApart
<1>9. QED
  BY <1>5, <1>6, <1>7, <1>8

(* The errors that a handler reports were logged after its anchor; it      *)
(* misses one only when ConsoleCap console events came after it            *)
(* (ring.go, pushConsoleRing and consoleErrorsSince).                      *)
THEOREM ErrorsReportedHolds == Spec => []ErrorsReported
<1>1. Init => ConsoleInv /\ ErrorsInv
  <2> SUFFICES ASSUME Init PROVE ConsoleInv /\ ErrorsInv
    OBVIOUS
  <2>1. TypeOK
    BY InitType
  <2>2. /\ eventSeq = Len(log) /\ Len(consoleRing) = 0 /\ DOMAIN consoleRing = {} /\ DOMAIN log = {}
    BY EmptySeq DEF Init
  <2>3. ConsoleInv
    BY <2>1, <2>2, ConsoleTypes
       DEF ConsoleInv, ConsoleLogged, ConsoleOrdered, ConsoleComplete
  <2>4. ErrorsInv
    BY DEF Init, Fresh, Report, ErrorsInv
  <2>5. QED
    BY <2>3, <2>4
<1>2. RingInv /\ ConsoleInv /\ ErrorsInv /\ [Next]_vars => (ConsoleInv /\ ErrorsInv)'
  BY StepConsole, StepErrors
<1>3. ErrorsInv => ErrorsReported
  BY DEF ErrorsInv, ErrorsAfter, ErrorsMissed, LaterConsole, ErrorsReported
<1>4. QED
  BY <1>1, <1>2, <1>3, RingInvHolds, PTL DEF Spec

=============================================================================
