------------------------ MODULE NetworkCaptureProofs ------------------------
(* Proofs about NetworkCapture, for any requests, any handlers and any     *)
(* number of entries and sessions.                                         *)
EXTENDS NetworkCapture, FiniteSetTheorems, SequenceTheorems, TLAPS

Entry == [session : 1 .. MaxSessions, response : BOOLEAN, finished : BOOLEAN, body : BOOLEAN]
Fetches == {"none", "calling", "failed", "written", "resetting", "done"}

(* A body that a stop has to wait for.                                     *)
Pending == {i \in Ids : fetch[i] \in {"calling", "written", "failed"}}

(* TypeOK with the heap as sequences, and a running session has begun.     *)
Shape ==
    /\ TypeOK
    /\ fetch \in Seq(Fetches) /\ Len(fetch) = Len(entries)
    /\ capturing => session >= 1

(* An entry in flight is the session's, in no other request's place, and   *)
(* its body has not been asked for.                                        *)
InFlightOwned ==
    \A r \in Requests : inFlight[r] # NoEntry =>
        /\ In(inFlight[r], captured)
        /\ fetch[inFlight[r]] = "none"
        /\ entries[inFlight[r]].session = session
        /\ \A q \in Requests \ {r} : inFlight[q] # inFlight[r]

(* The wait group counts the goroutines that have not called Done.         *)
Counted ==
    /\ count = Cardinality(Pending)
    /\ resetting # NoEntry => fetch[resetting] = "resetting"

IInv == Shape /\ InFlightOwned /\ TakenOnce /\ Counted /\ ResultComplete

-----------------------------------------------------------------------------

LEMMA ShapeFacts ==
  ASSUME Shape
  PROVE  /\ Len(entries) \in Nat /\ DOMAIN entries = Ids /\ entries \in [Ids -> Entry]
         /\ entries \in Seq(Entry) /\ fetch \in Seq(Fetches) /\ fetch \in [Ids -> Fetches]
         /\ captured \in Seq(Ids) /\ DOMAIN captured = 1 .. Len(captured)
         /\ inFlight \in [Requests -> {NoEntry} \cup Ids] /\ NoEntry \notin Ids
<1>1. entries \in Seq(Entry)
  BY DEF Shape, TypeOK, Entry
<1>2. QED
  BY <1>1, LenProperties DEF Shape, TypeOK, Ids, NoEntry, Fetches

LEMMA AppendIn ==
  ASSUME NEW S, NEW s \in Seq(S), NEW x \in S, NEW i
  PROVE  In(i, Append(s, x)) <=> In(i, s) \/ i = x
<1>1. /\ DOMAIN s = 1 .. Len(s) /\ Len(s) \in Nat
      /\ DOMAIN Append(s, x) = 1 .. Len(s) + 1
      /\ \A k \in 1 .. Len(s) : Append(s, x)[k] = s[k]
      /\ Append(s, x)[Len(s) + 1] = x
  OBVIOUS
<1>2. QED
  BY <1>1 DEF In

LEMMA EntryFields ==
  ASSUME NEW e \in Entry
  PROVE  /\ [e EXCEPT !.response = TRUE] \in Entry
         /\ [e EXCEPT !.finished = TRUE] \in Entry
         /\ [e EXCEPT !.body = TRUE] \in Entry
BY DEF Entry

(* The ids of a longer heap hold those of the shorter one.                 *)
LEMMA IdsGrow ==
  ASSUME Shape, Len(entries') = Len(entries) + 1
  PROVE  Ids' = Ids \cup {Len(entries')} /\ Len(entries') \notin Ids
BY ShapeFacts DEF Ids

(* What a request that is captured adds.                                   *)
LEMMA NewEntryShape ==
  ASSUME Shape, NEW r \in Requests, capturing,
         entries' = Append(entries, NewCapture),
         fetch' = Append(fetch, "none"),
         captured' = Append(captured, Len(entries')),
         inFlight' = [inFlight EXCEPT ![r] = Len(entries')]
  PROVE  /\ Len(entries') = Len(entries) + 1
         /\ entries' \in Seq(Entry) /\ fetch' \in Seq(Fetches) /\ Len(fetch') = Len(entries')
         /\ captured' \in Seq(Ids') /\ inFlight' \in [Requests -> {NoEntry} \cup Ids']
         /\ \A i \in Ids : entries'[i] = entries[i] /\ fetch'[i] = fetch[i]
         /\ entries'[Len(entries')] = NewCapture /\ fetch'[Len(entries')] = "none"
<1>1. NewCapture \in Entry
  BY DEF NewCapture, Entry, Shape, TypeOK
<1>2. /\ entries' \in Seq(Entry) /\ Len(entries') = Len(entries) + 1
      /\ \A i \in Ids : entries'[i] = entries[i]
      /\ entries'[Len(entries')] = NewCapture
  BY <1>1, ShapeFacts DEF Ids
<1>3. /\ fetch' \in Seq(Fetches) /\ Len(fetch') = Len(entries')
      /\ \A i \in Ids : fetch'[i] = fetch[i]
      /\ fetch'[Len(entries')] = "none"
  BY <1>2, ShapeFacts DEF Ids, Shape, Fetches
<1>4. Ids' = Ids \cup {Len(entries')}
  BY <1>2, IdsGrow
<1>5. captured' \in Seq(Ids')
  <2>1. captured \in Seq(Ids')
    BY <1>4, ShapeFacts, SeqMonotonic
  <2>2. QED
    BY <2>1, <1>4
<1>6. inFlight' \in [Requests -> {NoEntry} \cup Ids']
  BY <1>4, ShapeFacts
<1>7. QED
  BY <1>2, <1>3, <1>5, <1>6

(* What a step that rewrites one entry keeps.                              *)
LEMMA UpdatedEntryShape ==
  ASSUME Shape, NEW i \in Ids, NEW e \in Entry, entries' = [entries EXCEPT ![i] = e]
  PROVE  /\ entries' \in Seq(Entry) /\ Len(entries') = Len(entries) /\ Ids' = Ids
         /\ \A j \in Ids : entries'[j] = IF j = i THEN e ELSE entries[j]
BY ShapeFacts, ExceptSeq DEF Ids

LEMMA UpdatedFetchShape ==
  ASSUME Shape, NEW i \in Ids, NEW f \in Fetches, fetch' = [fetch EXCEPT ![i] = f]
  PROVE  /\ fetch' \in Seq(Fetches) /\ Len(fetch') = Len(fetch)
         /\ \A j \in Ids : fetch'[j] = IF j = i THEN f ELSE fetch[j]
BY ShapeFacts, ExceptSeq DEF Ids, Shape

-----------------------------------------------------------------------------
(* The shape of the state.                                                 *)

LEMMA InitIInv == Init => IInv
<1> SUFFICES ASSUME Init PROVE IInv
  OBVIOUS
<1>1. Ids = {}
  BY DEF Init, Ids
<1>2. Shape
  <2>1. /\ captured \in Seq(Ids) /\ fetch \in Seq(Fetches) /\ Len(fetch) = Len(entries)
        /\ \A S : entries \in Seq(S)
    BY DEF Init
  <2>2. fetch \in [Ids -> Fetches]
    BY <2>1, LenProperties DEF Init, Ids
  <2>3. result \in [Handlers -> Seq(Ids)]
    BY DEF Init
  <2>4. /\ inFlight \in [Requests -> {NoEntry} \cup Ids]
        /\ phase \in [Requests -> {"new", "sent", "answered", "over"}]
        /\ pc \in [Handlers -> {"idle", "drain", "waiting", "woken", "format", "panicked"}]
    BY DEF Init
  <2>5. /\ session \in 0 .. MaxSessions /\ count \in Nat /\ resetting \in {NoEntry}
        /\ capturing = FALSE /\ bodies = FALSE /\ crashed = FALSE
    BY CaptureBounds DEF Init
  <2>6. QED
    BY <2>1, <2>2, <2>3, <2>4, <2>5 DEF Shape, TypeOK, Fetches
<1>3. InFlightOwned
  BY DEF Init, InFlightOwned
<1>4. Counted
  BY <1>1, FS_EmptySet DEF Init, Counted, Pending
<1>5. TakenOnce /\ ResultComplete
  BY <1>1 DEF Init, TakenOnce, ResultComplete, Serialising
<1>6. QED
  BY <1>2, <1>3, <1>4, <1>5 DEF IInv

LEMMA PendingFinite ==
  ASSUME Shape
  PROVE  IsFiniteSet(Pending) /\ IsFiniteSet(Ids)
<1>1. IsFiniteSet(Ids)
  BY ShapeFacts, FS_Interval DEF Ids
<1>2. QED
  BY <1>1, FS_Subset DEF Pending

LEMMA StepShape ==
  ASSUME Shape, InFlightOwned, Counted, [Next]_vars
  PROVE  Shape'
<1> USE ShapeFacts
<1>1. ASSUME NEW r \in Requests, WillBeSent(r) PROVE Shape'
  <2>1. CASE UNCHANGED <<entries, fetch, captured, inFlight>>
    BY <1>1, <2>1 DEF WillBeSent, Shape, TypeOK, Ids, wgVars, handlerVars
  <2>2. CASE /\ capturing /\ Len(entries) < MaxEntries
             /\ entries' = Append(entries, NewCapture)
             /\ fetch' = Append(fetch, "none")
             /\ captured' = Append(captured, Len(entries'))
             /\ inFlight' = [inFlight EXCEPT ![r] = Len(entries')]
    <3>1. /\ Len(entries') = Len(entries) + 1 /\ Ids' = Ids \cup {Len(entries')}
          /\ entries' \in Seq(Entry) /\ fetch' \in Seq(Fetches) /\ Len(fetch') = Len(entries')
          /\ captured' \in Seq(Ids') /\ inFlight' \in [Requests -> {NoEntry} \cup Ids']
      BY <2>2, NewEntryShape, IdsGrow
    <3>2. fetch' \in [Ids' -> Fetches]
      BY <3>1, LenProperties DEF Ids
    <3>3. result' \in [Handlers -> Seq(Ids')]
      <4>1. \A h \in Handlers : result[h] \in Seq(Ids')
        BY <3>1, SeqMonotonic DEF Shape, TypeOK
      <4>2. QED
        BY <4>1, <1>1 DEF WillBeSent, handlerVars, Shape, TypeOK
    <3>4. resetting' \in {NoEntry} \cup Ids'
      BY <1>1, <3>1 DEF WillBeSent, wgVars, Shape, TypeOK
    <3>5. QED
      BY <1>1, <3>1, <3>2, <3>3, <3>4
         DEF WillBeSent, Shape, TypeOK, wgVars, handlerVars, Entry, Fetches
  <2>3. QED
    BY <1>1, <2>1, <2>2 DEF WillBeSent
<1>2. ASSUME NEW r \in Requests, ResponseReceived(r) PROVE Shape'
  <2>1. CASE UNCHANGED entries
    BY <1>2, <2>1 DEF ResponseReceived, Shape, TypeOK, Ids, captureVars, wgVars, handlerVars
  <2>2. CASE inFlight[r] # NoEntry /\ entries' = [entries EXCEPT ![inFlight[r]].response = TRUE]
    <3>1. inFlight[r] \in Ids /\ [entries[inFlight[r]] EXCEPT !.response = TRUE] \in Entry
      BY <2>2, EntryFields
    <3>2. entries' \in Seq(Entry) /\ Len(entries') = Len(entries) /\ Ids' = Ids
      BY <2>2, <3>1, UpdatedEntryShape
    <3>3. QED
      BY <1>2, <3>2
         DEF ResponseReceived, Shape, TypeOK, captureVars, wgVars, handlerVars, Entry, Fetches
  <2>3. QED
    BY <1>2, <2>1, <2>2 DEF ResponseReceived
<1>3. ASSUME NEW r \in Requests, LoadingFinished(r) PROVE Shape'
  <2>1. CASE UNCHANGED <<entries, inFlight, fetch, wgVars, crashed>>
    BY <1>3, <2>1 DEF LoadingFinished, Shape, TypeOK, Ids, wgVars, handlerVars
  <2>2. CASE /\ inFlight[r] # NoEntry
             /\ entries' = [entries EXCEPT ![inFlight[r]].finished = TRUE]
             /\ inFlight' = [inFlight EXCEPT ![r] = NoEntry]
             /\ \/ fetch' = [fetch EXCEPT ![inFlight[r]] = "calling"] /\ WgAdd
                \/ UNCHANGED <<fetch, wgVars, crashed>>
    <3>1. inFlight[r] \in Ids /\ [entries[inFlight[r]] EXCEPT !.finished = TRUE] \in Entry
      BY <2>2, EntryFields
    <3>2. entries' \in Seq(Entry) /\ Len(entries') = Len(entries) /\ Ids' = Ids
      BY <2>2, <3>1, UpdatedEntryShape
    <3>3. fetch' \in Seq(Fetches) /\ Len(fetch') = Len(fetch)
      BY <2>2, <3>1, UpdatedFetchShape DEF Fetches
    <3>4. fetch' \in [Ids' -> Fetches]
      BY <3>2, <3>3, LenProperties DEF Ids, Shape
    <3>5. /\ count' = count + 1 \/ count' = count
          /\ resetting' = resetting
          /\ crashed' = (resetting # NoEntry) \/ crashed' = crashed
      BY <2>2 DEF WgAdd, wgVars
    <3>6. QED
      BY <1>3, <2>2, <3>2, <3>3, <3>4, <3>5
         DEF LoadingFinished, Shape, TypeOK, handlerVars, Entry, Fetches
  <2>3. QED
    BY <1>3, <2>1, <2>2 DEF LoadingFinished
<1>4. ASSUME NEW r \in Requests, LoadingFailed(r) PROVE Shape'
  BY <1>4 DEF LoadingFailed, Shape, TypeOK, Ids, wgVars, handlerVars
<1>5. ASSUME NEW i \in Ids, FetchReturns(i) PROVE Shape'
  <2>1. fetch' \in Seq(Fetches) /\ Len(fetch') = Len(fetch)
    BY <1>5, UpdatedFetchShape DEF Fetches, FetchReturns
  <2>2. [entries[i] EXCEPT !.body = TRUE] \in Entry
    BY EntryFields
  <2>3. entries' \in Seq(Entry) /\ Len(entries') = Len(entries) /\ Ids' = Ids
    BY <1>5, <2>2, UpdatedEntryShape DEF FetchReturns, Ids
  <2>4. fetch' \in [Ids' -> Fetches]
    BY <2>1, <2>3, LenProperties DEF Ids, Shape
  <2>5. QED
    BY <1>5, <2>1, <2>3, <2>4
       DEF FetchReturns, Shape, TypeOK, captureVars, wgVars, handlerVars, Entry, Fetches
<1>6. ASSUME NEW i \in Ids, FetchDone(i) PROVE Shape'
  <2>1. fetch' \in Seq(Fetches) /\ Len(fetch') = Len(fetch) /\ Ids' = Ids
    BY <1>6, UpdatedFetchShape DEF Fetches, FetchDone, Ids
  <2>2. fetch' \in [Ids' -> Fetches]
    BY <2>1, LenProperties DEF Ids, Shape
  <2>3. count' \in Nat
    <3>1. i \in Pending
      BY <1>6 DEF Pending, FetchDone
    <3>2. count # 0
      BY <3>1, PendingFinite, FS_EmptySet DEF Counted
    <3>3. QED
      BY <1>6, <3>2 DEF FetchDone, Shape, TypeOK
  <2>4. resetting' \in {NoEntry} \cup Ids
    BY <1>6 DEF FetchDone, Shape, TypeOK
  <2>5. QED
    BY <1>6, <2>1, <2>2, <2>3, <2>4
       DEF FetchDone, Shape, TypeOK, captureVars, handlerVars, Fetches
<1>7. ASSUME NEW i \in Ids, FetchWake(i) PROVE Shape'
  <2>1. fetch' \in Seq(Fetches) /\ Len(fetch') = Len(fetch) /\ Ids' = Ids
    BY <1>7, UpdatedFetchShape DEF Fetches, FetchWake, Ids
  <2>2. fetch' \in [Ids' -> Fetches]
    BY <2>1, LenProperties DEF Ids, Shape
  <2>3. pc' \in [Handlers -> {"idle", "drain", "waiting", "woken", "format", "panicked"}]
    BY <1>7 DEF FetchWake, Shape, TypeOK
  <2>4. QED
    BY <1>7, <2>1, <2>2, <2>3 DEF FetchWake, Shape, TypeOK, captureVars, Fetches
<1>8. ASSUME NEW h \in Handlers, CaptureStart(h) PROVE Shape'
  BY <1>8, EmptySeq, CaptureBounds
     DEF CaptureStart, Shape, TypeOK, Ids, wgVars, handlerVars, NoneInFlight
<1>9. ASSUME NEW h \in Handlers, CaptureStop(h) PROVE Shape'
  <2>1. captured' \in Seq(Ids) /\ result' \in [Handlers -> Seq(Ids)]
    BY <1>9, EmptySeq DEF CaptureStop, Shape, TypeOK
  <2>2. QED
    BY <1>9, <2>1 DEF CaptureStop, Shape, TypeOK, Ids, wgVars, NoneInFlight
<1>10. ASSUME NEW h \in Handlers, HandlerStep(h) PROVE Shape'
  <2>1. /\ pc' \in [Handlers -> {"idle", "drain", "waiting", "woken", "format", "panicked"}]
        /\ UNCHANGED <<captureVars, entries, fetch, wgVars, phase, crashed>>
    BY <1>10 DEF HandlerStep, DrainStart, DrainWoken, Reply, Shape, TypeOK
  <2>2. result' \in [Handlers -> Seq(Ids)]
    BY <1>10, EmptySeq DEF HandlerStep, DrainStart, DrainWoken, Reply, Shape, TypeOK
  <2>3. QED
    BY <2>1, <2>2 DEF Shape, TypeOK, Ids, captureVars, wgVars
<1>11. CASE UNCHANGED vars
  BY <1>11 DEF vars, Shape, TypeOK, Ids, captureVars, wgVars, handlerVars
<1>12. QED
  BY <1>1, <1>2, <1>3, <1>4, <1>5, <1>6, <1>7, <1>8, <1>9, <1>10, <1>11 DEF Next, FetchStep

-----------------------------------------------------------------------------
(* The conjuncts of the invariant, one lemma each.                         *)

(* Only a request that is captured makes the heap grow.                    *)
LEMMA StepIds ==
  ASSUME Shape, NEW r \in Requests,
         ResponseReceived(r) \/ LoadingFinished(r) \/ LoadingFailed(r)
  PROVE  Ids' = Ids
<1> USE ShapeFacts
<1>1. CASE inFlight[r] # NoEntry /\ entries' = [entries EXCEPT ![inFlight[r]].response = TRUE]
  BY <1>1, EntryFields, UpdatedEntryShape
<1>2. CASE inFlight[r] # NoEntry /\ entries' = [entries EXCEPT ![inFlight[r]].finished = TRUE]
  BY <1>2, EntryFields, UpdatedEntryShape
<1>3. CASE UNCHANGED entries
  BY <1>3 DEF Ids
<1>4. QED
  BY <1>1, <1>2, <1>3 DEF ResponseReceived, LoadingFinished, LoadingFailed

LEMMA FetchStepIds ==
  ASSUME Shape, NEW i \in Ids, FetchStep(i)
  PROVE  Ids' = Ids
<1> USE ShapeFacts
<1>1. CASE entries' = [entries EXCEPT ![i].body = TRUE]
  BY <1>1, EntryFields, UpdatedEntryShape
<1>2. CASE UNCHANGED entries
  BY <1>2 DEF Ids
<1>3. QED
  BY <1>1, <1>2 DEF FetchStep, FetchReturns, FetchDone, FetchWake

LEMMA StepInFlightOwned ==
  ASSUME IInv, Shape', [Next]_vars
  PROVE  InFlightOwned'
<1> USE ShapeFacts DEF IInv
<1>1. ASSUME NEW r \in Requests, WillBeSent(r) PROVE InFlightOwned'
  <2>1. CASE UNCHANGED <<entries, fetch, captured, inFlight>>
    BY <1>1, <2>1 DEF WillBeSent, InFlightOwned, In
  <2>2. CASE /\ capturing /\ Len(entries) < MaxEntries
             /\ entries' = Append(entries, NewCapture)
             /\ fetch' = Append(fetch, "none")
             /\ captured' = Append(captured, Len(entries'))
             /\ inFlight' = [inFlight EXCEPT ![r] = Len(entries')]
    <3>1. /\ Len(entries') = Len(entries) + 1 /\ Ids' = Ids \cup {Len(entries')}
          /\ \A i \in Ids : entries'[i] = entries[i] /\ fetch'[i] = fetch[i]
          /\ entries'[Len(entries')] = NewCapture /\ fetch'[Len(entries')] = "none"
          /\ Len(entries') \notin Ids
      BY <2>2, NewEntryShape, IdsGrow
    <3>2. captured \in Seq(Ids') /\ Len(entries') \in Ids'
      BY <3>1, SeqMonotonic
    <3>3. \A i : In(i, captured') <=> In(i, captured) \/ i = Len(entries')
      BY <2>2, <3>2, AppendIn
    <3>4. session' = session
      BY <1>1 DEF WillBeSent
    <3>5. SUFFICES ASSUME NEW q \in Requests, inFlight'[q] # NoEntry
                   PROVE  /\ In(inFlight'[q], captured')
                          /\ fetch'[inFlight'[q]] = "none"
                          /\ entries'[inFlight'[q]].session = session'
                          /\ \A o \in Requests \ {q} : inFlight'[o] # inFlight'[q]
      BY DEF InFlightOwned
    <3>6. CASE q = r
      <4>1. inFlight'[q] = Len(entries')
        BY <2>2, <3>6
      <4>2. \A o \in Requests \ {q} : inFlight'[o] = inFlight[o] /\ inFlight[o] \in {NoEntry} \cup Ids
        BY <2>2, <3>6
      <4>3. Len(entries') # NoEntry
        BY <3>1 DEF NoEntry
      <4>4. QED
        BY <3>1, <3>3, <3>4, <4>1, <4>2, <4>3 DEF NewCapture
    <3>7. CASE q # r
      <4>1. inFlight'[q] = inFlight[q] /\ inFlight[q] \in Ids
        BY <2>2, <3>5, <3>7
      <4>2. \A o \in Requests \ {q} : inFlight'[o] = IF o = r THEN Len(entries') ELSE inFlight[o]
        BY <2>2, <3>7
      <4>3. QED
        BY <3>1, <3>3, <3>4, <3>5, <4>1, <4>2 DEF InFlightOwned
    <3>8. QED
      BY <3>6, <3>7
  <2>3. QED
    BY <1>1, <2>1, <2>2 DEF WillBeSent
<1>2. ASSUME NEW r \in Requests, ResponseReceived(r) PROVE InFlightOwned'
  <2>1. \A i \in Ids : entries'[i].session = entries[i].session
    <3>1. CASE UNCHANGED entries
      BY <3>1
    <3>2. CASE inFlight[r] # NoEntry /\ entries' = [entries EXCEPT ![inFlight[r]].response = TRUE]
      <4>1. inFlight[r] \in Ids /\ [entries[inFlight[r]] EXCEPT !.response = TRUE] \in Entry
        BY <3>2, EntryFields
      <4>2. \A i \in Ids : entries'[i] = IF i = inFlight[r]
                                           THEN [entries[i] EXCEPT !.response = TRUE]
                                           ELSE entries[i]
        BY <3>2, <4>1, UpdatedEntryShape
      <4>3. QED
        BY <4>2 DEF Entry
    <3>3. QED
      BY <1>2, <3>1, <3>2 DEF ResponseReceived
  <2>2. QED
    BY <1>2, <2>1 DEF ResponseReceived, InFlightOwned, In, captureVars
<1>3. ASSUME NEW r \in Requests, LoadingFinished(r) PROVE InFlightOwned'
  <2>1. CASE UNCHANGED <<entries, inFlight, fetch, wgVars, crashed>>
    BY <1>3, <2>1 DEF LoadingFinished, InFlightOwned, In
  <2>2. CASE /\ inFlight[r] # NoEntry
             /\ entries' = [entries EXCEPT ![inFlight[r]].finished = TRUE]
             /\ inFlight' = [inFlight EXCEPT ![r] = NoEntry]
             /\ fetch' = [fetch EXCEPT ![inFlight[r]] = "calling"] \/ UNCHANGED fetch
    <3>1. inFlight[r] \in Ids /\ [entries[inFlight[r]] EXCEPT !.finished = TRUE] \in Entry
      BY <2>2, EntryFields
    <3>2. \A i \in Ids \ {inFlight[r]} : entries'[i] = entries[i] /\ fetch'[i] = fetch[i]
      BY <2>2, <3>1
    <3>3. \A q \in Requests : inFlight'[q] # NoEntry =>
             q # r /\ inFlight'[q] = inFlight[q] /\ inFlight[q] \in Ids \ {inFlight[r]}
      BY <2>2 DEF InFlightOwned
    <3>4. \A q \in Requests : inFlight'[q] = IF q = r THEN NoEntry ELSE inFlight[q]
      BY <2>2
    <3>5. captured' = captured /\ session' = session
      BY <1>3 DEF LoadingFinished
    <3>6. QED
      BY <3>2, <3>3, <3>4, <3>5 DEF InFlightOwned
  <2>3. QED
    BY <1>3, <2>1, <2>2 DEF LoadingFinished
<1>4. ASSUME NEW r \in Requests, LoadingFailed(r) PROVE InFlightOwned'
  <2>1. \A q \in Requests : inFlight'[q] = IF q = r THEN NoEntry ELSE inFlight[q]
    BY <1>4 DEF LoadingFailed
  <2>2. UNCHANGED <<captured, session, entries, fetch>>
    BY <1>4 DEF LoadingFailed
  <2>3. QED
    BY <2>1, <2>2 DEF InFlightOwned
<1>5. ASSUME NEW i \in Ids, FetchStep(i) PROVE InFlightOwned'
  <2>1. fetch[i] # "none"
    BY <1>5 DEF FetchStep, FetchReturns, FetchDone, FetchWake, Counted
  <2>2. \A j \in Ids : entries'[j].session = entries[j].session
    <3>1. CASE entries' = [entries EXCEPT ![i].body = TRUE]
      BY <3>1 DEF Entry
    <3>2. QED
      BY <1>5, <3>1 DEF FetchStep, FetchReturns, FetchDone, FetchWake
  <2>3. \A j \in Ids \ {i} : fetch'[j] = fetch[j]
    BY <1>5 DEF FetchStep, FetchReturns, FetchDone, FetchWake
  <2>4. UNCHANGED captureVars
    BY <1>5 DEF FetchStep, FetchReturns, FetchDone, FetchWake
  <2>5. QED
    BY <2>1, <2>2, <2>3, <2>4 DEF InFlightOwned, captureVars
<1>6. ASSUME NEW h \in Handlers, CaptureStart(h) \/ CaptureStop(h) PROVE InFlightOwned'
  BY <1>6 DEF CaptureStart, CaptureStop, NoneInFlight, InFlightOwned
<1>7. ASSUME NEW h \in Handlers, HandlerStep(h) PROVE InFlightOwned'
  BY <1>7 DEF HandlerStep, DrainStart, DrainWoken, Reply, InFlightOwned, captureVars
<1>8. CASE UNCHANGED vars
  BY <1>8 DEF vars, InFlightOwned, captureVars
<1>9. QED
  BY <1>1, <1>2, <1>3, <1>4, <1>5, <1>6, <1>7, <1>8 DEF Next

(* A stop takes the session's entries along; what the session captures     *)
(* afterwards is new.                                                      *)
LEMMA StepTakenOnce ==
  ASSUME IInv, Shape', [Next]_vars
  PROVE  TakenOnce'
<1> USE ShapeFacts DEF IInv
<1>1. ASSUME NEW r \in Requests, WillBeSent(r) PROVE TakenOnce'
  <2>1. CASE UNCHANGED <<entries, fetch, captured, inFlight>>
    <3>1. result' = result /\ Ids' = Ids
      BY <1>1, <2>1 DEF WillBeSent, handlerVars, Ids
    <3>2. QED
      BY <2>1, <3>1 DEF TakenOnce
  <2>2. CASE /\ capturing /\ Len(entries) < MaxEntries
             /\ entries' = Append(entries, NewCapture)
             /\ fetch' = Append(fetch, "none")
             /\ captured' = Append(captured, Len(entries'))
             /\ inFlight' = [inFlight EXCEPT ![r] = Len(entries')]
    <3>1. Ids' = Ids \cup {Len(entries')} /\ Len(entries') \notin Ids
      BY <2>2, NewEntryShape, IdsGrow
    <3>2. captured \in Seq(Ids') /\ Len(entries') \in Ids'
      BY <3>1, SeqMonotonic
    <3>3. \A i : In(i, captured') <=> In(i, captured) \/ i = Len(entries')
      BY <2>2, <3>2, AppendIn
    <3>4. result' = result
      BY <1>1 DEF WillBeSent, handlerVars
    <3>5. \A h \in Handlers : ~In(Len(entries'), result[h])
      BY <3>1 DEF Shape, TypeOK, In
    <3>6. QED
      BY <3>1, <3>3, <3>4, <3>5 DEF TakenOnce
  <2>3. QED
    BY <1>1, <2>1, <2>2 DEF WillBeSent
<1>2. ASSUME UNCHANGED <<captured, result>>, Ids' = Ids PROVE TakenOnce'
  BY <1>2 DEF TakenOnce
<1>3. ASSUME NEW r \in Requests, ResponseReceived(r) \/ LoadingFinished(r) \/ LoadingFailed(r)
      PROVE  UNCHANGED <<captured, result>> /\ Ids' = Ids
  BY <1>3, StepIds DEF ResponseReceived, LoadingFinished, LoadingFailed, captureVars, handlerVars
<1>4. ASSUME NEW i \in Ids, FetchStep(i) PROVE UNCHANGED <<captured, result>> /\ Ids' = Ids
  BY <1>4, FetchStepIds DEF FetchStep, FetchReturns, FetchDone, FetchWake, captureVars, handlerVars
<1>5. ASSUME NEW h \in Handlers, CaptureStart(h) PROVE TakenOnce'
  BY <1>5 DEF CaptureStart, handlerVars, TakenOnce, Ids, In
<1>6. ASSUME NEW h \in Handlers, CaptureStop(h) PROVE TakenOnce'
  <2>1. /\ Ids' = Ids /\ \A i : ~In(i, captured')
        /\ \A g \in Handlers : result'[g] = IF g = h THEN captured ELSE result[g]
    BY <1>6 DEF CaptureStop, Ids, In, Shape, TypeOK
  <2>2. QED
    BY <2>1 DEF TakenOnce
<1>7. ASSUME NEW h \in Handlers, HandlerStep(h) PROVE TakenOnce'
  <2>1. /\ Ids' = Ids /\ captured' = captured
        /\ \A g \in Handlers : result'[g] = result[g] \/ result'[g] = <<>>
    BY <1>7 DEF HandlerStep, DrainStart, DrainWoken, Reply, Ids, captureVars, Shape, TypeOK
  <2>2. \A i : \A g \in Handlers : In(i, result'[g]) => In(i, result[g])
    BY <2>1 DEF In
  <2>3. QED
    BY <2>1, <2>2 DEF TakenOnce
<1>8. CASE UNCHANGED vars
  BY <1>2, <1>8 DEF vars, captureVars, handlerVars, Ids
<1>9. QED
  BY <1>1, <1>2, <1>3, <1>4, <1>5, <1>6, <1>7, <1>8 DEF Next

(* The goroutines that Done is still to be called for, before and after a  *)
(* step of one of them.                                                    *)
LEMMA PendingAfter ==
  ASSUME Shape, Shape', Ids' = Ids, NEW i \in Ids, NEW f \in Fetches,
         fetch' = [fetch EXCEPT ![i] = f]
  PROVE  Pending' = IF f \in {"calling", "written", "failed"} THEN Pending \cup {i}
                                                              ELSE Pending \ {i}
<1>1. \A j \in Ids : fetch'[j] = IF j = i THEN f ELSE fetch[j]
  BY UpdatedFetchShape
<1>2. QED
  BY <1>1 DEF Pending

LEMMA StepCounted ==
  ASSUME IInv, Shape', [Next]_vars
  PROVE  Counted'
<1> USE ShapeFacts DEF IInv
<1>1. ASSUME UNCHANGED <<count, resetting>>, Pending' = Pending,
             \A i \in Ids : fetch[i] = "resetting" => fetch'[i] = "resetting"
      PROVE  Counted'
  BY <1>1 DEF Counted, Shape, TypeOK
<1>2. ASSUME NEW r \in Requests, WillBeSent(r) PROVE Counted'
  <2>1. CASE UNCHANGED <<entries, fetch, captured, inFlight>>
    BY <1>1, <1>2, <2>1 DEF WillBeSent, Pending, Ids, wgVars
  <2>2. CASE /\ capturing /\ Len(entries) < MaxEntries
             /\ entries' = Append(entries, NewCapture)
             /\ fetch' = Append(fetch, "none")
             /\ captured' = Append(captured, Len(entries'))
             /\ inFlight' = [inFlight EXCEPT ![r] = Len(entries')]
    <3>1. /\ Ids' = Ids \cup {Len(entries')}
          /\ \A i \in Ids : fetch'[i] = fetch[i]
          /\ fetch'[Len(entries')] = "none"
      BY <2>2, NewEntryShape, IdsGrow
    <3>2. Pending' = Pending
      BY <3>1 DEF Pending
    <3>3. QED
      BY <1>1, <1>2, <3>1, <3>2 DEF WillBeSent, wgVars
  <2>3. QED
    BY <1>2, <2>1, <2>2 DEF WillBeSent
<1>3. ASSUME Ids' = Ids, UNCHANGED <<fetch, wgVars>> PROVE Counted'
  BY <1>1, <1>3 DEF Pending, wgVars
<1>4. ASSUME NEW r \in Requests, ResponseReceived(r) \/ LoadingFailed(r) PROVE Counted'
  BY <1>3, <1>4, StepIds DEF ResponseReceived, LoadingFailed
<1>5. ASSUME NEW r \in Requests, LoadingFinished(r) PROVE Counted'
  <2>1. CASE UNCHANGED <<fetch, wgVars>>
    BY <1>3, <1>5, <2>1, StepIds
  <2>2. CASE /\ inFlight[r] # NoEntry
             /\ fetch' = [fetch EXCEPT ![inFlight[r]] = "calling"] /\ WgAdd
    <3>1. inFlight[r] \in Ids /\ fetch[inFlight[r]] = "none" /\ inFlight[r] \notin Pending
      BY <2>2 DEF InFlightOwned, Pending
    <3>2. Pending' = Pending \cup {inFlight[r]}
      BY <1>5, <2>2, <3>1, StepIds, PendingAfter DEF Fetches
    <3>3. Cardinality(Pending') = Cardinality(Pending) + 1
      BY <3>1, <3>2, PendingFinite, FS_AddElement
    <3>4. resetting' = resetting /\ (resetting # NoEntry => fetch'[resetting] = "resetting")
      BY <2>2, <3>1 DEF WgAdd, Counted, Shape, TypeOK
    <3>5. QED
      BY <2>2, <3>3, <3>4 DEF WgAdd, Counted
  <2>3. QED
    BY <1>5, <2>1, <2>2 DEF LoadingFinished
<1>6. ASSUME NEW i \in Ids, FetchReturns(i) PROVE Counted'
  <2>1. i \in Pending
    BY <1>6 DEF Pending, FetchReturns
  <2>2. PICK f \in {"written", "failed"} : fetch' = [fetch EXCEPT ![i] = f]
    BY <1>6 DEF FetchReturns
  <2>3. Pending' = Pending
    <3>1. Ids' = Ids
      BY <1>6, FetchStepIds DEF FetchStep
    <3>2. Pending' = Pending \cup {i}
      BY <2>2, <3>1, PendingAfter DEF Fetches
    <3>3. QED
      BY <2>1, <3>2
  <2>4. QED
    BY <1>1, <1>6, <2>2, <2>3 DEF FetchReturns, wgVars
<1>7. ASSUME NEW i \in Ids, FetchDone(i) PROVE Counted'
  <2>1. i \in Pending /\ fetch[i] # "resetting"
    BY <1>7 DEF Pending, FetchDone
  <2>2. PICK f \in {"resetting", "done"} : /\ fetch' = [fetch EXCEPT ![i] = f]
                                           /\ \/ f = "resetting" /\ resetting' = i
                                              \/ f = "done" /\ resetting' = resetting
    BY <1>7 DEF FetchDone
  <2>3. Pending' = Pending \ {i}
    BY <1>7, <2>2, FetchStepIds, PendingAfter DEF Fetches, FetchStep
  <2>4. Cardinality(Pending') = Cardinality(Pending) - 1
    BY <2>1, <2>3, PendingFinite, FS_RemoveElement
  <2>5. resetting' # NoEntry => fetch'[resetting'] = "resetting"
    BY <2>1, <2>2 DEF Counted, Shape, TypeOK
  <2>6. QED
    BY <1>7, <2>4, <2>5 DEF FetchDone, Counted
<1>8. ASSUME NEW i \in Ids, FetchWake(i) PROVE Counted'
  <2>1. fetch[i] = "resetting" /\ fetch' = [fetch EXCEPT ![i] = "done"]
    BY <1>8 DEF FetchWake, Counted
  <2>2. Pending' = Pending \ {i} /\ i \notin Pending
    BY <1>8, <2>1, FetchStepIds, PendingAfter DEF Fetches, FetchStep, Pending
  <2>3. QED
    BY <1>8, <2>2 DEF FetchWake, Counted
<1>9. ASSUME NEW h \in Handlers, CaptureStart(h) \/ CaptureStop(h) PROVE Counted'
  BY <1>3, <1>9 DEF CaptureStart, CaptureStop, Ids
<1>10. ASSUME NEW h \in Handlers, HandlerStep(h) PROVE Counted'
  BY <1>3, <1>10 DEF HandlerStep, DrainStart, DrainWoken, Reply, Ids
<1>11. CASE UNCHANGED vars
  BY <1>3, <1>11 DEF vars, Ids
<1>12. QED
  BY <1>2, <1>4, <1>5, <1>6, <1>7, <1>8, <1>9, <1>10, <1>11 DEF Next, FetchStep

(* A body that is asked for late belongs to no result: its entry was in    *)
(* flight, hence the session's.                                            *)
LEMMA StepResultComplete ==
  ASSUME IInv, Shape', [Next]_vars
  PROVE  ResultComplete'
<1> USE ShapeFacts DEF IInv
<1>1. \A h \in Handlers : \A k \in DOMAIN result[h] : result[h][k] \in Ids /\ In(result[h][k], result[h])
  BY DEF Shape, TypeOK, In
<1>2. ASSUME NEW h \in Handlers, pc[h] = "format", result'[h] = result[h],
             \A i \in Ids : In(i, result[h]) /\ fetch[i] \notin {"calling", "written", "failed"}
                               => fetch'[i] \notin {"calling", "written", "failed"}
      PROVE  \A k \in DOMAIN result'[h] :
                fetch'[result'[h][k]] \notin {"calling", "written", "failed"}
  BY <1>1, <1>2 DEF ResultComplete, Serialising
<1>3. ASSUME UNCHANGED handlerVars,
             \A i \in Ids : (\E h \in Handlers : In(i, result[h])) /\ i \notin Pending
                               => fetch'[i] \notin {"calling", "written", "failed"}
      PROVE  ResultComplete'
  BY <1>1, <1>2, <1>3 DEF ResultComplete, Serialising, Pending, handlerVars
<1>4. ASSUME NEW r \in Requests, WillBeSent(r) PROVE ResultComplete'
  <2>1. \A i \in Ids : fetch'[i] = fetch[i]
    BY <1>4, NewEntryShape DEF WillBeSent
  <2>2. QED
    BY <1>3, <1>4, <2>1 DEF WillBeSent, Pending
<1>5. ASSUME NEW r \in Requests, LoadingFinished(r) PROVE ResultComplete'
  <2>1. CASE UNCHANGED fetch
    BY <1>3, <1>5, <2>1 DEF LoadingFinished, Pending
  <2>2. CASE inFlight[r] # NoEntry /\ fetch' = [fetch EXCEPT ![inFlight[r]] = "calling"]
    <3>1. inFlight[r] \in Ids /\ In(inFlight[r], captured)
      BY <2>2 DEF InFlightOwned
    <3>2. \A h \in Handlers : ~In(inFlight[r], result[h])
      BY <3>1 DEF TakenOnce
    <3>3. \A i \in Ids \ {inFlight[r]} : fetch'[i] = fetch[i]
      BY <2>2, <3>1
    <3>4. QED
      BY <1>3, <1>5, <3>2, <3>3 DEF LoadingFinished, Pending
  <2>3. QED
    BY <1>5, <2>1, <2>2 DEF LoadingFinished
<1>6. ASSUME NEW r \in Requests, ResponseReceived(r) \/ LoadingFailed(r) PROVE ResultComplete'
  BY <1>3, <1>6 DEF ResponseReceived, LoadingFailed, Pending
<1>7. ASSUME NEW i \in Ids, FetchReturns(i) \/ FetchDone(i) PROVE ResultComplete'
  <2>1. i \in Pending
    BY <1>7 DEF FetchReturns, FetchDone, Pending
  <2>2. \A j \in Ids \ {i} : fetch'[j] = fetch[j]
    BY <1>7 DEF FetchReturns, FetchDone
  <2>3. QED
    BY <1>3, <1>7, <2>1, <2>2 DEF FetchReturns, FetchDone, Pending
<1>8. ASSUME NEW i \in Ids, FetchWake(i) PROVE ResultComplete'
  <2>1. \A j \in Ids : fetch'[j] = IF j = i THEN "done" ELSE fetch[j]
    BY <1>8 DEF FetchWake
  <2>2. \A h \in Handlers : pc'[h] = "format" => pc[h] = "format" /\ result'[h] = result[h]
    BY <1>8 DEF FetchWake, Waiting
  <2>3. QED
    BY <1>2, <2>1, <2>2 DEF ResultComplete, Serialising
<1>9. ASSUME NEW h \in Handlers, CaptureStart(h) PROVE ResultComplete'
  BY <1>3, <1>9 DEF CaptureStart, Pending
<1>10. ASSUME NEW h \in Handlers, CaptureStop(h) PROVE ResultComplete'
  <2>1. \A g \in Handlers : pc'[g] = "format" => pc[g] = "format" /\ result'[g] = result[g]
    BY <1>10 DEF CaptureStop, Shape, TypeOK
  <2>2. fetch' = fetch
    BY <1>10 DEF CaptureStop
  <2>3. QED
    BY <1>2, <2>1, <2>2 DEF ResultComplete, Serialising
<1>11. ASSUME NEW h \in Handlers, DrainStart(h) \/ DrainWoken(h) PROVE ResultComplete'
  <2>1. UNCHANGED <<fetch, result>>
    BY <1>11 DEF DrainStart, DrainWoken
  <2>2. \A g \in Handlers : pc'[g] = "format" => pc[g] = "format" \/ count = 0
    BY <1>11 DEF DrainStart, DrainWoken, Shape, TypeOK
  <2>3. count = 0 => Pending = {}
    BY PendingFinite, FS_EmptySet DEF Counted
  <2>4. QED
    BY <1>1, <2>1, <2>2, <2>3 DEF ResultComplete, Serialising, Pending
<1>12. ASSUME NEW h \in Handlers, Reply(h) PROVE ResultComplete'
  <2>1. \A g \in Handlers : pc'[g] = "format" => pc[g] = "format" /\ result'[g] = result[g]
    BY <1>12 DEF Reply, Shape, TypeOK
  <2>2. fetch' = fetch
    BY <1>12 DEF Reply
  <2>3. QED
    BY <1>2, <2>1, <2>2 DEF ResultComplete, Serialising
<1>13. CASE UNCHANGED vars
  BY <1>3, <1>13 DEF vars, Pending
<1>14. QED
  BY <1>4, <1>5, <1>6, <1>7, <1>8, <1>9, <1>10, <1>11, <1>12, <1>13
     DEF Next, FetchStep, HandlerStep

-----------------------------------------------------------------------------

LEMMA StepIInv == IInv /\ [Next]_vars => IInv'
BY StepShape, StepInFlightOwned, StepTakenOnce, StepCounted, StepResultComplete DEF IInv

(* For any requests and handlers the state keeps its shape; in particular  *)
(* the wait group's counter never goes below zero, which would be a panic. *)
THEOREM TypeCorrect == Spec => []TypeOK
<1>1. IInv => TypeOK
  BY DEF IInv, Shape
<1>2. QED
  BY <1>1, InitIInv, StepIInv, PTL DEF Spec

(* For any requests, handlers and sessions: an entry that a stop is        *)
(* serialising has no body that is still being fetched, also when captures *)
(* are started and stopped at once (routes_network.go:89-93).              *)
THEOREM ResultCompleteHolds == Spec => []ResultComplete
<1>1. IInv => ResultComplete
  BY DEF IInv
<1>2. QED
  BY <1>1, InitIInv, StepIInv, PTL DEF Spec

(* For any requests, handlers and sessions: no entry is handed out by two  *)
(* stops, or handed out and kept (routes_network.go:78-87).                *)
THEOREM TakenOnceHolds == Spec => []TakenOnce
<1>1. IInv => TakenOnce
  BY DEF IInv
<1>2. QED
  BY <1>1, InitIInv, StepIInv, PTL DEF Spec

(* For any requests, handlers and sessions: events of a request only touch *)
(* entries of the session under way, and nothing touches the entries that  *)
(* a stop is serialising without s.mu (listeners.go:116-230).              *)
THEOREM OnlyOwnSessionWritesHold == Spec => OnlyOwnSessionWrites
<1> DEFINE Own == \A i \in Ids :
                     entries'[i] # entries[i] =>
                        /\ \A h \in Handlers : Serialising(h) => ~In(i, result[h])
                        /\ entries'[i].body = entries[i].body
                               => capturing /\ entries[i].session = session
<1>1. IInv /\ [Next]_vars => [Own]_vars
  <2> SUFFICES ASSUME IInv, Next, NEW i \in Ids, entries'[i] # entries[i]
               PROVE  /\ \A h \in Handlers : Serialising(h) => ~In(i, result[h])
                      /\ entries'[i].body = entries[i].body
                             => capturing /\ entries[i].session = session
    OBVIOUS
  <2> USE ShapeFacts DEF IInv
  <2>1. ASSUME NEW r \in Requests, capturing, inFlight[r] # NoEntry, i = inFlight[r]
        PROVE  /\ \A h \in Handlers : ~In(i, result[h])
               /\ capturing /\ entries[i].session = session
    BY <2>1 DEF InFlightOwned, TakenOnce
  <2>2. ASSUME NEW r \in Requests, WillBeSent(r) PROVE FALSE
    BY <2>2, NewEntryShape DEF WillBeSent
  <2>3. ASSUME NEW r \in Requests, ResponseReceived(r) \/ LoadingFinished(r)
        PROVE  capturing /\ inFlight[r] # NoEntry /\ i = inFlight[r]
    BY <2>3 DEF ResponseReceived, LoadingFinished
  <2>4. ASSUME NEW j \in Ids, FetchReturns(j)
        PROVE  /\ \A h \in Handlers : Serialising(h) => ~In(i, result[h])
               /\ entries'[i].body # entries[i].body
    <3>1. i = j /\ entries'[i] = [entries[i] EXCEPT !.body = TRUE]
      BY <2>4 DEF FetchReturns
    <3>2. \A h \in Handlers : Serialising(h) => ~In(i, result[h])
      BY <2>4, <3>1 DEF FetchReturns, ResultComplete, In
    <3>3. entries'[i].body # entries[i].body
      BY <3>1 DEF Entry
    <3>4. QED
      BY <3>2, <3>3
  <2>5. QED
    BY <2>1, <2>2, <2>3, <2>4
       DEF Next, LoadingFailed, FetchStep, FetchDone, FetchWake, HandlerStep, CaptureStart,
           CaptureStop, DrainStart, DrainWoken, Reply
<1>2. QED
  BY <1>1, InitIInv, StepIInv, PTL DEF Spec, OnlyOwnSessionWrites

=============================================================================
