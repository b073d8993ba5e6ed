------------------------------ MODULE SseProofs ------------------------------
(* Proofs about SseBroadcast, for any loops and clients, any capacity of   *)
(* the channels and any number of events, and then about GuestEvents, for  *)
(* any guest: the runtime as a client leaves the daemon's side as it is.   *)
EXTENDS GuestEvents, SequenceTheorems, TLAPS

(* Where the loops stand: one that is idle has nobody to serve, and one    *)
(* under way serves connections that are registered.                       *)
Position ==
    \A b \in Loops :
        /\ at[b] = Idle => todo[b] = {}
        /\ at[b] # Idle => sent[b] >= 1
        /\ at[b].step \in {"drop", "warn"} => at[b].client \in todo[b]
        /\ \A c \in todo[b] : stream[c] \in {"streaming", "leaving"}

Shape == TypeOK /\ Position

LEMMA InitShape == Init => Shape
<1> SUFFICES ASSUME Init PROVE Shape
  OBVIOUS
<1>1. /\ stream \in [Clients -> {"new", "registering", "streaming", "leaving", "closed"}]
      /\ todo \in [Loops -> SUBSET Clients]
      /\ at \in [Loops -> Steps]
  BY DEF Init, Steps
<1>2. /\ sent \in [Loops -> 0 .. MaxEvents]
      /\ owed \in SUBSET Clients /\ raced \in SUBSET Clients
  BY SseBounds DEF Init
<1>3. /\ buffer \in [Clients -> Seq(Items)] /\ got \in [Clients -> Seq(Items)]
      /\ \A c \in Clients : Len(buffer[c]) = 0
  BY EmptySeq DEF Init
<1>4. TypeOK
  BY <1>1, <1>2, <1>3, SseBounds DEF TypeOK
<1>5. Position
  BY DEF Init, Position, Idle
<1>6. QED
  BY <1>4, <1>5 DEF Shape

LEMMA StepShapes ==
  /\ Idle.step = "idle" /\ Next1.step = "send" /\ Idle # Next1
  /\ \A c \in Clients, s \in {"drop", "warn"} :
        LET a == [step |-> s, client |-> c]
        IN a \in Steps /\ a # Idle /\ a # Next1 /\ a.step = s /\ a.client = c
BY DEF Idle, Next1, Steps

(* In an overflow the loop moves from the drop to the warning.             *)
LEMMA DropToWarn ==
  ASSUME TypeOK, NEW b \in Loops, NEW c \in Clients, DropOldest(b, c)
  PROVE  at' = [at EXCEPT ![b] = [step |-> "warn", client |-> c]]
<1>1. [at[b] EXCEPT !.step = "warn"] = [step |-> "warn", client |-> c]
  BY DEF DropOldest
<1>2. QED
  BY <1>1 DEF DropOldest

LEMMA TailItems ==
  ASSUME NEW s \in Seq(Items), s # <<>>
  PROVE  /\ Head(s) \in Items /\ Tail(s) \in Seq(Items)
         /\ Len(s) \in Nat \ {0} /\ Len(Tail(s)) = Len(s) - 1
         /\ Head(s) = s[1] /\ \A i \in 1 .. Len(Tail(s)) : Tail(s)[i] = s[i + 1]
BY HeadTailProperties, EmptySeq

LEMMA AppendItems ==
  ASSUME NEW s \in Seq(Items), NEW x \in Items
  PROVE  /\ Append(s, x) \in Seq(Items) /\ Len(Append(s, x)) = Len(s) + 1 /\ Len(s) \in Nat
         /\ \A i \in 1 .. Len(s) : Append(s, x)[i] = s[i]
         /\ Append(s, x)[Len(s) + 1] = x
OBVIOUS

LEMMA EventItem ==
  ASSUME Shape, NEW b \in Loops, at[b] # Idle
  PROVE  Event(b) \in Items
<1>1. sent[b] \in 1 .. MaxEvents
  BY DEF TypeOK, Shape, Position
<1>2. QED
  BY <1>1 DEF Event, Items

LEMMA TouchType ==
  ASSUME TypeOK, NEW b \in Loops, NEW c \in Clients, Touch(b, c)
  PROVE  raced' \in SUBSET Clients
BY DEF Touch, TypeOK

LEMMA StepShape ==
  ASSUME Shape, [Next]_vars
  PROVE  Shape'
<1> USE DEF Shape
<1>1. ASSUME NEW b \in Loops, Broadcast(b) PROVE Shape'
  <2>1. sent' \in [Loops -> 0 .. MaxEvents] /\ sent'[b] >= 1
    BY <1>1, SseBounds DEF Broadcast, TypeOK
  <2>2. todo' \in [Loops -> SUBSET Clients] /\ at' \in [Loops -> Steps]
    BY <1>1 DEF Broadcast, TypeOK, sseClients, Steps
  <2>3. TypeOK'
    BY <1>1, <2>1, <2>2 DEF Broadcast, TypeOK
  <2>4. Position'
    BY <1>1, <2>1, StepShapes DEF Broadcast, Position, TypeOK, sseClients
  <2>5. QED
    BY <2>3, <2>4
<1>2. ASSUME NEW b \in Loops, NEW c \in Clients, TrySend(b, c) PROVE Shape'
  <2>1. raced' \in SUBSET Clients /\ at[b] # Idle /\ c \in todo[b]
    BY <1>2, TouchType, StepShapes DEF TrySend
  <2>2. CASE Len(buffer[c]) < BufferCap
    <3>1. /\ buffer' = [buffer EXCEPT ![c] = Append(@, Event(b))]
          /\ todo' = [todo EXCEPT ![b] = @ \ {c}]
          /\ UNCHANGED <<at, owed, stream, sent, got>>
      BY <1>2, <2>2 DEF TrySend
    <3>2. /\ Append(buffer[c], Event(b)) \in Seq(Items)
          /\ Len(Append(buffer[c], Event(b))) <= BufferCap
      BY <2>1, <2>2, EventItem, AppendItems, SseBounds DEF TypeOK
    <3>3. buffer' \in [Clients -> Seq(Items)] /\ \A d \in Clients : Len(buffer'[d]) <= BufferCap
      BY <3>1, <3>2 DEF TypeOK
    <3>4. TypeOK'
      BY <2>1, <3>1, <3>3 DEF TypeOK
    <3>5. at[b].step \notin {"drop", "warn"}
      BY <1>2, StepShapes DEF TrySend
    <3>6. Position'
      BY <2>1, <3>1, <3>5 DEF TypeOK, Position
    <3>7. QED
      BY <3>4, <3>6
  <2>3. CASE ~(Len(buffer[c]) < BufferCap)
    <3>1. /\ at' = [at EXCEPT ![b] = [step |-> "drop", client |-> c]]
          /\ owed' = owed \cup {c}
          /\ UNCHANGED <<buffer, todo, stream, sent, got>>
      BY <1>2, <2>3 DEF TrySend
    <3>2. TypeOK'
      BY <2>1, <3>1, StepShapes DEF TypeOK
    <3>3. Position'
      BY <2>1, <3>1, StepShapes DEF TypeOK, Position
    <3>4. QED
      BY <3>2, <3>3
  <2>4. QED
    BY <2>2, <2>3
<1>3. ASSUME NEW b \in Loops, NEW c \in Clients, DropOldest(b, c) PROVE Shape'
  <2>1. buffer' \in [Clients -> Seq(Items)] /\ \A d \in Clients : Len(buffer'[d]) <= BufferCap
    <3>1. \A d \in Clients : buffer[d] \in Seq(Items) /\ Len(buffer[d]) <= BufferCap
      BY DEF TypeOK
    <3>2. buffer[c] # <<>> => Tail(buffer[c]) \in Seq(Items) /\ Len(Tail(buffer[c])) <= BufferCap
      BY <3>1, TailItems, SseBounds
    <3>3. QED
      BY <1>3, <3>1, <3>2 DEF DropOldest, TypeOK
  <2>2. at' \in [Loops -> Steps]
    <3>1. [step |-> "warn", client |-> c] \in Steps
      BY StepShapes
    <3>2. QED
      BY <1>3, <3>1, DropToWarn DEF TypeOK
  <2>3. TypeOK'
    BY <1>3, <2>1, <2>2, TouchType DEF DropOldest, TypeOK
  <2>4. Position'
    BY <1>3, DropToWarn, StepShapes DEF DropOldest, TypeOK, Position
  <2>5. QED
    BY <2>3, <2>4
<1>4. ASSUME NEW b \in Loops, NEW c \in Clients, TryWarn(b, c) PROVE Shape'
  <2>1. buffer' \in [Clients -> Seq(Items)] /\ \A d \in Clients : Len(buffer'[d]) <= BufferCap
    BY <1>4, SseBounds DEF TryWarn, TypeOK, Items
  <2>2. todo' \in [Loops -> SUBSET Clients] /\ at' \in [Loops -> Steps]
    BY <1>4 DEF TryWarn, TypeOK, Steps
  <2>3. TypeOK'
    BY <1>4, <2>1, <2>2, TouchType DEF TryWarn, TypeOK
  <2>4. Position'
    BY <1>4, StepShapes DEF TryWarn, TypeOK, Position
  <2>5. QED
    BY <2>3, <2>4
<1>5. ASSUME NEW b \in Loops, BroadcastEnd(b) PROVE Shape'
  <2>1. at' \in [Loops -> Steps]
    BY <1>5 DEF BroadcastEnd, TypeOK, Steps
  <2>2. QED
    BY <1>5, <2>1, StepShapes DEF BroadcastEnd, TypeOK, Position
<1>6. ASSUME NEW c \in Clients, Connect(c) \/ Register(c) \/ Disconnect(c) PROVE Shape'
  <2>1. TypeOK'
    BY <1>6 DEF Connect, Register, Disconnect, TypeOK
  <2>2. Position'
    BY <1>6 DEF Connect, Register, Disconnect, Position, TypeOK
  <2>3. QED
    BY <2>1, <2>2
<1>7. ASSUME NEW c \in Clients, Unregister(c) PROVE Shape'
  <2>1. \A b \in Loops : todo[b] = {}
    BY <1>7 DEF Unregister, Readers, Position
  <2>2. QED
    BY <1>7, <2>1 DEF Unregister, Position, TypeOK
<1>8. ASSUME NEW c \in Clients, Deliver(c) PROVE Shape'
  <2>1. /\ buffer' \in [Clients -> Seq(Items)] /\ \A d \in Clients : Len(buffer'[d]) <= BufferCap
        /\ got' \in [Clients -> Seq(Items)]
    <3>1. /\ buffer[c] \in Seq(Items) /\ got[c] \in Seq(Items) /\ buffer[c] # <<>>
          /\ Len(buffer[c]) <= BufferCap
      BY <1>8 DEF Deliver, TypeOK
    <3>2. /\ Tail(buffer[c]) \in Seq(Items) /\ Len(Tail(buffer[c])) <= BufferCap
          /\ Append(got[c], Head(buffer[c])) \in Seq(Items)
      BY <3>1, TailItems, SseBounds
    <3>3. QED
      BY <1>8, <3>2 DEF Deliver, TypeOK
  <2>2. QED
    BY <1>8, <2>1 DEF Deliver, TypeOK, Position
<1>9. CASE UNCHANGED vars
  BY <1>9 DEF vars, TypeOK, Position
<1>10. QED
  BY <1>1, <1>2, <1>3, <1>4, <1>5, <1>6, <1>7, <1>8, <1>9 DEF Next, DaemonStep, BroadcastStep

(* For any loops and clients: no loop under way is about to use a channel  *)
(* that its handler has closed (routes_core.go:50-60, sse.go:9-30).        *)
THEOREM NeverSendsOnClosedHolds == Spec => []NeverSendsOnClosed
<1>1. Shape => NeverSendsOnClosed
  BY DEF Shape, Position, NeverSendsOnClosed
<1>2. QED
  BY <1>1, InitShape, StepShape, PTL DEF Spec

-----------------------------------------------------------------------------
(* The order of what a client gets, part by part.                          *)

Ordered(s) == \A i, j \in DOMAIN s : i < j => Before(s[i], s[j])
Ahead(s, t) == \A i \in DOMAIN s, j \in DOMAIN t : Before(s[i], t[j])
Upto(s, b, m) == \A i \in DOMAIN s : s[i].type = "event" /\ s[i].by = b => s[i].n <= m

(* The number of the last event that loop b is done with for client c.     *)
Latest(b, c) == IF c \in todo[b] THEN sent[b] - 1 ELSE sent[b]

OrderInv ==
    \A c \in Clients :
        /\ Ordered(got[c]) /\ Ordered(buffer[c]) /\ Ahead(got[c], buffer[c])
        /\ \A b \in Loops : Upto(got[c], b, Latest(b, c)) /\ Upto(buffer[c], b, Latest(b, c))

LEMMA ItemsSeq ==
  ASSUME NEW s \in Seq(Items)
  PROVE  DOMAIN s = 1 .. Len(s) /\ Len(s) \in Nat /\ \A i \in DOMAIN s : s[i] \in Items
OBVIOUS

LEMMA ConcatItems ==
  ASSUME NEW g \in Seq(Items), NEW q \in Seq(Items)
  PROVE  /\ Len(g) \in Nat /\ Len(q) \in Nat /\ DOMAIN g = 1 .. Len(g) /\ DOMAIN q = 1 .. Len(q)
         /\ DOMAIN (g \o q) = 1 .. Len(g) + Len(q)
         /\ \A k \in 1 .. Len(g) + Len(q) : (g \o q)[k] = IF k <= Len(g) THEN g[k] ELSE q[k - Len(g)]
OBVIOUS

LEMMA ItemShape ==
  ASSUME NEW x \in Items
  PROVE  x.type = "event" => x.by \in Loops /\ x.n \in 1 .. MaxEvents
BY DEF Items, Overflow

LEMMA UptoMonotone ==
  ASSUME NEW s \in Seq(Items), NEW b, NEW m \in Int, NEW n \in Int, m <= n, Upto(s, b, m)
  PROVE  Upto(s, b, n)
<1> SUFFICES ASSUME NEW i \in DOMAIN s, s[i].type = "event", s[i].by = b PROVE s[i].n <= n
  BY DEF Upto
<1>1. s[i].n \in Int
  BY ItemsSeq, ItemShape, SseBounds
<1>2. s[i].n <= m
  BY DEF Upto
<1>3. QED
  BY <1>1, <1>2

(* An item goes behind all others.                                         *)
LEMMA AppendOrder ==
  ASSUME NEW s \in Seq(Items), NEW t \in Seq(Items), NEW x \in Items,
         Ordered(t), Ahead(s, t),
         \A i \in DOMAIN s : Before(s[i], x), \A i \in DOMAIN t : Before(t[i], x)
  PROVE  Ordered(Append(t, x)) /\ Ahead(s, Append(t, x))
<1>1. DOMAIN Append(t, x) = 1 .. Len(t) + 1 /\ DOMAIN t = 1 .. Len(t) /\ Len(t) \in Nat
  BY AppendItems, ItemsSeq
<1>2. \A i \in DOMAIN Append(t, x) : Append(t, x)[i] = IF i \in DOMAIN t THEN t[i] ELSE x
  BY <1>1, AppendItems
<1>3. \A i, j \in DOMAIN Append(t, x) : i < j => i \in DOMAIN t
  BY <1>1
<1>4. QED
  BY <1>2, <1>3 DEF Ordered, Ahead

LEMMA AppendUpto ==
  ASSUME NEW t \in Seq(Items), NEW x \in Items, NEW b, NEW m,
         Upto(t, b, m), x.type = "event" /\ x.by = b => x.n <= m
  PROVE  Upto(Append(t, x), b, m)
<1>1. DOMAIN Append(t, x) = 1 .. Len(t) + 1 /\ DOMAIN t = 1 .. Len(t) /\ Len(t) \in Nat
  BY AppendItems, ItemsSeq
<1>2. \A i \in DOMAIN Append(t, x) : Append(t, x)[i] = IF i \in DOMAIN t THEN t[i] ELSE x
  BY <1>1, AppendItems
<1>3. QED
  BY <1>2 DEF Upto

(* The first item goes.                                                    *)
LEMMA TailOrder ==
  ASSUME NEW s, NEW t \in Seq(Items), t # <<>>, Ordered(t), Ahead(s, t)
  PROVE  /\ Ordered(Tail(t)) /\ Ahead(s, Tail(t))
         /\ \A b, m : Upto(t, b, m) => Upto(Tail(t), b, m)
<1>1. /\ DOMAIN t = 1 .. Len(t) /\ Len(t) \in Nat \ {0}
      /\ DOMAIN Tail(t) = 1 .. Len(t) - 1
      /\ \A i \in DOMAIN Tail(t) : i + 1 \in DOMAIN t /\ Tail(t)[i] = t[i + 1]
  BY TailItems, ItemsSeq
<1>2. \A i, j \in DOMAIN Tail(t) : i < j => i + 1 < j + 1
  BY <1>1
<1>3. QED
  BY <1>1, <1>2 DEF Ordered, Ahead, Upto

(* The first item is passed on: behind the others, before the rest.        *)
LEMMA HeadOrder ==
  ASSUME NEW s \in Seq(Items), NEW t \in Seq(Items), t # <<>>,
         Ordered(s), Ordered(t), Ahead(s, t)
  PROVE  /\ Ordered(Append(s, Head(t))) /\ Ahead(Append(s, Head(t)), Tail(t))
         /\ \A b, m : Upto(s, b, m) /\ Upto(t, b, m) => Upto(Append(s, Head(t)), b, m)
<1>1. /\ DOMAIN t = 1 .. Len(t) /\ 1 \in DOMAIN t /\ Head(t) = t[1] /\ Head(t) \in Items
      /\ \A i \in DOMAIN Tail(t) : i + 1 \in DOMAIN t /\ Tail(t)[i] = t[i + 1] /\ 1 < i + 1
  BY TailItems, ItemsSeq
<1>2. \A i \in DOMAIN s : Before(s[i], Head(t))
  BY <1>1 DEF Ahead
<1>3. Ordered(Append(s, Head(t)))
  <2>1. Ahead(s, <<>>) /\ Ahead(<<>>, s) /\ <<>> \in Seq(Items)
    BY EmptySeq DEF Ahead
  <2>2. \A i \in DOMAIN <<>> : Before(<<>>[i], Head(t))
    BY EmptySeq
  <2>3. QED
    BY <1>1, <1>2, <2>1, <2>2, AppendOrder
<1>4. Ahead(Append(s, Head(t)), Tail(t))
  <2>1. \A j \in DOMAIN Tail(t) : Before(Head(t), Tail(t)[j])
    BY <1>1 DEF Ordered
  <2>2. \A i \in DOMAIN s, j \in DOMAIN Tail(t) : Before(s[i], Tail(t)[j])
    BY <1>1 DEF Ahead
  <2>3. DOMAIN Append(s, Head(t)) = 1 .. Len(s) + 1 /\ DOMAIN s = 1 .. Len(s) /\ Len(s) \in Nat
    BY <1>1, AppendItems, ItemsSeq
  <2>4. \A i \in DOMAIN Append(s, Head(t)) :
           Append(s, Head(t))[i] = IF i \in DOMAIN s THEN s[i] ELSE Head(t)
    BY <1>1, <2>3, AppendItems
  <2>5. QED
    BY <2>1, <2>2, <2>4 DEF Ahead
<1>5. ASSUME NEW b, NEW m, Upto(s, b, m), Upto(t, b, m) PROVE Upto(Append(s, Head(t)), b, m)
  BY <1>1, <1>5, AppendUpto DEF Upto
<1>6. QED
  BY <1>3, <1>4, <1>5

(* Where only the bounds move, they move up.                               *)
LEMMA OrderKept ==
  ASSUME Shape, Shape', OrderInv, UNCHANGED <<got, buffer>>,
         \A b \in Loops, c \in Clients : Latest(b, c) <= Latest(b, c)'
  PROVE  OrderInv'
<1>1. \A b \in Loops, c \in Clients : Latest(b, c) \in Int /\ Latest(b, c)' \in Int
  BY SseBounds DEF Shape, TypeOK, Latest
<1>2. \A c \in Clients : got[c] \in Seq(Items) /\ buffer[c] \in Seq(Items)
  BY DEF Shape, TypeOK
<1>3. \A c \in Clients, b \in Loops : /\ Upto(got[c], b, Latest(b, c)')
                                      /\ Upto(buffer[c], b, Latest(b, c)')
  BY <1>1, <1>2, UptoMonotone DEF OrderInv
<1>4. QED
  BY <1>3 DEF OrderInv

LEMMA StepOrder ==
  ASSUME Shape, Shape', OrderInv, [Next]_vars
  PROVE  OrderInv'
<1>1. \A c \in Clients : got[c] \in Seq(Items) /\ buffer[c] \in Seq(Items)
  BY DEF Shape, TypeOK
<1>2. \A b \in Loops : sent[b] \in Int /\ sent[b] - 1 <= sent[b] /\ sent[b] <= sent[b]
  BY SseBounds DEF Shape, TypeOK
<1>3. ASSUME NEW b \in Loops, Broadcast(b) PROVE OrderInv'
  <2>1. todo[b] = {} /\ sent'[b] = sent[b] + 1 /\ \A o \in Loops \ {b} : sent'[o] = sent[o] /\ todo'[o] = todo[o]
    BY <1>3 DEF Broadcast, Shape, Position, TypeOK
  <2>2. \A o \in Loops, c \in Clients : Latest(o, c) <= Latest(o, c)'
    BY <1>2, <2>1 DEF Latest
  <2>3. QED
    BY <1>3, <2>2, OrderKept DEF Broadcast
<1>4. ASSUME NEW b \in Loops, NEW c \in Clients, UNCHANGED sent, todo' = [todo EXCEPT ![b] = @ \ {c}]
      PROVE  \A o \in Loops, d \in Clients : Latest(o, d) <= Latest(o, d)'
  <2>1. \A o \in Loops : todo'[o] \subseteq todo[o] /\ sent'[o] = sent[o]
    BY <1>4 DEF Shape, TypeOK
  <2>2. QED
    BY <1>2, <2>1 DEF Latest
<1>5. ASSUME UNCHANGED <<sent, todo>>
      PROVE  \A o \in Loops, d \in Clients : Latest(o, d)' = Latest(o, d) /\ Latest(o, d) <= Latest(o, d)'
  BY <1>2, <1>5 DEF Latest
<1>6. ASSUME NEW b \in Loops, NEW c \in Clients, TrySend(b, c) PROVE OrderInv'
  <2>1. CASE UNCHANGED <<buffer, todo>>
    BY <1>5, <1>6, <2>1, OrderKept DEF TrySend
  <2>2. CASE /\ buffer' = [buffer EXCEPT ![c] = Append(@, Event(b))]
             /\ todo' = [todo EXCEPT ![b] = @ \ {c}]
    <3>1. UNCHANGED <<sent, got>> /\ c \in todo[b] /\ Event(b) \in Items
      BY <1>6, EventItem, StepShapes DEF TrySend
    <3>2. \A o \in Loops, d \in Clients : /\ Latest(o, d) \in Int /\ Latest(o, d)' \in Int
                                          /\ Latest(o, d) <= Latest(o, d)'
      BY <1>4, <2>2, <3>1, SseBounds DEF Shape, TypeOK, Latest
    <3>3. \A o \in Loops, d \in Clients : /\ Upto(got[d], o, Latest(o, d)')
                                          /\ Upto(buffer[d], o, Latest(o, d)')
      BY <1>1, <3>2, UptoMonotone DEF OrderInv
    <3>4. /\ Upto(got[c], b, sent[b] - 1) /\ Upto(buffer[c], b, sent[b] - 1)
          /\ Latest(b, c)' = sent[b]
      BY <2>2, <3>1 DEF OrderInv, Latest, Shape, TypeOK
    <3>5. ASSUME NEW s \in Seq(Items), Upto(s, b, sent[b] - 1)
          PROVE  \A i \in DOMAIN s : Before(s[i], Event(b))
      <4> SUFFICES ASSUME NEW i \in DOMAIN s, s[i].type = "event", s[i].by = b
                   PROVE  s[i].n < sent[b]
        BY DEF Before, Event
      <4>1. s[i].n \in Int /\ s[i].n <= sent[b] - 1
        BY <3>5, ItemsSeq, ItemShape, SseBounds DEF Upto
      <4>2. QED
        BY <1>2, <4>1
    <3>6. Ordered(Append(buffer[c], Event(b))) /\ Ahead(got[c], Append(buffer[c], Event(b)))
      BY <1>1, <3>1, <3>4, <3>5, AppendOrder DEF OrderInv
    <3>7. \A o \in Loops : Upto(Append(buffer[c], Event(b)), o, Latest(o, c)')
      <4> TAKE o \in Loops
      <4>1. Event(b).type = "event" /\ Event(b).by = o => Event(b).n <= Latest(o, c)'
        BY <1>2, <3>4 DEF Event
      <4>2. QED
        BY <1>1, <3>1, <3>3, <4>1, AppendUpto
    <3>8. \A d \in Clients : /\ got'[d] = got[d]
                             /\ buffer'[d] = IF d = c THEN Append(buffer[c], Event(b)) ELSE buffer[d]
      BY <2>2, <3>1 DEF Shape, TypeOK
    <3>9. QED
      BY <3>3, <3>6, <3>7, <3>8 DEF OrderInv
  <2>3. QED
    BY <1>6, <2>1, <2>2 DEF TrySend
<1>7. ASSUME NEW b \in Loops, NEW c \in Clients, DropOldest(b, c) PROVE OrderInv'
  <2>1. UNCHANGED <<got, todo, sent>>
    BY <1>7 DEF DropOldest
  <2>2. CASE buffer[c] = <<>>
    <3>1. buffer' = buffer
      BY <1>7, <2>2 DEF DropOldest, Shape, TypeOK
    <3>2. QED
      BY <1>5, <2>1, <3>1, OrderKept
  <2>3. CASE buffer[c] # <<>>
    <3>1. \A d \in Clients : buffer'[d] = IF d = c THEN Tail(buffer[c]) ELSE buffer[d]
      BY <1>7, <2>3 DEF DropOldest, Shape, TypeOK
    <3>2. /\ Ordered(Tail(buffer[c])) /\ Ahead(got[c], Tail(buffer[c]))
          /\ \A o \in Loops : Upto(Tail(buffer[c]), o, Latest(o, c))
      BY <1>1, <2>3, TailOrder DEF OrderInv
    <3>3. QED
      BY <1>5, <2>1, <3>1, <3>2 DEF OrderInv
  <2>4. QED
    BY <2>2, <2>3
<1>8. ASSUME NEW b \in Loops, NEW c \in Clients, TryWarn(b, c) PROVE OrderInv'
  <2>1. UNCHANGED <<got, sent>> /\ todo' = [todo EXCEPT ![b] = @ \ {c}]
    BY <1>8 DEF TryWarn
  <2>2. CASE UNCHANGED buffer
    BY <1>4, <2>1, <2>2, OrderKept
  <2>3. CASE buffer' = [buffer EXCEPT ![c] = Append(@, Overflow)]
    <3>1. Overflow \in Items /\ Overflow.type # "event"
      BY DEF Overflow, Items
    <3>2. \A o \in Loops, d \in Clients : /\ Latest(o, d) \in Int /\ Latest(o, d)' \in Int
                                          /\ Latest(o, d) <= Latest(o, d)'
      BY <1>4, <2>1, SseBounds DEF Shape, TypeOK, Latest
    <3>3. \A o \in Loops, d \in Clients : /\ Upto(got[d], o, Latest(o, d)')
                                          /\ Upto(buffer[d], o, Latest(o, d)')
      BY <1>1, <3>2, UptoMonotone DEF OrderInv
    <3>4. Ordered(Append(buffer[c], Overflow)) /\ Ahead(got[c], Append(buffer[c], Overflow))
      BY <1>1, <3>1, AppendOrder DEF OrderInv, Before
    <3>5. \A o \in Loops : Upto(Append(buffer[c], Overflow), o, Latest(o, c)')
      BY <1>1, <3>1, <3>3, AppendUpto
    <3>6. \A d \in Clients : /\ got'[d] = got[d]
                             /\ buffer'[d] = IF d = c THEN Append(buffer[c], Overflow) ELSE buffer[d]
      BY <2>1, <2>3 DEF Shape, TypeOK
    <3>7. QED
      BY <3>3, <3>4, <3>5, <3>6 DEF OrderInv
  <2>4. QED
    BY <1>8, <2>2, <2>3 DEF TryWarn, Shape, TypeOK
<1>9. ASSUME NEW c \in Clients, Deliver(c) PROVE OrderInv'
  <2>1. UNCHANGED <<todo, sent>> /\ buffer[c] # <<>>
    BY <1>9 DEF Deliver
  <2>2. \A d \in Clients :
           /\ buffer'[d] = IF d = c THEN Tail(buffer[c]) ELSE buffer[d]
           /\ got'[d] = IF d = c THEN Append(got[c], Head(buffer[c])) ELSE got[d]
    BY <1>9 DEF Deliver, Shape, TypeOK
  <2>3. /\ Ordered(Tail(buffer[c]))
        /\ \A o \in Loops : Upto(Tail(buffer[c]), o, Latest(o, c))
    BY <1>1, <2>1, TailOrder DEF OrderInv
  <2>4. /\ Ordered(Append(got[c], Head(buffer[c])))
        /\ Ahead(Append(got[c], Head(buffer[c])), Tail(buffer[c]))
        /\ \A o \in Loops : Upto(Append(got[c], Head(buffer[c])), o, Latest(o, c))
    BY <1>1, <2>1, HeadOrder DEF OrderInv
  <2>5. QED
    BY <1>5, <2>1, <2>2, <2>3, <2>4 DEF OrderInv
<1>10. ASSUME NEW b \in Loops, BroadcastEnd(b) PROVE OrderInv'
  BY <1>5, <1>10, OrderKept DEF BroadcastEnd
<1>11. ASSUME NEW c \in Clients, Connect(c) \/ Register(c) \/ Disconnect(c) \/ Unregister(c)
       PROVE  OrderInv'
  BY <1>5, <1>11, OrderKept DEF Connect, Register, Disconnect, Unregister
<1>12. CASE UNCHANGED vars
  BY <1>5, <1>12, OrderKept DEF vars
<1>13. QED
  BY <1>3, <1>6, <1>7, <1>8, <1>9, <1>10, <1>11, <1>12 DEF Next, DaemonStep, BroadcastStep

LEMMA InitOrder == Init => OrderInv
BY EmptySeq DEF Init, OrderInv, Ordered, Ahead, Upto

(* For any loops and clients: what a client has seen or will see of a loop *)
(* is in the order the loop sent it, nothing twice (sse.go:9-30).          *)
THEOREM InOrderHolds == Spec => []InOrder
<1>1. Init => OrderInv
  BY InitOrder
<1>2. Shape /\ OrderInv => InOrder
  <2> SUFFICES ASSUME Shape, OrderInv, NEW c \in Clients,
                      NEW i \in DOMAIN (got[c] \o buffer[c]),
                      NEW j \in DOMAIN (got[c] \o buffer[c]), i < j
               PROVE  Before((got[c] \o buffer[c])[i], (got[c] \o buffer[c])[j])
    BY DEF InOrder
  <2> DEFINE g == got[c]
             q == buffer[c]
  <2>1. g \in Seq(Items) /\ q \in Seq(Items)
    BY DEF Shape, TypeOK
  <2>2. /\ Len(g) \in Nat /\ Len(q) \in Nat /\ DOMAIN g = 1 .. Len(g) /\ DOMAIN q = 1 .. Len(q)
        /\ DOMAIN (g \o q) = 1 .. Len(g) + Len(q)
        /\ \A k \in 1 .. Len(g) + Len(q) : (g \o q)[k] = IF k <= Len(g) THEN g[k] ELSE q[k - Len(g)]
    BY <2>1, ConcatItems
  <2>3. Ordered(g) /\ Ordered(q) /\ Ahead(g, q)
    BY DEF OrderInv
  <2>4. i \in 1 .. Len(g) + Len(q) /\ j \in 1 .. Len(g) + Len(q)
    BY <2>2
  <2> HIDE DEF g, q
  <2>5. CASE j <= Len(g)
    <3>1. i \in DOMAIN g /\ j \in DOMAIN g /\ (g \o q)[i] = g[i] /\ (g \o q)[j] = g[j]
      BY <2>2, <2>4, <2>5
    <3>2. QED
      BY <2>3, <3>1 DEF Ordered, g, q
  <2>6. CASE i <= Len(g) /\ ~(j <= Len(g))
    <3>1. /\ i \in DOMAIN g /\ j - Len(g) \in DOMAIN q
          /\ (g \o q)[i] = g[i] /\ (g \o q)[j] = q[j - Len(g)]
      BY <2>2, <2>4, <2>6
    <3>2. QED
      BY <2>3, <3>1 DEF Ahead, g, q
  <2>7. CASE ~(i <= Len(g))
    <3>1. /\ i - Len(g) \in DOMAIN q /\ j - Len(g) \in DOMAIN q /\ i - Len(g) < j - Len(g)
          /\ (g \o q)[i] = q[i - Len(g)] /\ (g \o q)[j] = q[j - Len(g)]
      BY <2>2, <2>4, <2>7
    <3>2. QED
      BY <2>3, <3>1 DEF Ordered, g, q
  <2>8. QED
    BY <2>2, <2>4, <2>5, <2>6, <2>7
<1>3. QED
  BY <1>1, <1>2, InitShape, StepShape, StepOrder, PTL DEF Spec

-----------------------------------------------------------------------------
(* A loss is announced, unless two loops handle one overflow.              *)

Handling(b, c, s) == at[b].step = s /\ at[b].client = c

(* The loop about to warn c made room for its warning.                     *)
Room(c) == \A b \in Loops : Handling(b, c, "warn") => Len(buffer[c]) < BufferCap

LossInv == \A c \in Clients : c \in raced \/ (Warned(c) /\ Room(c))

LEMMA TouchAlone ==
  ASSUME TypeOK, NEW b \in Loops, NEW c \in Clients, Touch(b, c)
  PROVE  /\ \A d \in Clients : d \in raced => d \in raced'
         /\ c \notin raced' => \A o \in Loops \ {b} : ~Handling(o, c, "drop") /\ ~Handling(o, c, "warn")
BY DEF Touch, TypeOK, Handling

(* Whoever lost an item on no other grounds than before keeps its warning. *)
LEMMA LossKept ==
  ASSUME TypeOK, NEW c \in Clients, c \in raced \/ (Warned(c) /\ Room(c)),
         buffer'[c] = buffer[c], c \in owed' => c \in owed, c \in raced => c \in raced',
         \A o \in Loops, s \in {"drop", "warn"} : Handling(o, c, s)' <=> Handling(o, c, s)
  PROVE  c \in raced' \/ (Warned(c)' /\ Room(c)')
BY DEF Warned, Room, Handling

(* A step at another client's channel changes nothing here.                *)
LEMMA LossElsewhere ==
  ASSUME Shape, LossInv, NEW b \in Loops, NEW c \in Clients, NEW d \in Clients, d # c, Touch(b, c),
         buffer'[d] = buffer[d], d \in owed' => d \in owed,
         \A o \in Loops \ {b} : at'[o] = at[o],
         at[b] = Next1 \/ at[b].client = c, at'[b] = Next1 \/ at'[b].client = c
  PROVE  d \in raced' \/ (Warned(d)' /\ Room(d)')
<1>1. \A o \in Loops, s \in {"drop", "warn"} : Handling(o, d, s)' <=> Handling(o, d, s)
  BY DEF Handling, Next1
<1>2. d \in raced => d \in raced'
  BY TouchAlone DEF Shape
<1>3. QED
  BY <1>1, <1>2, LossKept DEF Shape, LossInv

LEMMA StepLoss ==
  ASSUME Shape, LossInv, [Next]_vars
  PROVE  LossInv'
<1>1. \A c \in Clients : buffer[c] \in Seq(Items) /\ Len(buffer[c]) \in Nat /\ Len(buffer[c]) <= BufferCap
  BY ItemsSeq DEF Shape, TypeOK
<1>2. ASSUME UNCHANGED <<buffer, owed, raced>>,
             \A o \in Loops, c \in Clients, s \in {"drop", "warn"} : Handling(o, c, s)' <=> Handling(o, c, s)
      PROVE  LossInv'
  BY <1>2, LossKept DEF Shape, LossInv
<1>3. ASSUME NEW b \in Loops, NEW c \in Clients, TrySend(b, c) PROVE LossInv'
  <2>1. Touch(b, c) /\ at[b] = Next1 /\ \A d \in Clients \ {c} : buffer'[d] = buffer[d]
    BY <1>3 DEF TrySend, Shape, TypeOK
  <2>2. CASE /\ buffer' = [buffer EXCEPT ![c] = Append(@, Event(b))]
             /\ UNCHANGED <<at, owed>>
    <3>1. \A d \in Clients \ {c} : d \in raced' \/ (Warned(d)' /\ Room(d)')
      BY <2>1, <2>2, LossElsewhere
    <3>2. ASSUME c \notin raced' PROVE Warned(c)' /\ Room(c)'
      <4>1. c \notin raced /\ \A o \in Loops, s \in {"drop", "warn"} : ~Handling(o, c, s)
        BY <2>1, <3>2, TouchAlone DEF Shape, Handling, Next1
      <4>2. Room(c)'
        BY <2>2, <4>1 DEF Room, Handling
      <4>3. c \notin owed \/ \E k \in DOMAIN buffer[c] : buffer[c][k] = Overflow
        BY <4>1 DEF LossInv, Warned, Handling
      <4>4. Event(b) \in Items /\ buffer'[c] = Append(buffer[c], Event(b))
        BY <2>1, <2>2, EventItem, StepShapes DEF Shape, TypeOK
      <4>5. \A k \in DOMAIN buffer[c] : k \in DOMAIN buffer'[c] /\ buffer'[c][k] = buffer[c][k]
        BY <1>1, <4>4, AppendItems, ItemsSeq
      <4>6. QED
        BY <2>2, <4>2, <4>3, <4>5 DEF Warned
    <3>3. QED
      BY <3>1, <3>2 DEF LossInv
  <2>3. CASE /\ at' = [at EXCEPT ![b] = [step |-> "drop", client |-> c]]
             /\ owed' = owed \cup {c}
             /\ UNCHANGED <<buffer, todo>>
    <3>1. at'[b] = [step |-> "drop", client |-> c] /\ \A o \in Loops \ {b} : at'[o] = at[o]
      BY <2>3 DEF Shape, TypeOK
    <3>2. \A d \in Clients \ {c} : d \in raced' \/ (Warned(d)' /\ Room(d)')
      BY <2>1, <2>3, <3>1, LossElsewhere
    <3>3. ASSUME c \notin raced' PROVE Warned(c)' /\ Room(c)'
      <4>1. \A o \in Loops \ {b} : ~Handling(o, c, "warn")
        BY <2>1, <3>3, TouchAlone DEF Shape
      <4>2. QED
        BY <3>1, <4>1 DEF Warned, Room, Handling
    <3>4. QED
      BY <3>2, <3>3 DEF LossInv
  <2>4. QED
    BY <1>3, <2>2, <2>3 DEF TrySend
<1>4. ASSUME NEW b \in Loops, NEW c \in Clients, DropOldest(b, c) PROVE LossInv'
  <2>1. Touch(b, c) /\ owed' = owed /\ at[b].client = c /\ \A d \in Clients \ {c} : buffer'[d] = buffer[d]
    BY <1>4 DEF DropOldest, Shape, TypeOK
  <2>2. at'[b] = [step |-> "warn", client |-> c] /\ \A o \in Loops \ {b} : at'[o] = at[o]
    BY <1>4, DropToWarn DEF Shape, TypeOK
  <2>3. \A d \in Clients \ {c} : d \in raced' \/ (Warned(d)' /\ Room(d)')
    BY <2>1, <2>2, LossElsewhere
  <2>4. Warned(c)'
    BY <2>2 DEF Warned
  <2>5. Len(buffer'[c]) < BufferCap
    <3>1. buffer'[c] = IF buffer[c] = <<>> THEN buffer[c] ELSE Tail(buffer[c])
      BY <1>4 DEF DropOldest, Shape, TypeOK
    <3>2. CASE buffer[c] = <<>>
      BY <3>1, <3>2, EmptySeq, SseBounds
    <3>3. CASE buffer[c] # <<>>
      BY <1>1, <3>1, <3>3, TailItems, SseBounds
    <3>4. QED
      BY <3>2, <3>3
  <2>6. QED
    BY <2>3, <2>4, <2>5 DEF LossInv, Room
<1>5. ASSUME NEW b \in Loops, NEW c \in Clients, TryWarn(b, c) PROVE LossInv'
  <2>1. /\ Touch(b, c) /\ owed' = owed /\ Handling(b, c, "warn") /\ at'[b] = Next1
        /\ \A o \in Loops \ {b} : at'[o] = at[o]
        /\ \A d \in Clients \ {c} : buffer'[d] = buffer[d]
    BY <1>5 DEF TryWarn, Shape, TypeOK, Handling
  <2>2. \A d \in Clients \ {c} : d \in raced' \/ (Warned(d)' /\ Room(d)')
    BY <2>1, LossElsewhere DEF Handling
  <2>3. ASSUME c \notin raced' PROVE Warned(c)' /\ Room(c)'
    <3>1. c \notin raced /\ \A o \in Loops \ {b} : ~Handling(o, c, "warn")
      BY <2>1, <2>3, TouchAlone DEF Shape
    <3>2. Room(c)'
      BY <2>1, <3>1 DEF Room, Handling, Next1
    <3>3. Len(buffer[c]) < BufferCap
      BY <2>1, <3>1 DEF LossInv, Room
    <3>4. buffer'[c] = Append(buffer[c], Overflow) /\ Overflow \in Items
      BY <1>5, <3>3 DEF TryWarn, Shape, TypeOK, Items
    <3>5. Len(buffer[c]) + 1 \in DOMAIN buffer'[c] /\ buffer'[c][Len(buffer[c]) + 1] = Overflow
      BY <1>1, <3>4, AppendItems, ItemsSeq
    <3>6. QED
      BY <3>2, <3>5 DEF Warned
  <2>4. QED
    BY <2>2, <2>3 DEF LossInv
<1>6. ASSUME NEW c \in Clients, Deliver(c) PROVE LossInv'
  <2>1. /\ UNCHANGED <<at, raced>> /\ buffer[c] # <<>> /\ buffer'[c] = Tail(buffer[c])
        /\ owed' = IF Head(buffer[c]) = Overflow THEN owed \ {c} ELSE owed
        /\ \A d \in Clients \ {c} : buffer'[d] = buffer[d]
    BY <1>6 DEF Deliver, Shape, TypeOK
  <2>2. \A d \in Clients \ {c} : d \in raced' \/ (Warned(d)' /\ Room(d)')
    BY <2>1, LossKept DEF Shape, LossInv, Handling
  <2>3. ASSUME c \notin raced PROVE Warned(c)' /\ Room(c)'
    <3>1. Len(Tail(buffer[c])) <= Len(buffer[c]) /\ Len(Tail(buffer[c])) \in Nat
      BY <1>1, <2>1, TailItems
    <3>2. Room(c)'
      BY <1>1, <2>1, <2>3, <3>1, SseBounds DEF LossInv, Room, Handling
    <3>3. CASE Head(buffer[c]) = Overflow
      BY <2>1, <3>2, <3>3 DEF Warned
    <3>4. ASSUME NEW k \in DOMAIN buffer[c], buffer[c][k] = Overflow, Head(buffer[c]) # Overflow
          PROVE  \E j \in DOMAIN buffer'[c] : buffer'[c][j] = Overflow
      <4>1. k \in 1 .. Len(buffer[c]) /\ k # 1
        BY <1>1, <2>1, <3>4, TailItems, ItemsSeq
      <4>2. k - 1 \in 1 .. Len(Tail(buffer[c])) /\ Tail(buffer[c])[k - 1] = Overflow
        BY <1>1, <2>1, <3>4, <4>1, TailItems
      <4>3. QED
        BY <1>1, <2>1, <4>2, TailItems, ItemsSeq
    <3>5. QED
      BY <2>1, <2>3, <3>2, <3>3, <3>4 DEF LossInv, Warned
  <2>4. QED
    BY <2>1, <2>2, <2>3 DEF LossInv
<1>7. ASSUME NEW b \in Loops, Broadcast(b) \/ BroadcastEnd(b) PROVE LossInv'
  <2>1. /\ UNCHANGED <<buffer, owed, raced>> /\ at[b].step \notin {"drop", "warn"}
        /\ at'[b].step \notin {"drop", "warn"} /\ \A o \in Loops \ {b} : at'[o] = at[o]
    BY <1>7 DEF Broadcast, BroadcastEnd, Shape, TypeOK, Idle, Next1
  <2>2. QED
    BY <1>2, <2>1 DEF Handling
<1>8. ASSUME NEW c \in Clients, Connect(c) \/ Register(c) \/ Disconnect(c) \/ Unregister(c)
      PROVE  LossInv'
  BY <1>2, <1>8 DEF Connect, Register, Disconnect, Unregister, Handling
<1>9. CASE UNCHANGED vars
  BY <1>2, <1>9 DEF vars, Handling
<1>10. QED
  BY <1>3, <1>4, <1>5, <1>6, <1>7, <1>8, <1>9 DEF Next, DaemonStep, BroadcastStep

(* For any loops and clients: who lost an item is told, unless two loops   *)
(* stepped through the overflow of its channel at once (sse.go:15-28).     *)
THEOREM LossAnnouncedHolds == Spec => []LossAnnounced
<1>1. Init => LossInv
  BY DEF Init, LossInv, Warned, Room, Handling, Idle
<1>2. LossInv => LossAnnounced
  BY DEF LossInv, LossAnnounced
<1>3. QED
  BY <1>1, <1>2, InitShape, StepShape, StepLoss, PTL DEF Spec

-----------------------------------------------------------------------------
(* GuestEvents implements SseBroadcast.                                    *)

LEMMA GuestStepIsBroadcastStep == [GuestNext]_allVars => [Next]_vars
<1> SUFFICES ASSUME [GuestNext]_allVars PROVE [Next]_vars
  OBVIOUS
<1>1. CASE Receive
  BY <1>1, GuestBounds DEF Receive, Next
<1>2. CASE Callback \/ CallbackReturns \/ SkipEvent \/ FlushEnd \/ HostCall
  BY <1>2 DEF Callback, CallbackReturns, SkipEvent, FlushEnd, HostCall
<1>3. ASSUME NEW k \in Kinds, RegisterListener(k) PROVE [Next]_vars
  BY <1>3 DEF RegisterListener
<1>4. CASE DaemonStep
  BY <1>4 DEF Next
<1>5. CASE UNCHANGED allVars
  BY <1>5 DEF allVars
<1>6. QED
  BY <1>1, <1>2, <1>3, <1>4, <1>5 DEF GuestNext, GuestStep

(* Whatever the guest does, from its callbacks too, the broadcast goes its *)
(* way: registering, calling the host and flushing take no step of it, and *)
(* reading the stream is a delivery (runtime.go:85-131, sse.go:6-33).      *)
THEOREM ImplementsBroadcast == GuestSpec => Spec
<1>1. GuestInit => Init
  BY DEF GuestInit
<1>2. QED
  BY <1>1, GuestStepIsBroadcastStep, PTL DEF GuestSpec, Spec

(* What is proved of the broadcast holds with a guest at the other end.    *)
COROLLARY InOrderForGuest == GuestSpec => []InOrder
BY ImplementsBroadcast, InOrderHolds, PTL

(* A loss is announced to the runtime unless two loops were at its channel *)
(* at once (sse.go:15-28).                                                 *)
COROLLARY LossAnnouncedToGuest == GuestSpec => []LossAnnounced
BY ImplementsBroadcast, LossAnnouncedHolds, PTL

(* The end of a run closes no channel under a broadcast (sse.go:9-30).     *)
COROLLARY NeverSendsOnClosedToGuest == GuestSpec => []NeverSendsOnClosed
BY ImplementsBroadcast, NeverSendsOnClosedHolds, PTL

-----------------------------------------------------------------------------
(* The guest's side.  What waits for the guest stands in a line: the       *)
(* flushes from the outermost in, then eventBuffer.                        *)

Calls == [event : Items \ {Overflow}, depth : Nat]
Frames == [events : Seq(Items), enabled : SUBSET Kinds, calling : BOOLEAN, again : BOOLEAN]

GuestShape ==
    /\ eventBuffer \in Seq(Items) /\ enabled \in SUBSET Kinds
    /\ flushes \in Seq(Frames)
    /\ called \in Seq(Calls)
    /\ heard \in SUBSET (Items \ {Overflow})

(* All of it came over the stream.                                         *)
Seen(e) == \E i \in DOMAIN got[Runtime] : got[Runtime][i] = e
AllSeen ==
    /\ \A i \in DOMAIN eventBuffer : Seen(eventBuffer[i])
    /\ \A d \in DOMAIN flushes : \A i \in DOMAIN flushes[d].events : Seen(flushes[d].events[i])
    /\ \A j \in DOMAIN called : Seen(called[j].event)

(* The line is in the order of the loops.                                  *)
LineOrdered ==
    /\ Ordered(eventBuffer)
    /\ \A d \in DOMAIN flushes : /\ Ordered(flushes[d].events)
                                 /\ Ahead(flushes[d].events, eventBuffer)
    /\ \A d, q \in DOMAIN flushes : d < q => Ahead(flushes[d].events, flushes[q].events)

(* A callback made may be called x in front of event e of a flush at       *)
(* depth d: x is earlier, or was called from further in.                   *)
MayPrecede(x, e, d) ==
    x.event.by = e.by => \/ x.event.n < e.n
                         \/ x.event.n > e.n /\ x.depth > d

(* What was called agrees with what waits.                                 *)
CalledFirst ==
    \A j \in DOMAIN called :
        /\ \A i \in DOMAIN eventBuffer : Before(called[j].event, eventBuffer[i])
        /\ \A d \in DOMAIN flushes : \A i \in DOMAIN flushes[d].events :
               flushes[d].events[i] # Overflow => MayPrecede(called[j], flushes[d].events[i], d)

(* A flush wants the events it holds that had a listener.                  *)
HeardWanted ==
    /\ \A e \in heard : Kind(e) \in enabled
    /\ \A d \in DOMAIN flushes : \A i \in DOMAIN flushes[d].events :
           flushes[d].events[i] \in heard => Kind(flushes[d].events[i]) \in flushes[d].enabled

GuestInv ==
    /\ GuestShape /\ AllSeen /\ LineOrdered /\ CalledFirst /\ HeardWanted
    /\ GuestInOrder /\ GuestMissesNothing

LEMMA FlushFields ==
  ASSUME NEW ev \in Seq(Items), NEW ks \in SUBSET Kinds, NEW calling \in BOOLEAN, NEW again \in BOOLEAN
  PROVE  /\ Flush(ev, ks, calling, again) \in Frames
         /\ Flush(ev, ks, calling, again).events = ev /\ Flush(ev, ks, calling, again).enabled = ks
BY DEF Flush, Frames

LEMMA GuestSeqs ==
  ASSUME GuestShape
  PROVE  /\ DOMAIN eventBuffer = 1 .. Len(eventBuffer) /\ Len(eventBuffer) \in Nat
         /\ DOMAIN flushes = 1 .. Len(flushes) /\ Len(flushes) \in Nat
         /\ DOMAIN called = 1 .. Len(called) /\ Len(called) \in Nat
         /\ \A i \in DOMAIN eventBuffer : eventBuffer[i] \in Items
         /\ \A d \in DOMAIN flushes : /\ flushes[d] \in Frames /\ flushes[d].events \in Seq(Items)
                                      /\ flushes[d].enabled \in SUBSET Kinds
                                      /\ flushes[d].again \in BOOLEAN
         /\ \A j \in DOMAIN called : /\ called[j].event \in Items \ {Overflow} /\ called[j].depth \in Nat
                                     /\ called[j].event.type = "event" /\ called[j].event.n \in Nat
<1>1. \A j \in DOMAIN called : called[j] \in Calls
  BY LenProperties, ElementOfSeq DEF GuestShape
<1>2. \A x \in Items \ {Overflow} : x.type = "event" /\ x.n \in Nat
  BY SseBounds DEF Items
<1>3. \A d \in DOMAIN flushes : flushes[d] \in Frames
  BY LenProperties, ElementOfSeq DEF GuestShape
<1>4. \A i \in DOMAIN eventBuffer : eventBuffer[i] \in Items
  BY LenProperties, ElementOfSeq DEF GuestShape
<1>5. \A d \in DOMAIN flushes : /\ flushes[d].events \in Seq(Items)
                                 /\ flushes[d].enabled \in SUBSET Kinds
                                 /\ flushes[d].again \in BOOLEAN
  BY <1>3 DEF Frames
<1>6. /\ DOMAIN eventBuffer = 1 .. Len(eventBuffer) /\ Len(eventBuffer) \in Nat
      /\ DOMAIN flushes = 1 .. Len(flushes) /\ Len(flushes) \in Nat
      /\ DOMAIN called = 1 .. Len(called) /\ Len(called) \in Nat
  BY LenProperties DEF GuestShape
<1>7. \A j \in DOMAIN called : called[j].event \in Items \ {Overflow} /\ called[j].depth \in Nat
  BY <1>1 DEF Calls
<1>8. QED
  BY <1>2, <1>3, <1>4, <1>5, <1>6, <1>7

(* What the guest's own steps leave alone.                                 *)
LEMMA SeenKept == \A e : UNCHANGED vars => (Seen(e)' <=> Seen(e))
BY DEF vars, Seen

-----------------------------------------------------------------------------
(* A flush begins, above the others or in place of the one that has ended. *)

Remains(below) ==
    /\ below \in Seq(Frames)
    /\ DOMAIN below \subseteq DOMAIN flushes
    /\ \A d \in DOMAIN below : below[d] = flushes[d]
    /\ \A d \in DOMAIN flushes \ DOMAIN below : DOMAIN flushes[d].events = {}

LEMMA PopKeeps ==
  ASSUME GuestInv, Remains(flushes'), UNCHANGED vars,
         UNCHANGED <<eventBuffer, enabled, called, heard>>
  PROVE  GuestInv'
<1>1. /\ GuestShape /\ AllSeen /\ LineOrdered /\ CalledFirst /\ HeardWanted
      /\ GuestInOrder /\ GuestMissesNothing
  BY DEF GuestInv
<1>2. /\ DOMAIN flushes' \subseteq DOMAIN flushes
      /\ \A d \in DOMAIN flushes' : flushes'[d] = flushes[d]
      /\ \A d \in DOMAIN flushes \ DOMAIN flushes' : DOMAIN flushes[d].events = {}
  BY DEF Remains
<1>3. GuestShape'
  BY <1>1 DEF Remains, GuestShape
<1>4. AllSeen' /\ LineOrdered' /\ CalledFirst' /\ HeardWanted' /\ GuestInOrder'
  BY <1>1, <1>2, SeenKept DEF AllSeen, LineOrdered, CalledFirst, HeardWanted, GuestInOrder
<1>5. GuestMissesNothing'
  BY <1>1, <1>2 DEF GuestMissesNothing, Range
<1>6. QED
  BY <1>3, <1>4, <1>5 DEF GuestInv

LEMMA FlushKeeps ==
  ASSUME GuestInv, NEW below, Remains(below), NEW again \in BOOLEAN, flushEvents(below, again),
         UNCHANGED vars, UNCHANGED <<enabled, called, heard>>
  PROVE  GuestInv'
<1>1. /\ GuestShape /\ AllSeen /\ LineOrdered /\ CalledFirst /\ HeardWanted
      /\ GuestInOrder /\ GuestMissesNothing
  BY DEF GuestInv
<1>2. CASE enabled = {}
  BY <1>2, PopKeeps DEF flushEvents
<1>3. CASE enabled # {}
  <2> DEFINE top == Flush(eventBuffer, enabled, FALSE, again)
             t == Len(below) + 1
  <2>1. flushes' = Append(below, top) /\ eventBuffer' = <<>>
    BY <1>3 DEF flushEvents, BufferTaken
  <2>2. top \in Frames /\ top.events = eventBuffer /\ top.enabled = enabled
    BY <1>1, FlushFields DEF GuestShape
  <2> HIDE DEF top
  <2>3. /\ flushes' \in Seq(Frames) /\ DOMAIN flushes' = 1 .. t
        /\ DOMAIN below = 1 .. Len(below) /\ Len(below) \in Nat /\ flushes'[t] = top
        /\ \A d \in DOMAIN below : flushes'[d] = flushes[d]
    BY <2>1, <2>2, AppendProperties, LenProperties DEF Remains
  <2>4. /\ DOMAIN flushes' = DOMAIN below \cup {t} /\ t \notin DOMAIN below
        /\ DOMAIN below \subseteq DOMAIN flushes
        /\ \A d \in DOMAIN flushes' : d # t => d < t /\ ~(t < d)
        /\ ~(t < t) /\ t \in Int
    BY <2>3 DEF Remains
  <2>5. DOMAIN eventBuffer' = {} /\ eventBuffer' \in Seq(Items)
    BY <2>1, EmptySeq
  <2> HIDE DEF t
  <2>6. GuestShape'
    BY <1>1, <2>3, <2>5 DEF GuestShape
  <2>7. AllSeen'
    BY <1>1, <2>2, <2>3, <2>4, <2>5, SeenKept DEF AllSeen
  <2>8. LineOrdered'
    <3>1. Ordered(eventBuffer')
      BY <2>5 DEF Ordered
    <3>2. ASSUME NEW d \in DOMAIN flushes'
          PROVE  Ordered(flushes'[d].events) /\ Ahead(flushes'[d].events, eventBuffer')
      <4>1. Ahead(flushes'[d].events, eventBuffer')
        BY <2>5 DEF Ahead
      <4>2. Ordered(flushes'[d].events)
        BY <1>1, <2>2, <2>3, <2>4 DEF LineOrdered
      <4>3. QED
        BY <4>1, <4>2
    <3>3. ASSUME NEW d \in DOMAIN flushes', NEW q \in DOMAIN flushes', d < q
          PROVE  Ahead(flushes'[d].events, flushes'[q].events)
      <4>1. d # t
        BY <2>4, <3>3
      <4>2. d \in DOMAIN below /\ d \in DOMAIN flushes /\ flushes'[d] = flushes[d]
        BY <2>3, <2>4, <4>1
      <4>3. CASE q = t
        BY <1>1, <2>2, <2>3, <4>2, <4>3 DEF LineOrdered
      <4>4. CASE q # t
        BY <1>1, <2>3, <2>4, <3>3, <4>2, <4>4 DEF LineOrdered
      <4>5. QED
        BY <4>3, <4>4
    <3>4. QED
      BY <3>1, <3>2, <3>3 DEF LineOrdered
  <2>9. CalledFirst'
    <3> SUFFICES ASSUME NEW j \in DOMAIN called, NEW d \in DOMAIN flushes',
                        NEW i \in DOMAIN flushes'[d].events, flushes'[d].events[i] # Overflow
                 PROVE  MayPrecede(called[j], flushes'[d].events[i], d)
      BY <2>5 DEF CalledFirst, MayPrecede
    <3>1. CASE d = t
      <4>1. i \in DOMAIN eventBuffer /\ flushes'[d].events[i] = eventBuffer[i]
        BY <2>2, <2>3, <3>1
      <4>2. Before(called[j].event, eventBuffer[i])
        BY <1>1, <4>1 DEF CalledFirst
      <4>3. eventBuffer[i].type = "event" /\ called[j].event.type = "event"
        <5>1. eventBuffer[i] \in Items \ {Overflow}
          BY <1>1, <4>1, GuestSeqs
        <5>2. QED
          BY <1>1, <5>1, GuestSeqs DEF Items
      <4>4. QED
        BY <4>1, <4>2, <4>3 DEF Before, MayPrecede
    <3>2. CASE d # t
      BY <1>1, <2>3, <2>4, <3>2 DEF CalledFirst
    <3>3. QED
      BY <3>1, <3>2
  <2>10. HeardWanted'
    BY <1>1, <2>2, <2>3, <2>4 DEF HeardWanted
  <2>11. GuestInOrder'
    BY <1>1 DEF GuestInOrder
  <2>12. GuestMissesNothing'
    <3> SUFFICES ASSUME NEW e \in heard
                 PROVE  \/ \E d \in DOMAIN flushes' : e \in Range(flushes'[d].events)
                        \/ \E j \in DOMAIN called : called[j].event = e
      BY DEF GuestMissesNothing
    <3>1. CASE e \in Range(eventBuffer)
      BY <2>2, <2>3, <2>4, <3>1
    <3>2. CASE \E d \in DOMAIN flushes : e \in Range(flushes[d].events)
      <4>1. PICK d \in DOMAIN flushes : e \in Range(flushes[d].events)
        BY <3>2
      <4>2. d \in DOMAIN below
        BY <4>1 DEF Remains, Range
      <4>3. QED
        BY <2>3, <2>4, <4>1, <4>2
    <3>3. QED
      BY <1>1, <3>1, <3>2 DEF GuestMissesNothing
  <2>13. QED
    BY <2>6, <2>7, <2>8, <2>9, <2>10, <2>11, <2>12 DEF GuestInv
<1>4. QED
  BY <1>2, <1>3

-----------------------------------------------------------------------------
(* The innermost flush passes an event on, skips one, or goes on after a   *)
(* callback.                                                               *)

LEMMA TopMoves ==
  ASSUME GuestInv, flushes # <<>>, NEW ev, NEW calling \in BOOLEAN,
         ev = Top.events \/ (Top.events # <<>> /\ ev = Tail(Top.events)),
         flushes' = [flushes EXCEPT ![Len(flushes)] = Flush(ev, @.enabled, calling, @.again)],
         UNCHANGED vars, UNCHANGED <<eventBuffer, enabled, heard>>
  PROVE  /\ Len(flushes) \in DOMAIN flushes /\ flushes' \in Seq(Frames)
         /\ DOMAIN flushes' = DOMAIN flushes
         /\ \A d \in DOMAIN flushes : d # Len(flushes) => flushes'[d] = flushes[d]
         /\ flushes'[Len(flushes)].events = ev
         /\ \A d \in DOMAIN flushes : \A i \in DOMAIN flushes'[d].events :
               \E k \in DOMAIN flushes[d].events : flushes'[d].events[i] = flushes[d].events[k]
         /\ LineOrdered' /\ HeardWanted'
<1> DEFINE t == Len(flushes)
           f == Flush(ev, flushes[t].enabled, calling, flushes[t].again)
           old == flushes[t].events
<1>1. GuestShape /\ LineOrdered /\ HeardWanted
  BY DEF GuestInv
<1>2. /\ t \in DOMAIN flushes /\ DOMAIN flushes = 1 .. t /\ t \in Nat /\ flushes \in Seq(Frames)
      /\ old \in Seq(Items) /\ flushes[t].enabled \in SUBSET Kinds /\ flushes[t].again \in BOOLEAN
      /\ Top = flushes[t]
  <2>1. DOMAIN flushes = 1 .. t /\ t \in Nat /\ flushes \in Seq(Frames)
    BY <1>1, GuestSeqs DEF GuestShape
  <2>2. t # 0
    BY <2>1, EmptySeq
  <2>3. t \in DOMAIN flushes
    BY <2>1, <2>2
  <2>4. QED
    BY <1>1, <2>1, <2>3, GuestSeqs DEF Top, Last
<1>3. ev = old \/ (old # <<>> /\ ev = Tail(old))
  BY <1>2
<1>4. ev \in Seq(Items)
  BY <1>2, <1>3, TailItems
<1>5. f \in Frames /\ f.events = ev /\ f.enabled = flushes[t].enabled
  <2>1. \A es \in SUBSET Kinds, ag \in BOOLEAN :
           LET g == Flush(ev, es, calling, ag) IN g \in Frames /\ g.events = ev /\ g.enabled = es
    BY <1>4, FlushFields
  <2> DEFINE es == flushes[t].enabled
             ag == flushes[t].again
  <2>2. es \in SUBSET Kinds /\ ag \in BOOLEAN
    BY <1>2
  <2>3. f = Flush(ev, es, calling, ag)
    OBVIOUS
  <2> HIDE DEF es, ag, f
  <2>4. f \in Frames /\ f.events = ev /\ f.enabled = es
    BY <2>1, <2>2, <2>3, Zenon
  <2>5. QED
    BY <2>4 DEF es
<1>6. flushes' = [flushes EXCEPT ![t] = f]
  OBVIOUS
<1> HIDE DEF f, old
<1>7. /\ flushes' \in Seq(Frames) /\ DOMAIN flushes' = DOMAIN flushes /\ flushes'[t] = f
      /\ \A d \in DOMAIN flushes : d # t => flushes'[d] = flushes[d]
  BY <1>2, <1>5, <1>6, ExceptSeq
<1> HIDE DEF t
<1>8. \A i \in DOMAIN ev : \E k \in DOMAIN old : ev[i] = old[k]
  <2>1. CASE ev = old
    BY <2>1
  <2>2. CASE old # <<>> /\ ev = Tail(old)
    <3>1. /\ DOMAIN old = 1 .. Len(old) /\ DOMAIN ev = 1 .. Len(ev) /\ Len(old) \in Nat \ {0}
          /\ Len(ev) = Len(old) - 1 /\ \A i \in 1 .. Len(ev) : ev[i] = old[i + 1]
      BY <1>2, <1>4, <2>2, TailItems, ItemsSeq
    <3>2. \A i \in DOMAIN ev : i + 1 \in DOMAIN old /\ ev[i] = old[i + 1]
      BY <3>1
    <3>3. QED
      BY <3>2
  <2>3. QED
    BY <1>3, <2>1, <2>2
<1>9. \A s : Ordered(old) /\ Ahead(s, old) => Ordered(ev) /\ Ahead(s, ev)
  BY <1>2, <1>3, TailOrder
<1>10. \A s : Ahead(old, s) => Ahead(ev, s)
  BY <1>8 DEF Ahead
<1>11. LineOrdered'
  <2>1. Ordered(eventBuffer')
    BY <1>1 DEF LineOrdered
  <2>2. ASSUME NEW d \in DOMAIN flushes'
        PROVE  Ordered(flushes'[d].events) /\ Ahead(flushes'[d].events, eventBuffer')
    <3>1. Ordered(flushes[d].events) /\ Ahead(flushes[d].events, eventBuffer)
      BY <1>1, <1>7 DEF LineOrdered
    <3>2. CASE d = t
      <4>1. Ordered(old) /\ Ahead(old, eventBuffer) /\ Ahead(<<>>, old)
        BY <3>1, <3>2, EmptySeq DEF old, Ahead
      <4>2. QED
        BY <1>5, <1>7, <1>9, <1>10, <3>2, <4>1
    <3>3. CASE d # t
      BY <1>7, <3>1, <3>3
    <3>4. QED
      BY <3>2, <3>3
  <2>3. ASSUME NEW d \in DOMAIN flushes', NEW q \in DOMAIN flushes', d < q
        PROVE  Ahead(flushes'[d].events, flushes'[q].events)
    <3>1. Ahead(flushes[d].events, flushes[q].events) /\ d # t
      BY <1>1, <1>2, <1>7, <2>3 DEF LineOrdered
    <3>2. flushes'[d] = flushes[d]
      BY <1>7, <3>1
    <3>3. CASE q = t
      <4>1. Ahead(flushes[d].events, old) /\ Ordered(old)
        BY <1>1, <1>2, <3>1, <3>3 DEF LineOrdered, old
      <4>2. QED
        BY <1>5, <1>7, <1>9, <3>2, <3>3, <4>1
    <3>4. CASE q # t
      BY <1>7, <3>1, <3>2, <3>4
    <3>5. QED
      BY <3>3, <3>4
  <2>4. QED
    BY <2>1, <2>2, <2>3 DEF LineOrdered
<1>12. \A d \in DOMAIN flushes : \A i \in DOMAIN flushes'[d].events :
          \E k \in DOMAIN flushes[d].events : flushes'[d].events[i] = flushes[d].events[k]
  <2>1. \A i \in DOMAIN flushes'[t].events :
           \E k \in DOMAIN flushes[t].events : flushes'[t].events[i] = flushes[t].events[k]
    BY <1>5, <1>7, <1>8 DEF old
  <2>2. QED
    BY <1>7, <2>1
<1>13. HeardWanted'
  <2>1. \A d \in DOMAIN flushes : flushes'[d].enabled = flushes[d].enabled
    BY <1>5, <1>7
  <2>2. QED
    BY <1>1, <1>7, <1>12, <2>1 DEF HeardWanted
<1>14. QED
  BY <1>2, <1>5, <1>7, <1>11, <1>12, <1>13 DEF t

(* Nothing is called: the rest of the invariant is about less.             *)
LEMMA QuietKeeps ==
  ASSUME GuestInv, flushes # <<>>, NEW ev, NEW calling \in BOOLEAN,
         \/ ev = Top.events
         \/ Top.events # <<>> /\ ev = Tail(Top.events) /\ ~Wanted(Head(Top.events)),
         flushes' = [flushes EXCEPT ![Len(flushes)] = Flush(ev, @.enabled, calling, @.again)],
         UNCHANGED vars, UNCHANGED <<eventBuffer, enabled, called, heard>>
  PROVE  GuestInv'
<1> DEFINE t == Len(flushes)
<1>1. /\ GuestShape /\ AllSeen /\ LineOrdered /\ CalledFirst /\ HeardWanted
      /\ GuestInOrder /\ GuestMissesNothing
  BY DEF GuestInv
<1>2. /\ t \in DOMAIN flushes /\ flushes' \in Seq(Frames)
      /\ DOMAIN flushes' = DOMAIN flushes
      /\ \A d \in DOMAIN flushes : d # t => flushes'[d] = flushes[d]
      /\ flushes'[t].events = ev
      /\ \A d \in DOMAIN flushes : \A i \in DOMAIN flushes'[d].events :
            \E k \in DOMAIN flushes[d].events : flushes'[d].events[i] = flushes[d].events[k]
      /\ LineOrdered' /\ HeardWanted'
  <2>1. ev = Top.events \/ (Top.events # <<>> /\ ev = Tail(Top.events))
    OBVIOUS
  <2>2. QED
    BY <2>1, TopMoves, Zenon
<1>3. Top = flushes[t]
  BY DEF Top, Last
<1> HIDE DEF t
<1>4. GuestShape' /\ AllSeen'
  BY <1>1, <1>2, SeenKept DEF GuestShape, AllSeen
<1>5. CalledFirst' /\ GuestInOrder'
  BY <1>1, <1>2 DEF CalledFirst, MayPrecede, GuestInOrder
<1>6. GuestMissesNothing'
  <2> SUFFICES ASSUME NEW e \in heard, e \notin Range(eventBuffer),
                      ~ \E j \in DOMAIN called : called[j].event = e
               PROVE  \E d \in DOMAIN flushes' : e \in Range(flushes'[d].events)
    BY DEF GuestMissesNothing
  <2>1. PICK d \in DOMAIN flushes : e \in Range(flushes[d].events)
    BY <1>1 DEF GuestMissesNothing
  <2>2. CASE d # t
    BY <1>2, <2>1, <2>2
  <2>3. CASE d = t /\ ev = Top.events
    BY <1>2, <1>3, <2>1, <2>3
  <2>4. CASE d = t /\ Top.events # <<>> /\ ev = Tail(Top.events) /\ ~Wanted(Head(Top.events))
    <3> DEFINE old == flushes[t].events
    <3>1. old \in Seq(Items) /\ old # <<>> /\ ev = Tail(old)
      BY <1>1, <1>2, <1>3, <2>4, GuestSeqs
    <3>2. PICK k \in DOMAIN old : old[k] = e
      BY <2>1, <2>4 DEF Range
    <3>3. /\ DOMAIN old = 1 .. Len(old) /\ DOMAIN ev = 1 .. Len(ev) /\ Len(old) \in Nat \ {0}
          /\ Len(ev) = Len(old) - 1 /\ \A i \in 1 .. Len(ev) : ev[i] = old[i + 1] /\ Head(old) = old[1]
      BY <3>1, TailItems, ItemsSeq
    <3>4. k # 1
      <4>1. SUFFICES ASSUME k = 1 PROVE FALSE
        OBVIOUS
      <4>2. Head(old) = e
        BY <3>1, <3>2, <4>1, TailItems
      <4>3. Kind(e) \in Top.enabled /\ e # Overflow
        BY <1>1, <1>2, <1>3, <3>2 DEF HeardWanted, GuestShape
      <4>4. QED
        BY <1>3, <2>4, <4>2, <4>3 DEF Wanted
    <3>5. k - 1 \in DOMAIN ev /\ ev[k - 1] = e
      <4>1. k - 1 \in 1 .. Len(ev) /\ (k - 1) + 1 = k
        BY <3>2, <3>3, <3>4
      <4>2. QED
        BY <3>2, <3>3, <4>1
    <3>6. QED
      BY <1>2, <2>4, <3>5 DEF Range
  <2>5. QED
    BY <2>2, <2>3, <2>4
<1>7. QED
  BY <1>2, <1>4, <1>5, <1>6 DEF GuestInv

(* The first event of the innermost flush reaches the guest: all earlier   *)
(* ones of its loop did, or wait in flushes around this one.               *)
LEMMA CallbackKeeps ==
  ASSUME GuestInv, Callback
  PROVE  GuestInv'
<1> DEFINE t == Len(flushes)
           old == flushes[t].events
           e == Head(old)
           call == [event |-> e, depth |-> t]
<1>1. /\ GuestShape /\ AllSeen /\ LineOrdered /\ CalledFirst /\ HeardWanted
      /\ GuestInOrder /\ GuestMissesNothing
  BY DEF GuestInv
<1>2. /\ flushes # <<>> /\ Top.events # <<>> /\ Top = flushes[t] /\ Wanted(e)
      /\ called' = Append(called, call)
      /\ flushes' = [flushes EXCEPT ![Len(flushes)] = Flush(Tail(Top.events), @.enabled, TRUE, @.again)]
      /\ UNCHANGED vars /\ UNCHANGED <<eventBuffer, enabled, heard>>
  BY DEF Callback, Top, Last
<1>3. /\ t \in DOMAIN flushes /\ flushes' \in Seq(Frames)
      /\ DOMAIN flushes' = DOMAIN flushes
      /\ \A d \in DOMAIN flushes : d # t => flushes'[d] = flushes[d]
      /\ flushes'[t].events = Tail(old)
      /\ \A d \in DOMAIN flushes : \A i \in DOMAIN flushes'[d].events :
            \E k \in DOMAIN flushes[d].events : flushes'[d].events[i] = flushes[d].events[k]
      /\ LineOrdered' /\ HeardWanted'
  <2> DEFINE ev == Tail(Top.events)
  <2>1. ev = Top.events \/ (Top.events # <<>> /\ ev = Tail(Top.events))
    BY <1>2
  <2>2. flushes' = [flushes EXCEPT ![Len(flushes)] = Flush(ev, @.enabled, TRUE, @.again)]
    BY <1>2
  <2>3. ev = Tail(old)
    BY <1>2
  <2> HIDE DEF ev
  <2>4. TRUE \in BOOLEAN
    OBVIOUS
  <2>5. QED
    BY <1>2, <2>1, <2>2, <2>3, <2>4, TopMoves, Zenon
<1>4. /\ old \in Seq(Items) /\ old # <<>> /\ DOMAIN old = 1 .. Len(old) /\ 1 \in DOMAIN old
      /\ e = old[1] /\ e \in Items \ {Overflow} /\ e.type = "event" /\ e.n \in Nat
      /\ DOMAIN Tail(old) = 1 .. Len(old) - 1
      /\ \A i \in 1 .. Len(old) - 1 : i + 1 \in DOMAIN old /\ 1 < i + 1 /\ Tail(old)[i] = old[i + 1]
  <2>1. old \in Seq(Items) /\ old # <<>>
    BY <1>1, <1>2, <1>3, GuestSeqs
  <2>2. e \in Items \ {Overflow}
    BY <1>2, <2>1, TailItems DEF Wanted
  <2>3. e.type = "event" /\ e.n \in Nat
    BY <2>2, SseBounds DEF Items
  <2> HIDE DEF old, e
  <2>4. /\ Len(old) \in Nat \ {0} /\ Len(Tail(old)) = Len(old) - 1 /\ Tail(old) \in Seq(Items)
        /\ \A i \in 1 .. Len(Tail(old)) : Tail(old)[i] = old[i + 1]
        /\ e = old[1]
    BY <2>1, TailItems DEF e
  <2>5. DOMAIN old = 1 .. Len(old) /\ DOMAIN Tail(old) = 1 .. Len(Tail(old))
    BY <2>1, <2>4, ItemsSeq
  <2>6. QED
    BY <2>1, <2>2, <2>3, <2>4, <2>5
<1>5. /\ DOMAIN flushes = 1 .. t /\ t \in Nat
      /\ DOMAIN called = 1 .. Len(called) /\ Len(called) \in Nat
      /\ \A j \in DOMAIN called : /\ called[j].event.type = "event" /\ called[j].event.n \in Nat
                                  /\ called[j].depth \in Nat
  BY <1>1, GuestSeqs
<1> HIDE DEF old, e, t
<1>6. call \in Calls /\ call.event = e /\ call.depth = t
  BY <1>4, <1>5 DEF Calls
<1> HIDE DEF call
<1>7. /\ called' \in Seq(Calls) /\ DOMAIN called' = 1 .. Len(called) + 1
      /\ called'[Len(called) + 1] = call
      /\ \A j \in DOMAIN called : called'[j] = called[j]
  <2>1. called \in Seq(Calls)
    BY <1>1 DEF GuestShape
  <2>2. QED
    BY <1>2, <1>5, <1>6, <2>1, AppendProperties, LenProperties
<1> DEFINE new == Len(called) + 1
<1>8. DOMAIN called' = DOMAIN called \cup {new} /\ new \notin DOMAIN called /\ called'[new] = call
      /\ \A i, j \in DOMAIN called' : i < j => i \in DOMAIN called
  BY <1>5, <1>7
<1> HIDE DEF new
<1>9. GuestShape'
  BY <1>1, <1>2, <1>3, <1>7 DEF GuestShape
<1>10. AllSeen'
  <2>1. Seen(e)
    BY <1>1, <1>3, <1>4 DEF AllSeen, old
  <2>2. \A j \in DOMAIN called' : Seen(called'[j].event)
    BY <1>1, <1>6, <1>7, <1>8, <2>1 DEF AllSeen
  <2>3. \A d \in DOMAIN flushes' : \A i \in DOMAIN flushes'[d].events : Seen(flushes'[d].events[i])
    BY <1>1, <1>3 DEF AllSeen
  <2>4. \A x : Seen(x)' <=> Seen(x)
    BY <1>2, SeenKept
  <2>5. \A i \in DOMAIN eventBuffer' : Seen(eventBuffer'[i])
    BY <1>1, <1>2 DEF AllSeen
  <2>6. QED
    BY <2>2, <2>3, <2>4, <2>5, Zenon DEF AllSeen
<1>11. CalledFirst'
  <2>1. ASSUME NEW j \in DOMAIN called'
        PROVE  \A i \in DOMAIN eventBuffer : Before(called'[j].event, eventBuffer[i])
    <3>1. \A i \in DOMAIN eventBuffer : Before(e, eventBuffer[i])
      BY <1>1, <1>3, <1>4 DEF LineOrdered, Ahead, old
    <3>2. QED
      BY <1>1, <1>6, <1>7, <1>8, <3>1 DEF CalledFirst
  <2>2. ASSUME NEW j \in DOMAIN called', NEW d \in DOMAIN flushes,
               NEW i \in DOMAIN flushes'[d].events, flushes'[d].events[i] # Overflow
        PROVE  MayPrecede(called'[j], flushes'[d].events[i], d)
    <3> DEFINE y == flushes'[d].events[i]
    <3>1. PICK k \in DOMAIN flushes[d].events : y = flushes[d].events[k]
      BY <1>3
    <3>2. y \in Items \ {Overflow} /\ y.type = "event" /\ y.n \in Nat
      <4>1. flushes[d].events \in Seq(Items)
        BY <1>1, GuestSeqs
      <4>2. y \in Items
        BY <3>1, <4>1, ItemsSeq
      <4>3. QED
        BY <2>2, <4>2, SseBounds DEF Items
    <3> HIDE DEF y
    <3>3. CASE j \in DOMAIN called
      BY <1>1, <1>7, <3>1, <3>2, <3>3 DEF CalledFirst, y
    <3>4. CASE j = new /\ d = t
      <4>1. Before(e, y)
        <5>1. i \in 1 .. Len(old) - 1 /\ y = Tail(old)[i]
          BY <1>3, <1>4, <3>4 DEF y
        <5>2. Ordered(old)
          BY <1>1, <1>3 DEF LineOrdered, old
        <5>3. QED
          BY <1>4, <5>1, <5>2 DEF Ordered
      <4>2. QED
        BY <1>4, <1>6, <1>8, <3>2, <3>4, <4>1 DEF Before, MayPrecede, y
    <3>5. CASE j = new /\ d # t
      <4>1. d < t
        BY <1>5, <3>5
      <4>2. Ahead(flushes[d].events, old)
        BY <1>1, <1>3, <4>1 DEF LineOrdered, old
      <4>3. Before(y, e)
        BY <1>4, <3>1, <4>2 DEF Ahead
      <4>4. e.by = y.by => e.n > y.n
        BY <1>4, <3>2, <4>3 DEF Before
      <4>5. t > d
        BY <1>5, <4>1
      <4>6. QED
        BY <1>6, <1>8, <3>5, <4>4, <4>5 DEF MayPrecede, y
    <3>6. QED
      BY <1>8, <3>3, <3>4, <3>5
  <2>3. QED
    BY <1>2, <1>3, <2>1, <2>2 DEF CalledFirst, MayPrecede
<1>12. GuestInOrder'
  <2> SUFFICES ASSUME NEW i \in DOMAIN called', NEW j \in DOMAIN called', i < j,
                      called'[i].event.by = called'[j].event.by
               PROVE  \/ called'[i].event.n < called'[j].event.n
                      \/ /\ called'[i].event.n > called'[j].event.n
                         /\ called'[i].depth > called'[j].depth
    BY DEF GuestInOrder
  <2>1. i \in DOMAIN called /\ called'[i] = called[i]
    BY <1>7, <1>8
  <2>2. CASE j \in DOMAIN called
    BY <1>1, <1>7, <2>1, <2>2 DEF GuestInOrder
  <2>3. CASE j = new
    <3>1. MayPrecede(called[i], e, t)
      BY <1>1, <1>3, <1>4, <2>1 DEF CalledFirst, old
    <3>2. QED
      BY <1>6, <1>8, <2>1, <2>3, <3>1 DEF MayPrecede
  <2>4. QED
    BY <1>8, <2>2, <2>3
<1>13. GuestMissesNothing'
  <2> SUFFICES ASSUME NEW x \in heard, x \notin Range(eventBuffer),
                      ~ \E j \in DOMAIN called' : called'[j].event = x
               PROVE  \E d \in DOMAIN flushes' : x \in Range(flushes'[d].events)
    BY <1>2 DEF GuestMissesNothing
  <2>1. x # e /\ ~ \E j \in DOMAIN called : called[j].event = x
    BY <1>6, <1>7, <1>8
  <2>2. PICK d \in DOMAIN flushes : x \in Range(flushes[d].events)
    BY <1>1, <2>1 DEF GuestMissesNothing
  <2>3. CASE d # t
    BY <1>3, <2>2, <2>3
  <2>4. CASE d = t
    <3>1. PICK k \in DOMAIN old : old[k] = x
      BY <2>2, <2>4 DEF Range, old
    <3>2. k - 1 \in 1 .. Len(old) - 1 /\ (k - 1) + 1 = k
      <4>1. k # 1
        BY <1>4, <2>1, <3>1
      <4>2. k \in Int /\ 1 <= k /\ k <= Len(old) /\ Len(old) \in Nat
        BY <1>4, <3>1, LenProperties
      <4>3. QED
        BY <4>1, <4>2
    <3>3. k - 1 \in DOMAIN Tail(old) /\ Tail(old)[k - 1] = x
      BY <1>4, <3>1, <3>2
    <3>4. QED
      BY <1>3, <2>4, <3>3 DEF Range
  <2>5. QED
    BY <2>3, <2>4
<1>14. QED
  BY <1>3, <1>9, <1>10, <1>11, <1>12, <1>13 DEF GuestInv

-----------------------------------------------------------------------------
(* The stream, the listeners, the daemon.                                  *)

(* An event off the stream is later than all that came before it.          *)
LEMMA ReceiveKeeps ==
  ASSUME GuestInv, Shape, OrderInv, Receive
  PROVE  GuestInv'
<1> DEFINE e == Head(buffer[Runtime])
           new == Len(eventBuffer) + 1
<1>1. /\ GuestShape /\ AllSeen /\ LineOrdered /\ CalledFirst /\ HeardWanted
      /\ GuestInOrder /\ GuestMissesNothing
  BY DEF GuestInv
<1>2. /\ buffer[Runtime] # <<>>
      /\ got' = [got EXCEPT ![Runtime] = Append(@, e)]
      /\ eventBuffer' = Append(eventBuffer, e)
      /\ heard' = IF e # Overflow /\ Kind(e) \in enabled THEN heard \cup {e} ELSE heard
      /\ UNCHANGED <<enabled, flushes, calls, called>>
  BY DEF Receive, Deliver, onEvent
<1>3. /\ buffer[Runtime] \in Seq(Items) /\ got[Runtime] \in Seq(Items)
      /\ Runtime \in Clients /\ Runtime \in DOMAIN got
  BY GuestBounds DEF Shape, TypeOK
<1>4. e \in Items /\ e = buffer[Runtime][1] /\ 1 \in DOMAIN buffer[Runtime]
  BY <1>2, <1>3, TailItems, ItemsSeq
<1>5. \A x : Seen(x) => Before(x, e)
  BY <1>3, <1>4 DEF OrderInv, Ahead, Seen
<1> HIDE DEF e
<1>6. /\ \A x : Seen(x) => Seen(x)'
      /\ \E i \in DOMAIN got'[Runtime] : got'[Runtime][i] = e
  <2>1. got'[Runtime] = Append(got[Runtime], e)
    BY <1>2, <1>3
  <2>2. /\ DOMAIN got'[Runtime] = 1 .. Len(got[Runtime]) + 1 /\ Len(got[Runtime]) \in Nat
        /\ DOMAIN got[Runtime] = 1 .. Len(got[Runtime])
        /\ \A i \in DOMAIN got[Runtime] : got'[Runtime][i] = got[Runtime][i]
        /\ got'[Runtime][Len(got[Runtime]) + 1] = e
    BY <1>3, <1>4, <2>1, AppendProperties, LenProperties
  <2>3. DOMAIN got[Runtime] \subseteq DOMAIN got'[Runtime]
        /\ Len(got[Runtime]) + 1 \in DOMAIN got'[Runtime]
    BY <2>2
  <2>4. QED
    BY <2>2, <2>3 DEF Seen
<1>7. ~(e.type = "event" /\ Before(e, e)) /\ (e # Overflow => e.type = "event")
  BY <1>4, SseBounds DEF Before, Items, Overflow
<1>8. /\ eventBuffer' \in Seq(Items) /\ eventBuffer'[new] = e
      /\ DOMAIN eventBuffer' = DOMAIN eventBuffer \cup {new}
      /\ \A i \in DOMAIN eventBuffer : eventBuffer'[i] = eventBuffer[i] /\ i < new
      /\ \A i, j \in DOMAIN eventBuffer' : i < j => i \in DOMAIN eventBuffer
  <2>1. eventBuffer \in Seq(Items)
    BY <1>1 DEF GuestShape
  <2>2. /\ eventBuffer' \in Seq(Items) /\ eventBuffer'[new] = e /\ DOMAIN eventBuffer' = 1 .. new
        /\ DOMAIN eventBuffer = 1 .. Len(eventBuffer) /\ Len(eventBuffer) \in Nat
        /\ \A i \in DOMAIN eventBuffer : eventBuffer'[i] = eventBuffer[i]
    BY <1>2, <1>4, <2>1, AppendProperties, LenProperties
  <2>3. QED
    BY <2>2
<1> HIDE DEF new
<1>9. GuestShape'
  BY <1>1, <1>2, <1>4, <1>8 DEF GuestShape
<1>10. AllSeen'
  <2>1. (\A i \in DOMAIN eventBuffer : Seen(eventBuffer[i]))'
    <3> SUFFICES ASSUME NEW i \in DOMAIN eventBuffer' PROVE Seen(eventBuffer[i])'
      OBVIOUS
    <3>1. CASE i = new
      BY <1>6, <1>8, <3>1 DEF Seen
    <3>2. CASE i \in DOMAIN eventBuffer
      BY <1>1, <1>6, <1>8, <3>2 DEF AllSeen, Seen
    <3>3. QED
      BY <1>8, <3>1, <3>2
  <2>2. (\A d \in DOMAIN flushes : \A i \in DOMAIN flushes[d].events : Seen(flushes[d].events[i]))'
    BY <1>1, <1>2, <1>6 DEF AllSeen, Seen
  <2>3. (\A j \in DOMAIN called : Seen(called[j].event))'
    BY <1>1, <1>2, <1>6 DEF AllSeen, Seen
  <2>4. QED
    BY <2>1, <2>2, <2>3 DEF AllSeen
<1>11. LineOrdered'
  <2>1. Ordered(eventBuffer')
    <3> SUFFICES ASSUME NEW i \in DOMAIN eventBuffer', NEW j \in DOMAIN eventBuffer', i < j
                 PROVE  Before(eventBuffer'[i], eventBuffer'[j])
      BY DEF Ordered
    <3>1. i \in DOMAIN eventBuffer
      BY <1>8
    <3>2. CASE j = new
      BY <1>1, <1>5, <1>8, <3>1, <3>2 DEF AllSeen
    <3>3. CASE j \in DOMAIN eventBuffer
      BY <1>1, <1>8, <3>1, <3>3 DEF LineOrdered, Ordered
    <3>4. QED
      BY <1>8, <3>2, <3>3
  <2>2. ASSUME NEW d \in DOMAIN flushes PROVE Ahead(flushes[d].events, eventBuffer')
    BY <1>1, <1>5, <1>8 DEF LineOrdered, AllSeen, Ahead
  <2>3. QED
    BY <1>1, <1>2, <2>1, <2>2 DEF LineOrdered
<1>12. CalledFirst'
  <2>1. \A j \in DOMAIN called : \A i \in DOMAIN eventBuffer' : Before(called[j].event, eventBuffer'[i])
    BY <1>1, <1>5, <1>8 DEF CalledFirst, AllSeen
  <2>2. QED
    BY <1>1, <1>2, <2>1 DEF CalledFirst, MayPrecede
<1>13. HeardWanted'
  <2>1. ASSUME NEW d \in DOMAIN flushes, NEW i \in DOMAIN flushes[d].events,
               flushes[d].events[i] = e
        PROVE  e = Overflow
    <3>1. Before(e, e)
      BY <1>1, <1>5, <2>1 DEF AllSeen
    <3>2. QED
      BY <1>7, <3>1
  <2>2. QED
    BY <1>1, <1>2, <2>1 DEF HeardWanted
<1>14. GuestInOrder'
  BY <1>1, <1>2 DEF GuestInOrder
<1>15. GuestMissesNothing'
  <2>1. e \in Range(eventBuffer') /\ Range(eventBuffer) \subseteq Range(eventBuffer')
    BY <1>8 DEF Range
  <2>2. QED
    BY <1>1, <1>2, <2>1 DEF GuestMissesNothing
<1>16. QED
  BY <1>9, <1>10, <1>11, <1>12, <1>13, <1>14, <1>15 DEF GuestInv

LEMMA RegisterKeeps ==
  ASSUME GuestInv, NEW k \in Kinds, RegisterListener(k)
  PROVE  GuestInv'
<1>1. /\ GuestShape /\ AllSeen /\ LineOrdered /\ CalledFirst /\ HeardWanted
      /\ GuestInOrder /\ GuestMissesNothing
  BY DEF GuestInv
<1>2. /\ enabled' = enabled \cup {k}
      /\ heard' = heard \cup {e \in Range(eventBuffer) : e # Overflow /\ Kind(e) = k}
      /\ UNCHANGED vars /\ UNCHANGED <<eventBuffer, flushes, called>>
  BY DEF RegisterListener
<1>3. \A e \in Range(eventBuffer) : e \in Items
  BY <1>1, GuestSeqs DEF Range
<1>4. GuestShape'
  BY <1>1, <1>2, <1>3 DEF GuestShape
<1>5. AllSeen' /\ LineOrdered' /\ CalledFirst' /\ GuestInOrder'
  BY <1>1, <1>2, SeenKept DEF AllSeen, LineOrdered, CalledFirst, MayPrecede, GuestInOrder
(* An event in the buffer is in no flush.                                  *)
<1>6. ASSUME NEW d \in DOMAIN flushes, NEW i \in DOMAIN flushes[d].events,
             flushes[d].events[i] \in Range(eventBuffer), flushes[d].events[i] # Overflow
      PROVE  FALSE
  <2> DEFINE e == flushes[d].events[i]
  <2>1. Before(e, e)
    BY <1>1, <1>6 DEF LineOrdered, Ahead, Range
  <2>2. e \in Items \ {Overflow}
    BY <1>3, <1>6
  <2>3. QED
    BY <2>1, <2>2, SseBounds DEF Before, Items
<1>7. HeardWanted'
  BY <1>1, <1>2, <1>6 DEF HeardWanted
<1>8. GuestMissesNothing'
  BY <1>1, <1>2 DEF GuestMissesNothing
<1>9. QED
  BY <1>4, <1>5, <1>7, <1>8 DEF GuestInv

LEMMA FlushEndKeeps ==
  ASSUME GuestInv, FlushEnd
  PROVE  GuestInv'
<1> DEFINE below == Front(flushes)
<1>1. /\ GuestShape /\ flushes # <<>> /\ Top.events = <<>>
      /\ UNCHANGED vars /\ UNCHANGED <<enabled, called, heard>>
  BY DEF GuestInv, FlushEnd
<1>2. Remains(below)
  <2> DEFINE t == Len(flushes)
  <2>1. DOMAIN flushes = 1 .. t /\ t \in Nat \ {0} /\ flushes \in Seq(Frames)
        /\ \A d \in DOMAIN flushes : flushes[d] \in Frames
    BY <1>1, GuestSeqs, EmptySeq DEF GuestShape
  <2>2. t - 1 \in Int /\ \A d \in 1 .. t - 1 : d \in DOMAIN flushes /\ 1 + d - 1 = d /\ d \in 1 .. (t - 1) - 1 + 1
    BY <2>1
  <2>3. \A d \in 1 .. t - 1 : flushes[d] \in Frames
    BY <2>1, <2>2
  <2> HIDE DEF t
  <2>4. /\ SubSeq(flushes, 1, t - 1) \in Seq(Frames)
        /\ Len(SubSeq(flushes, 1, t - 1)) = IF 1 <= t - 1 THEN (t - 1) - 1 + 1 ELSE 0
        /\ \A i \in 1 .. (t - 1) - 1 + 1 : SubSeq(flushes, 1, t - 1)[i] = flushes[1 + i - 1]
    BY <2>2, <2>3, SubSeqProperties
  <2>5. below = SubSeq(flushes, 1, t - 1)
    BY DEF Front, t
  <2> HIDE DEF below
  <2>6. Len(below) = t - 1
    BY <2>1, <2>4, <2>5
  <2>7. below \in Seq(Frames) /\ DOMAIN below = 1 .. t - 1
    BY <2>4, <2>5, <2>6, LenProperties
  <2>8. \A d \in 1 .. t - 1 : below[d] = flushes[d]
    BY <2>2, <2>4, <2>5
  <2>9. \A d \in DOMAIN flushes \ DOMAIN below : d = t
    BY <2>1, <2>7
  <2>10. DOMAIN flushes[t].events = {}
    <3>1. flushes[t].events = <<>>
      BY <1>1 DEF Top, Last, t
    <3>2. QED
      BY <3>1, EmptySeq
  <2>11. QED
    BY <2>2, <2>7, <2>8, <2>9, <2>10 DEF Remains
<1>3. CASE Top.again
  BY <1>1, <1>2, <1>3, FlushKeeps DEF FlushEnd
<1>4. CASE ~Top.again
  <2>1. flushes' = below /\ eventBuffer' = eventBuffer
    BY <1>4 DEF FlushEnd
  <2>2. Remains(flushes')
    BY <1>2, <2>1
  <2>3. QED
    BY <1>1, <2>1, <2>2, PopKeeps
<1>5. QED
  BY <1>3, <1>4

LEMMA HostCallKeeps ==
  ASSUME GuestInv, HostCall
  PROVE  GuestInv'
<1>1. Remains(flushes)
  BY DEF GuestInv, GuestShape, Remains
<1>2. /\ UNCHANGED vars /\ UNCHANGED <<enabled, called, heard>>
      /\ flushEvents(flushes, FALSE) \/ flushEvents(flushes, TRUE)
  BY DEF HostCall, Command, WaitIdle
<1>3. QED
  BY <1>1, <1>2, FlushKeeps

(* What the daemon does touches nothing of this, nor what was seen.        *)
LEMMA DaemonKeeps ==
  ASSUME GuestInv, got' = got, UNCHANGED guestVars
  PROVE  GuestInv'
<1>1. /\ GuestShape' /\ LineOrdered' /\ CalledFirst' /\ HeardWanted'
      /\ GuestInOrder' /\ GuestMissesNothing'
  BY DEF GuestInv, guestVars, GuestShape, LineOrdered, CalledFirst, MayPrecede, HeardWanted,
         GuestInOrder, GuestMissesNothing
<1>2. AllSeen'
  BY DEF GuestInv, guestVars, AllSeen, Seen
<1>3. QED
  BY <1>1, <1>2 DEF GuestInv

LEMMA StepGuest ==
  ASSUME GuestInv, Shape, OrderInv, [GuestNext]_allVars
  PROVE  GuestInv'
<1>1. CASE Receive
  BY <1>1, ReceiveKeeps
<1>2. CASE Callback
  BY <1>2, CallbackKeeps
<1>3. CASE CallbackReturns
  <2>1. flushes # <<>> /\ UNCHANGED vars /\ UNCHANGED <<eventBuffer, enabled, called, heard>>
        /\ flushes' = [flushes EXCEPT ![Len(flushes)] = Flush(Top.events, @.enabled, FALSE, @.again)]
    BY <1>3 DEF CallbackReturns, Top, Last
  <2>2. FALSE \in BOOLEAN
    OBVIOUS
  <2>3. QED
    BY <2>1, <2>2, QuietKeeps
<1>4. CASE SkipEvent
  <2>1. /\ flushes # <<>> /\ UNCHANGED vars /\ UNCHANGED <<eventBuffer, enabled, called, heard>>
        /\ Top.events # <<>> /\ ~Wanted(Head(Top.events))
        /\ flushes' = [flushes EXCEPT ![Len(flushes)] =
                          Flush(Tail(Top.events), @.enabled, FALSE, @.again)]
    BY <1>4 DEF SkipEvent, Top, Last
  <2>2. FALSE \in BOOLEAN
    OBVIOUS
  <2>3. QED
    BY <2>1, <2>2, QuietKeeps
<1>5. CASE FlushEnd
  BY <1>5, FlushEndKeeps
<1>6. CASE HostCall
  BY <1>6, HostCallKeeps
<1>7. ASSUME NEW k \in Kinds, RegisterListener(k) PROVE GuestInv'
  BY <1>7, RegisterKeeps
<1>8. CASE DaemonStep /\ UNCHANGED guestVars
  <2>1. got' = got
    BY <1>8 DEF DaemonStep, Broadcast, BroadcastStep, BroadcastEnd, TrySend, DropOldest, TryWarn,
                Connect, Register, Disconnect, Unregister
  <2>2. QED
    BY <1>8, <2>1, DaemonKeeps
<1>9. CASE UNCHANGED allVars
  BY <1>9, DaemonKeeps DEF allVars, vars
<1>10. QED
  BY <1>1, <1>2, <1>3, <1>4, <1>5, <1>6, <1>7, <1>8, <1>9 DEF GuestNext, GuestStep

LEMMA InitGuest == GuestInit => GuestInv
<1> SUFFICES ASSUME GuestInit PROVE GuestInv
  OBVIOUS
<1>1. /\ eventBuffer = <<>> /\ enabled = {} /\ flushes = <<>> /\ called = <<>> /\ heard = {}
  BY DEF GuestInit
<1>2. GuestShape /\ DOMAIN eventBuffer = {} /\ DOMAIN flushes = {} /\ DOMAIN called = {}
  BY <1>1, EmptySeq DEF GuestShape
<1>3. QED
  BY <1>1, <1>2 DEF GuestInv, AllSeen, LineOrdered, Ordered, CalledFirst, HeardWanted, GuestInOrder,
                    GuestMissesNothing

(* Whatever the guest calls from its callbacks, what waits for it stands   *)
(* in one line in the order received, behind everything it was called for  *)
(* from the same depth or further out (runtime.go:111-171).                *)
THEOREM GuestInvHolds == GuestSpec => []GuestInv
<1>1. Spec => [](Shape /\ OrderInv)
  <2>1. Init => Shape /\ OrderInv
    BY InitShape, InitOrder
  <2>2. Shape /\ OrderInv /\ [Next]_vars => (Shape /\ OrderInv)'
    BY StepShape, StepOrder
  <2>3. QED
    BY <2>1, <2>2, PTL DEF Spec
<1>2. GuestInv /\ Shape /\ OrderInv /\ [GuestNext]_allVars => GuestInv'
  BY StepGuest
<1>3. QED
  BY <1>1, <1>2, InitGuest, ImplementsBroadcast, PTL DEF GuestSpec

(* No event reaches the guest twice; one overtakes an earlier event of its *)
(* loop only from a flush that began inside the callback which is under    *)
(* way further out (runtime.go:111-171).                                   *)
THEOREM GuestInOrderHolds == GuestSpec => []GuestInOrder
<1>1. GuestInv => GuestInOrder
  BY DEF GuestInv
<1>2. QED
  BY <1>1, GuestInvHolds, PTL

(* No event that was in the buffer while its kind had a listener is lost,  *)
(* whatever the guest calls from its callbacks (runtime.go:111-171,        *)
(* host_exports.go:50-162).                                                *)
THEOREM GuestMissesNothingHolds == GuestSpec => []GuestMissesNothing
<1>1. GuestInv => GuestMissesNothing
  BY DEF GuestInv
<1>2. QED
  BY <1>1, GuestInvHolds, PTL

=============================================================================
