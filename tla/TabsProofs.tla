------------------------------ MODULE TabsProofs ------------------------------
(* Proofs about Tabs, for any handlers, pages, scripts and aliases.        *)
EXTENDS Tabs, SequenceTheorems, FiniteSetTheorems, TLAPS

-----------------------------------------------------------------------------
(* Types.                                                                  *)

Steps == {"idle", "track", "append", "copy", "register", "untrack", "close", "forget",
          "closeOthers", "reset", "setActive", "nextTab", "opened", "add", "remove", "save"}
Files == [tabs : Seq(Pages), active : Nat, shown : Nat]
Regs == Scripts \X Pages \X Nat
Fields == [step : Steps, page : 0 .. MaxPages, fg : BOOLEAN, then : {"end", "setActive", "opened"},
           todo : SUBSET Scripts, pages : Seq(Pages), n : Nat, file : Files,
           alone : BOOLEAN, script : Nat, every : BOOLEAN, got : SUBSET Regs]
Locals == {l \in Fields : /\ l.step = "append" => l.page # 0
                          /\ l.step = "add" => l.script \in Scripts
                          /\ l.step = "save" /\ l.n = 0 => l.file.active = 1 /\ l.file.tabs = <<>>}
Ghosts == [failed : SUBSET Scripts, crossed : SUBSET (0 .. MaxPages)]

PageTypes ==
    /\ live \in Seq(Pages) /\ opened \in 1 .. MaxPages /\ doc \in [Pages -> Pages]
    /\ pageOrder \in Seq(Pages) /\ activePg \in 0 .. MaxPages
    /\ ctx \in [page : 0 .. MaxPages, on : BOOLEAN]
ScriptTypes ==
    /\ global \in SUBSET Scripts /\ perTab \in SUBSET (Pages \X Scripts)
    /\ ids \in SUBSET Regs /\ reg \in SUBSET Regs /\ IsFiniteSet(reg)
    /\ added \in 0 .. MaxScripts
    /\ mu \in Handlers \cup {"free"}
Shape ==
    /\ PageTypes /\ ScriptTypes
    /\ saved \in Files /\ at \in [Handlers -> Locals]
    /\ ops \in 0 .. MaxOps /\ ghost \in Ghosts

-----------------------------------------------------------------------------
(* Pages that were not opened yet are known to nobody; a registration is   *)
(* on a page the browser has.                                              *)

Opened ==
    /\ ToSet(live) \cup ToSet(pageOrder) \subseteq 1 .. opened /\ activePg <= opened
    /\ \A h \in Handlers :
          /\ at[h].page <= opened
          /\ ToSet(at[h].pages) \subseteq 1 .. opened
    /\ \A r \in reg : r[2] \in ToSet(live)

(* s.mu is kept by the one add under way, whose script nobody knows yet; a *)
(* script is for all tabs or for some.                                     *)
Adding(h) == at[h].step = "add"
OneAdd ==
    /\ \A h \in Handlers : Adding(h) => mu = h
    /\ \A h \in Handlers : Adding(h) =>
          /\ at[h].script \in 1 .. added /\ at[h].script \notin global
          /\ \A x \in perTab : x[2] # at[h].script
          /\ at[h].n <= Len(at[h].pages)
Numbered ==
    /\ \A e \in global : e <= added /\ \A x \in perTab : x[2] # e
    /\ \A x \in perTab : x[2] <= added
    /\ \A r \in reg : r[1] <= added
    /\ \A h \in Handlers : \A e \in at[h].todo : e <= added

Base == Opened /\ OneAdd /\ Numbered

-----------------------------------------------------------------------------
(* A tracked page that is there runs a global script, or is about to: its  *)
(* handler copies the scripts, or has that one left to register.           *)

Runs(p, e) == \E r \in reg : r[1] = e /\ r[2] = p
Copying(p) == \E h \in Handlers : at[h].step = "copy" /\ at[h].page = p
Registering(p, e) ==
    \E h \in Handlers : at[h].step = "register" /\ at[h].page = p /\ e \in at[h].todo

Tracked == ToSet(pageOrder)

Reached == \A p \in Tracked \cap ToSet(live), e \in global :
               Runs(p, e) \/ Copying(p) \/ Registering(p, e)
AddReaches == \A h \in Handlers : Adding(h) /\ at[h].every =>
    /\ \A p \in Tracked \cap ToSet(live) : p \in ToSet(at[h].pages) \/ Copying(p)
    /\ \A i \in 1 .. at[h].n : IsLive(at[h].pages[i]) => Runs(at[h].pages[i], at[h].script)

ReachInv == Reached /\ AddReaches

-----------------------------------------------------------------------------
(* A page is set up once, and while it is, scripts are neither added nor   *)
(* cleared - or it counts as crossed.                                      *)

SettingUp(h) ==
    at[h].step \in {"closeOthers", "reset", "track", "append", "copy", "register"}
Untouched(h) == SettingUp(h) /\ at[h].page \notin ghost.crossed
SetUpOnce ==
    /\ \A h \in Handlers : Untouched(h) =>
          /\ \A g \in Handlers : SettingUp(g) /\ at[g].page = at[h].page => g = h
          /\ \A g \in Handlers : Adding(g) => at[h].page \notin ToSet(at[g].pages)
          /\ at[h].step # "register" => \A r \in reg : r[2] # at[h].page
          /\ at[h].step = "register" =>
                /\ at[h].todo \subseteq global
                /\ \A r \in reg : r[2] = at[h].page => r[1] \notin at[h].todo

(* A registration can be removed: its identifier is kept.                  *)
Excused(r) ==
    r[1] \in ghost.failed \/ r[2] \in ghost.crossed
Got ==
    /\ \A h \in Handlers : Adding(h) => \A r \in at[h].got :
          r[1] = at[h].script /\ r[2] \in ToSet(at[h].pages)
    /\ \A h \in Handlers : Adding(h) => \A r \in reg : r[1] = at[h].script => r \in at[h].got
Removable == \A r \in reg :
    r \in ids \/ Excused(r) \/ \E h \in Handlers : Adding(h) /\ at[h].script = r[1]

ClearInv == SetUpOnce /\ Got /\ Removable /\ ClearedScriptsGone

-----------------------------------------------------------------------------
(* A close that is alone removes the entry it found.                       *)

ClosingAlone ==
    \A h \in Handlers : at[h].step \in {"untrack", "remove"} /\ at[h].alone =>
        /\ \A g \in Handlers : g # h => at[g].step = "idle"
        /\ at[h].step = "remove" =>
              at[h].n \in DOMAIN pageOrder /\ pageOrder[at[h].n] = at[h].page

-----------------------------------------------------------------------------
(* A resume that is alone has shown the saved tab as soon as it is past it.*)

Resuming(h) ==
    \/ at[h].step \in {"nextTab", "opened"}
    \/ at[h].step \in {"track", "append", "copy", "register"} /\ at[h].then = "opened"
Unhindered(h) == Resuming(h) /\ at[h].alone
Background(h) == ~at[h].fg
Names(f) == f.shown # 0 => f.active \in 1 .. Len(f.tabs) /\ f.tabs[f.active] = f.shown
Shows(h) ==
    at[h].file.shown # 0 => activePg # 0 /\ doc[activePg] = at[h].file.shown
Restored(h) ==
    /\ \A g \in Handlers : g # h => at[g].step = "idle"
    /\ Background(h) /\ Names(at[h].file) /\ at[h].n <= Len(at[h].file.tabs)
    /\ at[h].step = "nextTab" => (at[h].n >= at[h].file.active => Shows(h))
    /\ at[h].step # "nextTab" =>
          /\ at[h].n >= 1 /\ at[h].page # 0 /\ doc[at[h].page] = at[h].file.tabs[at[h].n]
          /\ at[h].n > at[h].file.active => Shows(h)
Saving(h) == at[h].step = "save"
ResumeInv ==
    /\ Names(saved) /\ \A h \in Handlers : Saving(h) => Names(at[h].file)
    /\ \A h \in Handlers : Unhindered(h) => Restored(h)
    /\ \A h \in Handlers : at[h].step \in {"closeOthers", "reset"} => at[h].then # "opened"

-----------------------------------------------------------------------------
(* Lists and locals.                                                       *)

LEMMA Bounds == MaxPages \in Nat /\ 1 <= MaxPages /\ MaxScripts \in Nat /\ MaxOps \in Nat
BY TabsBounds

LEMMA PageNumbers == Pages = 1 .. MaxPages /\ Pages \subseteq Nat /\ Pages \subseteq 0 .. MaxPages
BY Bounds DEF Pages

(* What the other handlers keep, whoever steps: all but being alone.       *)
Same(g) ==
    /\ at'[g].step = at[g].step /\ at'[g].page = at[g].page /\ at'[g].fg = at[g].fg
    /\ at'[g].then = at[g].then /\ at'[g].todo = at[g].todo
    /\ at'[g].pages = at[g].pages /\ at'[g].n = at[g].n /\ at'[g].file = at[g].file
    /\ at'[g].script = at[g].script /\ at'[g].every = at[g].every /\ at'[g].got = at[g].got
OthersSame(h) == \A g \in Handlers \ {h} : Same(g)

LEMMA IdleLocal == Idle \in Locals
<1>1. NoFile \in Files
  BY DEF NoFile, Files
<1>2. QED
  BY <1>1, Bounds DEF Idle, Locals, Fields, Steps

LEMMA DisturbedLocals ==
  ASSUME at \in [Handlers -> Locals]
  PROVE  Disturbed \in [Handlers -> Locals]
<1>1. \A l \in Locals : [l EXCEPT !.alone = FALSE] \in Locals
  BY DEF Locals, Fields
<1>2. QED
  BY <1>1 DEF Disturbed

LEMMA GotoDoes ==
  ASSUME at \in [Handlers -> Locals], NEW h \in Handlers, NEW l, Goto(h, l), With(at[h], l) \in Locals
  PROVE  /\ at' \in [Handlers -> Locals] /\ at'[h] = With(at[h], l) /\ OthersSame(h)
         /\ \A g \in Handlers \ {h} : at'[g] = at[g]
BY DEF Goto, OthersSame, Same

LEMMA EndDoes ==
  ASSUME at \in [Handlers -> Locals], NEW h \in Handlers, End(h)
  PROVE  /\ at' \in [Handlers -> Locals] /\ at'[h] = Idle /\ OthersSame(h)
         /\ \A g \in Handlers \ {h} : at'[g] = at[g]
BY IdleLocal DEF End, OthersSame, Same

LEMMA DisturbedSame ==
  ASSUME at \in [Handlers -> Locals], NEW g \in Handlers, at'[g] = Disturbed[g]
  PROVE  Same(g) /\ at'[g].alone = FALSE
BY DEF Disturbed, Same, Locals, Fields

LEMMA StartDoes ==
  ASSUME Shape, NEW h \in Handlers, NEW l, Start(h, l), With(Idle, l) \in Locals
  PROVE  /\ at' \in [Handlers -> Locals] /\ at'[h] = With(Idle, l) /\ at[h].step = "idle"
         /\ OthersSame(h) /\ ops' \in 0 .. MaxOps
         /\ \A g \in Handlers \ {h} : at'[g].alone = FALSE
<1>1. Disturbed \in [Handlers -> Locals]
  BY DisturbedLocals DEF Shape
<1>2. at' = [Disturbed EXCEPT ![h] = With(Idle, l)] /\ at[h].step = "idle"
  BY DEF Start, Busy
<1>3. \A g \in Handlers \ {h} : at'[g] = Disturbed[g]
  BY <1>1, <1>2
<1>4. ops' \in 0 .. MaxOps
  BY Bounds DEF Start, Counted, Shape
<1>5. at' \in [Handlers -> Locals] /\ at'[h] = With(Idle, l)
  BY <1>1, <1>2
<1>6. QED
  BY <1>2, <1>3, <1>4, <1>5, DisturbedSame DEF OthersSame, Shape

LEMMA GotoGives ==
  ASSUME Shape, NEW h \in Handlers, NEW l, Goto(h, l)
  PROVE  at'[h] = With(at[h], l) /\ OthersSame(h) /\ \A g \in Handlers \ {h} : at'[g] = at[g]
BY DEF Goto, OthersSame, Same, Shape

LEMMA EndGives ==
  ASSUME Shape, NEW h \in Handlers, End(h)
  PROVE  at'[h] = Idle /\ OthersSame(h) /\ \A g \in Handlers \ {h} : at'[g] = at[g]
BY DEF End, OthersSame, Same, Shape

LEMMA StartGives ==
  ASSUME Shape, NEW h \in Handlers, NEW l, Start(h, l)
  PROVE  /\ at'[h] = With(Idle, l) /\ at[h].step = "idle" /\ OthersSame(h)
         /\ \A g \in Handlers \ {h} : at'[g].alone = FALSE
<1>1. Disturbed \in [Handlers -> Locals]
  BY DisturbedLocals DEF Shape
<1>2. at' = [Disturbed EXCEPT ![h] = With(Idle, l)] /\ at[h].step = "idle"
  BY DEF Start, Busy
<1>3. \A g \in Handlers \ {h} : at'[g] = Disturbed[g]
  BY <1>1, <1>2
<1>4. at'[h] = With(Idle, l)
  BY <1>1, <1>2
<1>5. QED
  BY <1>2, <1>3, <1>4, DisturbedSame DEF OthersSame, Shape

LEMMA IdleFields ==
  /\ Idle.step = "idle" /\ Idle.page = 0 /\ Idle.fg = FALSE /\ Idle.then = "end"
  /\ Idle.todo = {} /\ Idle.pages = <<>> /\ Idle.n = 0 /\ Idle.file = NoFile /\ Idle.alone = FALSE
  /\ Idle.script = 0 /\ Idle.every = FALSE /\ Idle.got = {}
  /\ ToSet(Idle.pages) = {}
BY DEF Idle, ToSet

LEMMA ServeDoes ==
  ASSUME Shape, NEW h \in Handlers, Serve(h)
  PROVE  /\ at' \in [Handlers -> Locals] /\ ops' \in 0 .. MaxOps /\ at[h].step = "idle"
         /\ \A g \in Handlers : Same(g) /\ at'[g].alone = FALSE
<1>1. at' = Disturbed /\ at[h].step = "idle"
  BY DEF Serve, Busy
<1>2. ops' \in 0 .. MaxOps
  BY Bounds DEF Serve, Counted, Shape
<1>3. QED
  BY <1>1, <1>2, DisturbedLocals, DisturbedSame DEF Shape

(* Setting a field of the locals.                                          *)
LEMMA WithFields ==
  ASSUME NEW r \in Locals, NEW l
  PROVE  /\ With(r, l).step = IF "step" \in DOMAIN l THEN l.step ELSE r.step
         /\ With(r, l).page = IF "page" \in DOMAIN l THEN l.page ELSE r.page
         /\ With(r, l).fg = IF "fg" \in DOMAIN l THEN l.fg ELSE r.fg
         /\ With(r, l).then = IF "then" \in DOMAIN l THEN l.then ELSE r.then
         /\ With(r, l).todo = IF "todo" \in DOMAIN l THEN l.todo ELSE r.todo
         /\ With(r, l).pages = IF "pages" \in DOMAIN l THEN l.pages ELSE r.pages
         /\ With(r, l).n = IF "n" \in DOMAIN l THEN l.n ELSE r.n
         /\ With(r, l).file = IF "file" \in DOMAIN l THEN l.file ELSE r.file
         /\ With(r, l).alone = IF "alone" \in DOMAIN l THEN l.alone ELSE r.alone
         /\ With(r, l).script = IF "script" \in DOMAIN l THEN l.script ELSE r.script
         /\ With(r, l).every = IF "every" \in DOMAIN l THEN l.every ELSE r.every
         /\ With(r, l).got = IF "got" \in DOMAIN l THEN l.got ELSE r.got
BY DEF With, Locals, Fields


-----------------------------------------------------------------------------
(* Lists thinned out to some of their elements.                            *)

LEMMA UpTo ==
  ASSUME NEW n \in Nat
  PROVE  IsFiniteSet(1 .. n) /\ Cardinality(1 .. n) = n
<1>1. 1 \in Int /\ n \in Int
  OBVIOUS
<1>2. IsFiniteSet(1 .. n) /\ Cardinality(1 .. n) = IF 1 > n THEN 0 ELSE n - 1 + 1
  BY <1>1, FS_Interval
<1>3. QED
  BY <1>2

(* Ranks number a finite set of positions without gaps: one each.          *)
LEMMA Ranks ==
  ASSUME NEW K \in SUBSET Nat, IsFiniteSet(K)
  PROVE  /\ Cardinality(K) \in Nat
         /\ \A i \in K : Cardinality({j \in K : j <= i}) \in 1 .. Cardinality(K)
         /\ \A i, j \in K : i < j => Cardinality({l \in K : l <= i}) < Cardinality({l \in K : l <= j})
         /\ \A k \in 1 .. Cardinality(K) : \E i \in K : Cardinality({j \in K : j <= i}) = k
<1> DEFINE n == Cardinality(K)
           Upto(i) == {j \in K : j <= i}
           f == [i \in K |-> Cardinality(Upto(i))]
<1>1. n \in Nat /\ K \subseteq Nat
  BY FS_CardinalityType
<1>2. ASSUME NEW i \in K
      PROVE  IsFiniteSet(Upto(i)) /\ Cardinality(Upto(i)) \in Nat /\ Cardinality(Upto(i)) <= n
  <2>1. Upto(i) \subseteq K
    OBVIOUS
  <2>2. IsFiniteSet(Upto(i)) /\ Cardinality(Upto(i)) <= n
    BY <2>1, FS_Subset
  <2>3. QED
    BY <2>2, FS_CardinalityType
<1>3. ASSUME NEW i \in K PROVE Cardinality(Upto(i)) \in 1 .. n
  <2>1. i \in Upto(i)
    BY <1>1
  <2>2. Cardinality(Upto(i)) # 0
    BY <1>2, <2>1, FS_EmptySet
  <2>3. QED
    BY <1>1, <1>2, <2>2
<1>4. ASSUME NEW i \in K, NEW j \in K, i < j
      PROVE  Cardinality(Upto(i)) < Cardinality(Upto(j))
  <2>1. Upto(i) \subseteq Upto(j) /\ j \in Upto(j) /\ j \notin Upto(i)
    <3>1. i \in Nat /\ j \in Nat
      BY <1>1
    <3>2. \A l \in Nat : l <= i => l <= j
      BY <1>4, <3>1
    <3>3. ~(j <= i) /\ j <= j
      BY <1>4, <3>1
    <3>4. QED
      BY <1>1, <3>2, <3>3
  <2>2. Upto(i) \in SUBSET Upto(j) /\ Upto(i) # Upto(j)
    BY <2>1
  <2> HIDE DEF Upto
  <2>3. /\ Cardinality(Upto(i)) <= Cardinality(Upto(j))
        /\ Cardinality(Upto(i)) # Cardinality(Upto(j))
    BY <1>2, <2>2, FS_Subset
  <2>4. QED
    BY <1>2, <2>3
<1>5. f \in Injection(K, 1 .. n)
  <2>1. f \in [K -> 1 .. n]
    BY <1>3
  <2>2. ASSUME NEW i \in K, NEW j \in K, i # j PROVE f[i] # f[j]
    <3>1. i < j \/ j < i
      BY <2>2
    <3>2. f[i] < f[j] \/ f[j] < f[i]
      BY <1>4, <3>1
    <3>3. f[i] \in Nat /\ f[j] \in Nat
      BY <1>3, <1>1
    <3>4. QED
      BY <3>2, <3>3
  <2>3. QED
    BY <2>1, <2>2 DEF Injection, IsInjective
<1>6. IsFiniteSet(1 .. n) /\ Cardinality(1 .. n) = n
  BY <1>1, UpTo
<1>7. \A k \in 1 .. n : \E i \in K : Cardinality(Upto(i)) = k
  <2> HIDE DEF f, n
  <2>1. f \in Surjection(K, 1 .. n)
    BY <1>5, <1>6, FS_Injection DEF n
  <2>2. ASSUME NEW k \in 1 .. n PROVE \E i \in K : f[i] = k
    BY <2>1 DEF Surjection
  <2>3. QED
    BY <2>2 DEF f
<1>8. QED
  BY <1>1, <1>3, <1>4, <1>7

(* What Kept gives: the elements of s in T, in the order in which they     *)
(* first come, each standing behind as many as come before it.             *)
Firsts(s, T) == {k \in DOMAIN s : s[k] \in T /\ \A j \in DOMAIN s : j < k => s[j] # s[k]}
At(s, T, i) == Cardinality({j \in Firsts(s, T) : j <= i})

LEMMA Least ==
  ASSUME NEW S \in SUBSET Nat, IsFiniteSet(S), S # {}
  PROVE  \E x \in S : \A y \in S : x <= y
<1>1. Cardinality(S) \in Nat /\ Cardinality(S) # 0
  BY FS_EmptySet, FS_CardinalityType
<1> DEFINE rank(i) == Cardinality({j \in S : j <= i})
<1>2. /\ \A i \in S : rank(i) \in 1 .. Cardinality(S)
      /\ \A i, j \in S : i < j => rank(i) < rank(j)
      /\ \A k \in 1 .. Cardinality(S) : \E i \in S : rank(i) = k
  BY Ranks
<1> HIDE DEF rank
<1>3. PICK x \in S : rank(x) = 1
  BY <1>1, <1>2
<1>4. \A y \in S : ~(y < x)
  BY <1>1, <1>2, <1>3
<1>5. QED
  BY <1>4

LEMMA Earliest ==
  ASSUME NEW S, NEW s \in Seq(S), NEW T, NEW i \in DOMAIN s, s[i] \in T
  PROVE  \E m \in Firsts(s, T) : m <= i /\ s[m] = s[i]
<1> DEFINE P == {m \in DOMAIN s : s[m] = s[i]}
<1>1. DOMAIN s = 1 .. Len(s) /\ Len(s) \in Nat
  OBVIOUS
<1>2. IsFiniteSet(DOMAIN s) /\ P \subseteq DOMAIN s
  BY <1>1, UpTo
<1>3. IsFiniteSet(P) /\ P \in SUBSET Nat /\ i \in P
  BY <1>1, <1>2, FS_Subset
<1>4. PICK m \in P : \A y \in P : m <= y
  <2> HIDE DEF P
  <2>1. QED
    BY <1>3, Least
<1>5. m <= i /\ s[m] = s[i] /\ m \in DOMAIN s /\ m \in Nat
  BY <1>3, <1>4
<1>6. ASSUME NEW j \in DOMAIN s, j < m PROVE s[j] # s[m]
  <2>1. ~(m <= j)
    BY <1>1, <1>5, <1>6
  <2>2. QED
    BY <1>4, <1>5, <2>1
<1>7. m \in Firsts(s, T)
  BY <1>5, <1>6 DEF Firsts
<1>8. QED
  BY <1>5, <1>7

LEMMA FirstsDiffer ==
  ASSUME NEW S, NEW s \in Seq(S), NEW T, NEW i \in Firsts(s, T), NEW j \in Firsts(s, T), s[i] = s[j]
  PROVE  i = j
<1>1. i \in DOMAIN s /\ j \in DOMAIN s /\ i \in Nat /\ j \in Nat
  BY DEF Firsts
<1>2. ~(i < j) /\ ~(j < i)
  BY <1>1 DEF Firsts
<1>3. QED
  BY <1>1, <1>2

LEMMA KeptElements ==
  ASSUME NEW S, NEW s \in Seq(S), NEW T
  PROVE  /\ Kept(s, T) \in Seq(S)
         /\ ToSet(Kept(s, T)) = ToSet(s) \cap T
         /\ \A i \in Firsts(s, T) :
                At(s, T, i) \in DOMAIN Kept(s, T) /\ Kept(s, T)[At(s, T, i)] = s[i]
         /\ \A k \in DOMAIN Kept(s, T) : \E i \in Firsts(s, T) :
                Kept(s, T)[k] = s[i] /\ k = At(s, T, i)
<1> DEFINE K == Firsts(s, T)
           n == Cardinality(K)
           rank(i) == Cardinality({j \in K : j <= i})
           pos == [k \in 1 .. n |-> CHOOSE i \in K : rank(i) = k]
<1>1. /\ DOMAIN s = 1 .. Len(s) /\ Len(s) \in Nat /\ K \subseteq DOMAIN s /\ K \subseteq Nat
  BY DEF Firsts
<1>2. IsFiniteSet(DOMAIN s) /\ Cardinality(DOMAIN s) = Len(s)
  BY <1>1, UpTo
<1>3. IsFiniteSet(K)
  BY <1>1, <1>2, FS_Subset
<1>4. /\ n \in Nat /\ \A i \in K : rank(i) \in 1 .. n
      /\ \A k \in 1 .. n : \E i \in K : rank(i) = k
      /\ \A i, j \in K : i < j => rank(i) < rank(j)
  BY <1>1, <1>3, Ranks
<1>5. Kept(s, T) = [k \in 1 .. n |-> s[CHOOSE i \in K : rank(i) = k]]
  BY DEF Kept, Firsts
<1>6. \A i : At(s, T, i) = rank(i)
  BY DEF At
<1>7. \A i \in K : i \in DOMAIN s /\ s[i] \in T
  BY DEF Firsts
<1> HIDE DEF n, rank, K
<1>9. \A k \in 1 .. n : pos[k] \in K /\ rank(pos[k]) = k
  BY <1>4
<1>10. Kept(s, T) = [k \in 1 .. n |-> s[pos[k]]]
  BY <1>5
<1> HIDE DEF pos
<1>11. DOMAIN Kept(s, T) = 1 .. n /\ \A k \in 1 .. n : Kept(s, T)[k] = s[pos[k]]
  BY <1>10
<1>12. Kept(s, T) \in [1 .. n -> S]
  <2>1. \A i \in DOMAIN s : s[i] \in S
    OBVIOUS
  <2>2. \A k \in 1 .. n : s[pos[k]] \in S
    BY <1>7, <1>9, <2>1
  <2>3. QED
    BY <1>10, <2>2
<1>13. Kept(s, T) \in Seq(S)
  BY <1>4, <1>12, SeqDef
<1>14. \A i \in K : pos[rank(i)] = i
  <2> SUFFICES ASSUME NEW i \in K PROVE pos[rank(i)] = i
    OBVIOUS
  <2>1. rank(i) \in 1 .. n /\ rank(i) \in Int
    BY <1>4
  <2>2. pos[rank(i)] \in K /\ rank(pos[rank(i)]) = rank(i)
    BY <1>9, <2>1
  <2>3. ~(pos[rank(i)] < i) /\ ~(i < pos[rank(i)])
    BY <1>4, <2>1, <2>2
  <2>4. pos[rank(i)] \in Nat /\ i \in Nat
    BY <1>1, <2>2
  <2>5. QED
    BY <2>3, <2>4
<1>15. \A i \in K : rank(i) \in DOMAIN Kept(s, T) /\ Kept(s, T)[rank(i)] = s[i]
  BY <1>4, <1>11, <1>14
<1>16. ToSet(Kept(s, T)) = ToSet(s) \cap T
  <2>1. ASSUME NEW x \in ToSet(Kept(s, T)) PROVE x \in ToSet(s) \cap T
    BY <1>7, <1>9, <1>11 DEF ToSet
  <2>2. ASSUME NEW x \in ToSet(s) \cap T PROVE x \in ToSet(Kept(s, T))
    <3>1. PICK i \in DOMAIN s : s[i] = x
      BY DEF ToSet
    <3>2. PICK m \in K : s[m] = s[i]
      BY <3>1, Earliest DEF K
    <3>3. QED
      BY <1>15, <3>1, <3>2 DEF ToSet
  <2>3. QED
    BY <2>1, <2>2
<1>17. \A k \in DOMAIN Kept(s, T) : \E i \in K : Kept(s, T)[k] = s[i] /\ k = rank(i)
  BY <1>9, <1>11
<1>18. QED
  BY <1>6, <1>13, <1>15, <1>16, <1>17 DEF K

LEMMA KeptPages ==
  ASSUME NEW s \in Seq(Pages), NEW T
  PROVE  Kept(s, T) \in Seq(Pages) /\ ToSet(Kept(s, T)) = ToSet(s) \cap T
BY KeptElements

LEMMA ConcatPages ==
  ASSUME NEW s \in Seq(Pages), NEW t \in Seq(Pages)
  PROVE  s \o t \in Seq(Pages) /\ ToSet(s \o t) = ToSet(s) \cup ToSet(t)
<1>1. s \o t \in Seq(Pages) /\ DOMAIN (s \o t) = 1 .. Len(s) + Len(t)
  OBVIOUS
<1>2. ASSUME NEW x \in ToSet(s \o t) PROVE x \in ToSet(s) \cup ToSet(t)
  <2>1. PICK i \in 1 .. Len(s) + Len(t) : x = (s \o t)[i]
    BY <1>1 DEF ToSet
  <2>2. CASE i <= Len(s)
    BY <2>1, <2>2 DEF ToSet
  <2>3. CASE i > Len(s)
    <3>1. x = t[i - Len(s)] /\ i - Len(s) \in 1 .. Len(t)
      BY <2>1, <2>3
    <3>2. QED
      BY <3>1 DEF ToSet
  <2>4. QED
    BY <2>2, <2>3
<1>3. ASSUME NEW x \in ToSet(s) PROVE x \in ToSet(s \o t)
  <2>1. PICK i \in 1 .. Len(s) : x = s[i]
    BY DEF ToSet
  <2>2. x = (s \o t)[i] /\ i \in 1 .. Len(s) + Len(t)
    BY <2>1
  <2>3. QED
    BY <1>1, <2>2 DEF ToSet
<1>4. ASSUME NEW x \in ToSet(t) PROVE x \in ToSet(s \o t)
  <2>1. PICK i \in 1 .. Len(t) : x = t[i]
    BY DEF ToSet
  <2>2. x = (s \o t)[i + Len(s)] /\ i + Len(s) \in 1 .. Len(s) + Len(t)
    BY <2>1
  <2>3. QED
    BY <1>1, <2>2 DEF ToSet
<1>5. QED
  BY <1>1, <1>2, <1>3, <1>4

LEMMA ToSetFacts ==
  ASSUME NEW s \in Seq(Pages)
  PROVE  /\ ToSet(s) \subseteq Pages
         /\ \A p \in Pages : Append(s, p) \in Seq(Pages) /\ ToSet(Append(s, p)) = ToSet(s) \cup {p}
         /\ \A p \in Pages : <<p>> \o s \in Seq(Pages) /\ ToSet(<<p>> \o s) = ToSet(s) \cup {p}
<1>1. ToSet(s) \subseteq Pages
  BY DEF ToSet
<1>2. ASSUME NEW p \in Pages PROVE Append(s, p) \in Seq(Pages) /\ ToSet(Append(s, p)) = ToSet(s) \cup {p}
  <2>1. Append(s, p) \in Seq(Pages) /\ DOMAIN Append(s, p) = 1 .. Len(s) + 1
        /\ Append(s, p)[Len(s) + 1] = p /\ \A i \in 1 .. Len(s) : Append(s, p)[i] = s[i]
    OBVIOUS
  <2>2. DOMAIN s = 1 .. Len(s) /\ Len(s) \in Nat
    OBVIOUS
  <2>3. 1 .. Len(s) + 1 = (1 .. Len(s)) \cup {Len(s) + 1}
    BY <2>2
  <2>4. QED
    BY <2>1, <2>2, <2>3 DEF ToSet
<1>3. ASSUME NEW p \in Pages PROVE <<p>> \o s \in Seq(Pages) /\ ToSet(<<p>> \o s) = ToSet(s) \cup {p}
  <2>1. <<p>> \in Seq(Pages) /\ ToSet(<<p>>) = {p}
    BY DEF ToSet
  <2>2. DEFINE t == <<p>>
  <2>3. t \in Seq(Pages) /\ ToSet(t) = {p}
    BY <2>1
  <2> HIDE DEF t
  <2>4. t \o s \in Seq(Pages) /\ ToSet(t \o s) = ToSet(t) \cup ToSet(s)
    BY <2>3, ConcatPages
  <2>5. ToSet(t \o s) = ToSet(s) \cup {p}
    BY <2>3, <2>4
  <2>6. QED
    BY <2>4, <2>5 DEF t
<1>4. QED
  BY <1>1, <1>2, <1>3

-----------------------------------------------------------------------------
(* What the helpers do.                                                    *)

LEMMA OpenDoes ==
  ASSUME PageTypes, NEW d \in Pages, Open(d)
  PROVE  /\ NewPage \in Pages /\ opened' = NewPage /\ NewPage = opened + 1 /\ opened' \in 1 .. MaxPages
         /\ live' \in Seq(Pages) /\ ToSet(live') = ToSet(live) \cup {NewPage}
         /\ doc' \in [Pages -> Pages] /\ doc'[NewPage] = d
         /\ \A p \in Pages : p # NewPage => doc'[p] = doc[p]
<1>1. NewPage \in Pages /\ opened' = NewPage /\ NewPage = opened + 1 /\ opened' \in 1 .. MaxPages
  BY Bounds DEF PageTypes, Open, NewPage, Pages
<1>2. live \in Seq(Pages) /\ live' \in {<<NewPage>> \o live, Append(live, NewPage)}
  BY DEF PageTypes, Open
<1>3. live' \in Seq(Pages) /\ ToSet(live') = ToSet(live) \cup {NewPage}
  BY <1>1, <1>2, ToSetFacts
<1>4. doc' = [doc EXCEPT ![NewPage] = d] /\ doc \in [Pages -> Pages]
  BY DEF PageTypes, Open
<1>5. QED
  BY <1>1, <1>3, <1>4

LEMMA CloseDoes ==
  ASSUME PageTypes, NEW S, Close(S)
  PROVE  /\ live' \in Seq(Pages) /\ ToSet(live') = ToSet(live) \ S
         /\ reg' = {r \in reg : r[2] \notin S}
<1>1. live \in Seq(Pages) /\ live' = Kept(live, ToSet(live) \ S)
  BY DEF PageTypes, Close
<1>2. ToSet(live') = ToSet(live) \cap (ToSet(live) \ S) /\ live' \in Seq(Pages)
  BY <1>1, KeptPages
<1>3. QED
  BY <1>2 DEF Close

LEMMA CloseTypes ==
  ASSUME Shape, NEW S, Close(S)
  PROVE  live' \in Seq(Pages) /\ reg' \in SUBSET Regs /\ IsFiniteSet(reg')
<1>1. live' \in Seq(Pages) /\ reg' = {r \in reg : r[2] \notin S}
  BY CloseDoes DEF Shape
<1>2. reg' \subseteq reg
  BY <1>1
<1>3. QED
  BY <1>1, <1>2, FS_Subset DEF Shape, ScriptTypes

LEMMA LastOrBefore ==
  ASSUME NEW n \in Nat
  PROVE  /\ \A k \in 1 .. n : k = n \/ k \in 1 .. n - 1
         /\ \A k \in 1 .. n - 1 : k \in 1 .. n /\ k # n
OBVIOUS

LEMMA OrderWrites ==
  ASSUME NEW s \in Seq(Pages)
  PROVE  /\ \A p \in Pages, raced \in BOOLEAN : \A t \in Appended(s, p, raced) :
                t \in Seq(Pages) /\ ToSet(t) \subseteq ToSet(s) \cup {p}
         /\ \A i \in DOMAIN s, raced \in BOOLEAN : \A t \in Removed(s, i, raced) :
                t \in Seq(Pages) /\ ToSet(t) \subseteq ToSet(s)
<1>1. DOMAIN s = 1 .. Len(s) /\ Len(s) \in Nat /\ \A k \in 1 .. Len(s) : s[k] \in Pages
  OBVIOUS
<1>2. ASSUME NEW p \in Pages, NEW raced \in BOOLEAN, NEW t \in Appended(s, p, raced)
      PROVE  t \in Seq(Pages) /\ ToSet(t) \subseteq ToSet(s) \cup {p}
  <2>1. t = Append(s, p) \/ t = s
    BY DEF Appended
  <2>2. QED
    BY <2>1, ToSetFacts
<1>3. ASSUME NEW i \in DOMAIN s
      PROVE  /\ Without(s, i) \in Seq(Pages) /\ ToSet(Without(s, i)) \subseteq ToSet(s)
             /\ MovedDown(s, i) \in Seq(Pages) /\ ToSet(MovedDown(s, i)) \subseteq ToSet(s)
  <2>1. i \in Nat /\ Len(s) - 1 \in Nat
    BY <1>1
  <2>2. \A k \in 1 .. Len(s) - 1 : k \in 1 .. Len(s) /\ k + 1 \in 1 .. Len(s)
    BY <1>1
  <2>3. \A k \in 1 .. Len(s) - 1 : Without(s, i)[k] \in {s[k], s[k + 1]}
    BY DEF Without
  <2>4. Without(s, i) \in [1 .. Len(s) - 1 -> Pages]
    BY <1>1, <2>2 DEF Without
  <2>5. \A k \in 1 .. Len(s) : k = Len(s) \/ k \in 1 .. Len(s) - 1
    BY <1>1, LastOrBefore
  <2>7. \A k \in 1 .. Len(s) : \E m \in 1 .. Len(s) : MovedDown(s, i)[k] = s[m]
    <3>1. SUFFICES ASSUME NEW k \in 1 .. Len(s)
                   PROVE  \E m \in 1 .. Len(s) : MovedDown(s, i)[k] = s[m]
      OBVIOUS
    <3>2. MovedDown(s, i)[k] = IF k < i \/ k = Len(s) THEN s[k] ELSE s[k + 1]
      BY DEF MovedDown
    <3>3. MovedDown(s, i)[k] = s[k] \/ (k # Len(s) /\ MovedDown(s, i)[k] = s[k + 1])
      BY <3>2
    <3>4. QED
      BY <2>2, <2>5, <3>3
  <2>6. MovedDown(s, i) \in [1 .. Len(s) -> Pages]
    <3>1. MovedDown(s, i) = [k \in 1 .. Len(s) |-> MovedDown(s, i)[k]]
      BY DEF MovedDown
    <3>2. \A k \in 1 .. Len(s) : MovedDown(s, i)[k] \in Pages
      BY <1>1, <2>7
    <3>3. QED
      BY <3>1, <3>2
  <2>8. \A k \in 1 .. Len(s) - 1 : \E m \in 1 .. Len(s) : Without(s, i)[k] = s[m]
    BY <2>2, <2>3
  <2>9. Without(s, i) \in Seq(Pages) /\ MovedDown(s, i) \in Seq(Pages)
    BY <1>1, <2>1, <2>4, <2>6, SeqDef
  <2>10. DOMAIN Without(s, i) = 1 .. Len(s) - 1 /\ DOMAIN MovedDown(s, i) = 1 .. Len(s)
    BY DEF Without, MovedDown
  <2>11. ToSet(Without(s, i)) \subseteq ToSet(s)
    BY <1>1, <2>8, <2>10 DEF ToSet
  <2>12. ToSet(MovedDown(s, i)) \subseteq ToSet(s)
    BY <1>1, <2>7, <2>10 DEF ToSet
  <2>13. QED
    BY <2>9, <2>11, <2>12
<1>4. ASSUME NEW i \in DOMAIN s, NEW raced \in BOOLEAN, NEW t \in Removed(s, i, raced)
      PROVE  t \in Seq(Pages) /\ ToSet(t) \subseteq ToSet(s)
  <2>1. t = Without(s, i) \/ t = MovedDown(s, i) \/ t = s
    BY DEF Removed
  <2>2. QED
    BY <1>3, <2>1
<1>5. QED
  BY <1>2, <1>4

LEMMA ResetTypes ==
  ASSUME PageTypes, NEW h \in Handlers, ResetOrder(h)
  PROVE  pageOrder' \in Seq(Pages) /\ ToSet(pageOrder') \subseteq ToSet(pageOrder)
<1>1. pageOrder' = <<>> \/ pageOrder' = pageOrder
  BY DEF ResetOrder
<1>2. ToSet(<<>>) = {} /\ <<>> \in Seq(Pages)
  BY DEF ToSet
<1>3. QED
  BY <1>1, <1>2 DEF PageTypes

LEMMA OrderedTypes ==
  ASSUME PageTypes
  PROVE  orderedPages \in Seq(Pages) /\ ToSet(orderedPages) = ToSet(live)
<1> DEFINE s == Kept(pageOrder, ToSet(live))
           t == Kept(live, ToSet(live) \ ToSet(pageOrder))
<1>1. pageOrder \in Seq(Pages) /\ live \in Seq(Pages)
  BY DEF PageTypes
<1>2. s \in Seq(Pages) /\ ToSet(s) = ToSet(pageOrder) \cap ToSet(live)
  BY <1>1, KeptPages
<1>3. t \in Seq(Pages) /\ ToSet(t) = ToSet(live) \cap (ToSet(live) \ ToSet(pageOrder))
  BY <1>1, KeptPages
<1>4. orderedPages = s \o t
  BY DEF orderedPages
<1> HIDE DEF s, t
<1>5. s \o t \in Seq(Pages) /\ ToSet(s \o t) = ToSet(s) \cup ToSet(t)
  BY <1>2, <1>3, ConcatPages
<1>6. QED
  BY <1>2, <1>3, <1>4, <1>5

LEMMA ActiveTypes ==
  ASSUME PageTypes
  PROVE  /\ activePage \in 0 .. MaxPages
         /\ ~ctx.on \/ ctx.page = 0 => activePage = activePg \/ activePage \in ToSet(live) \/ activePage = 0
<1>1. live # <<>> => Head(live) \in ToSet(live) /\ Head(live) \in Pages
  BY DEF PageTypes, ToSet
<1>2. QED
  BY <1>1, PageNumbers DEF PageTypes, activePage

LEMMA RequestedPages ==
  ASSUME PageTypes
  PROVE  pageFromRequest \subseteq 0 .. MaxPages
<1>1. ToSet(orderedPages) \subseteq Pages
  BY OrderedTypes, ToSetFacts
<1>2. QED
  BY <1>1, ActiveTypes, PageNumbers DEF pageFromRequest

LEMMA ResolvedTypes ==
  ASSUME PageTypes, NEW alias \in Aliases
  PROVE  resolveTabAlias(alias) \in Int
<1>1. Len(pageOrder) \in Nat /\ DOMAIN pageOrder = 1 .. Len(pageOrder) /\ pageOrder \in Seq(Pages)
  BY DEF PageTypes
<1>2. activePage \in ToSet(pageOrder) =>
        (CHOOSE i \in First(pageOrder, activePage) : TRUE) \in 1 .. Len(pageOrder)
  <2>1. SUFFICES ASSUME activePage \in ToSet(pageOrder)
                 PROVE  \E i \in First(pageOrder, activePage) : i \in 1 .. Len(pageOrder)
    BY <1>1 DEF First, Positions
  <2>2. PICK k \in DOMAIN pageOrder : pageOrder[k] = activePage
    BY <2>1 DEF ToSet
  <2>3. PICK m \in Firsts(pageOrder, {pageOrder[k]}) : m <= k /\ pageOrder[m] = pageOrder[k]
    <3>1. pageOrder[k] \in {pageOrder[k]}
      OBVIOUS
    <3>2. QED
      BY <1>1, <3>1, Earliest
  <2>4. m \in Positions(pageOrder, activePage) /\ m \in Nat
    BY <1>1, <2>2, <2>3 DEF Firsts, Positions
  <2>5. \A j \in Positions(pageOrder, activePage) : m <= j
    BY <1>1, <2>2, <2>3, <2>4 DEF Firsts, Positions
  <2>6. QED
    BY <1>1, <2>4, <2>5 DEF First, Positions
<1>3. alias \in {"all", "active", "last", "next"} \/ alias \in Nat
  BY AliasesAssumption
<1>4. CASE alias \in {"all", "active", "last", "next"}
  BY <1>1, <1>2, <1>4 DEF resolveTabAlias
<1>5. CASE alias \in Nat
  BY <1>1, <1>2, <1>5 DEF resolveTabAlias
<1>6. QED
  BY <1>3, <1>4, <1>5

LEMMA FilterTypes ==
  ASSUME PageTypes, NEW i \in Int
  PROVE  /\ pagesForFilter(i) \in Seq(Pages) /\ ToSet(pagesForFilter(i)) \subseteq ToSet(live)
         /\ i < 0 => ToSet(pagesForFilter(i)) = ToSet(live)
<1>1. orderedPages \in Seq(Pages) /\ ToSet(orderedPages) = ToSet(live)
  BY OrderedTypes
<1>2. CASE i < 0
  BY <1>1, <1>2 DEF pagesForFilter
<1>3. CASE i >= 0 /\ i < Len(orderedPages)
  <2>1. orderedPages[i + 1] \in Pages /\ orderedPages[i + 1] \in ToSet(orderedPages)
    <3>1. i + 1 \in DOMAIN orderedPages
      BY <1>1, <1>3
    <3>2. QED
      BY <1>1, <3>1 DEF ToSet
  <2>2. pagesForFilter(i) = <<orderedPages[i + 1]>>
    BY <1>3 DEF pagesForFilter
  <2>3. ToSet(<<orderedPages[i + 1]>>) = {orderedPages[i + 1]} /\ <<orderedPages[i + 1]>> \in Seq(Pages)
    BY <2>1 DEF ToSet
  <2>4. QED
    BY <1>1, <1>3, <2>1, <2>2, <2>3
<1>4. CASE i >= 0 /\ ~(i < Len(orderedPages))
  <2>1. pagesForFilter(i) = <<>>
    BY <1>4 DEF pagesForFilter
  <2>2. <<>> \in Seq(Pages) /\ ToSet(<<>>) = {}
    BY DEF ToSet
  <2>3. QED
    BY <1>4, <2>1, <2>2
<1>5. QED
  BY <1>2, <1>3, <1>4


-----------------------------------------------------------------------------
(* Every step keeps the types.                                             *)

LEMMA InitShape == Init => Shape
<1>1. NoFile \in Files /\ 1 \in Pages /\ 1 \in 1 .. MaxPages
  BY Bounds DEF NoFile, Files, Pages
<1>2. <<1>> \in Seq(Pages)
  BY <1>1
<1>3. Init => at \in [Handlers -> Locals]
  BY IdleLocal DEF Init
<1>4. QED
  BY <1>1, <1>2, <1>3, Bounds, FS_EmptySet DEF Init, Shape, PageTypes, ScriptTypes, Ghosts, Regs, Scripts

LEMMA AfterDoes ==
  ASSUME at \in [Handlers -> Locals], NEW h \in Handlers, After(h)
  PROVE  /\ at' \in [Handlers -> Locals] /\ OthersSame(h) /\ \A g \in Handlers \ {h} : at'[g] = at[g]
         /\ \/ at[h].then = "end" /\ at'[h] = Idle
            \/ at[h].then # "end" /\ at'[h] = With(at[h], [step |-> at[h].then])
<1>1. CASE at[h].then = "end"
  BY <1>1, EndDoes DEF After
<1>2. CASE at[h].then # "end"
  <2>1. at[h] \in Locals
    OBVIOUS
  <2>2. With(at[h], [step |-> at[h].then]) \in Locals
    BY <1>2, <2>1 DEF Locals, Fields, With, Steps
  <2>3. QED
    BY <1>2, <2>2, GotoDoes DEF After
<1>3. QED
  BY <1>1, <1>2

LEMMA TrackLookupShape ==
  ASSUME Shape, NEW h \in Handlers, TrackLookup(h)
  PROVE  Shape'
<1> DEFINE p == IF at[h].fg THEN activePg ELSE at[h].page
<1>1. at[h] \in Locals /\ at \in [Handlers -> Locals] /\ p \in 0 .. MaxPages
  BY DEF Shape, PageTypes, Locals, Fields
<1>2. ghost' \in Ghosts
  BY <1>1 DEF Shape, Ghosts, TrackLookup
<1>3. CASE End(h)
  BY <1>1, <1>2, <1>3, EndDoes DEF TrackLookup, Shape, PageTypes, ScriptTypes, tabVars, scriptVars
<1>4. CASE After(h)
  BY <1>1, <1>2, <1>4, AfterDoes DEF TrackLookup, Shape, PageTypes, ScriptTypes, tabVars, scriptVars
<1>5. CASE p # 0 /\ Goto(h, [step |-> "append", page |-> p])
  <2>1. With(at[h], [step |-> "append", page |-> p]) \in Locals
    <3>1. p # 0
      BY <1>5
    <3>2. QED
      BY <1>1, <3>1 DEF Locals, Fields, With, Steps, Shape, PageTypes
  <2>2. at' \in [Handlers -> Locals]
    BY <1>1, <1>5, <2>1, GotoDoes
  <2>3. QED
    BY <1>2, <2>2 DEF TrackLookup, Shape, PageTypes, ScriptTypes, tabVars, scriptVars
<1>6. QED
  BY <1>3, <1>4, <1>5 DEF TrackLookup

LEMMA TrackAppendShape ==
  ASSUME Shape, NEW h \in Handlers, TrackAppend(h)
  PROVE  Shape'
<1>1. at[h] \in Locals /\ at \in [Handlers -> Locals]
  BY DEF Shape
<1>2. pageOrder' \in Seq(Pages)
  <2>1. at[h].page \in Pages
    BY <1>1 DEF TrackAppend, Locals, Fields, Pages
  <2>2. pageOrder \in Seq(Pages) /\ Raced(h) \in BOOLEAN
    BY DEF Shape, PageTypes, Raced
  <2>3. QED
    BY <2>1, <2>2, OrderWrites DEF TrackAppend
<1>8. With(at[h], [step |-> "copy"]) \in Locals
  BY <1>1 DEF Locals, Fields, With, Steps, Shape, PageTypes, ScriptTypes
<1>9. at' \in [Handlers -> Locals]
  BY <1>1, <1>8, GotoDoes DEF TrackAppend
<1>10. QED
  BY <1>1, <1>9, <1>2, PageNumbers DEF TrackAppend, Shape, PageTypes, ScriptTypes, tabVars, scriptVars

LEMMA ApplyCopyShape ==
  ASSUME Shape, NEW h \in Handlers, ApplyCopy(h)
  PROVE  Shape'
<1>1. at[h] \in Locals /\ at \in [Handlers -> Locals]
  BY DEF Shape
<1>8. With(at[h], [step |-> "register", todo |-> global]) \in Locals
  BY <1>1 DEF Locals, Fields, With, Steps, Shape, PageTypes, ScriptTypes
<1>9. at' \in [Handlers -> Locals]
  BY <1>1, <1>8, GotoDoes DEF ApplyCopy
<1>10. QED
  BY <1>1, <1>9, PageNumbers DEF ApplyCopy, Shape, PageTypes, ScriptTypes, tabVars, scriptVars

LEMMA ApplyDoneShape ==
  ASSUME Shape, NEW h \in Handlers, ApplyDone(h)
  PROVE  Shape'
<1>1. at[h] \in Locals /\ at \in [Handlers -> Locals]
  BY DEF Shape
<1>9. at' \in [Handlers -> Locals]
  BY <1>1, AfterDoes DEF ApplyDone
<1>10. QED
  BY <1>1, <1>9, PageNumbers DEF ApplyDone, Shape, PageTypes, ScriptTypes, tabVars, scriptVars

LEMMA TabCloseStartShape ==
  ASSUME Shape, NEW h \in Handlers, NEW p, TabCloseStart(h, p)
  PROVE  Shape'
<1>1. at[h] \in Locals /\ at \in [Handlers -> Locals]
  BY DEF Shape
<1>2. p \in 0 .. MaxPages /\ Quiet \in BOOLEAN
  BY RequestedPages DEF TabCloseStart, Shape, Quiet
<1>8. With(Idle, [step |-> "untrack", page |-> p, alone |-> Quiet]) \in Locals
  BY <1>1, IdleLocal, <1>2 DEF Locals, Fields, With, Steps, Shape, PageTypes, ScriptTypes
<1>9. at' \in [Handlers -> Locals] /\ ops' \in 0 .. MaxOps
  BY <1>8, StartDoes DEF TabCloseStart
<1>10. QED
  BY <1>1, <1>9, <1>2, PageNumbers DEF TabCloseStart, Shape, PageTypes, ScriptTypes, tabVars, scriptVars

LEMMA UntrackLookupShape ==
  ASSUME Shape, NEW h \in Handlers, UntrackLookup(h)
  PROVE  Shape'
<1>1. at[h] \in Locals /\ at \in [Handlers -> Locals]
  BY DEF Shape
<1>2. With(at[h], [step |-> "close"]) \in Locals
  BY <1>1 DEF Locals, Fields, With, Steps
<1>3. ASSUME NEW i \in First(pageOrder, at[h].page)
      PROVE  With(at[h], [step |-> "remove", n |-> i]) \in Locals
  <2>1. i \in Nat
    BY DEF First, Positions, Shape, PageTypes
  <2>2. QED
    BY <1>1, <2>1 DEF Locals, Fields, With, Steps
<1>4. at' \in [Handlers -> Locals]
  BY <1>1, <1>2, <1>3, GotoDoes DEF UntrackLookup
<1>5. QED
  BY <1>4 DEF UntrackLookup, Shape, PageTypes, ScriptTypes, tabVars, scriptVars

LEMMA UntrackRemoveShape ==
  ASSUME Shape, NEW h \in Handlers, UntrackRemove(h)
  PROVE  Shape'
<1>1. at[h] \in Locals /\ at \in [Handlers -> Locals] /\ pageOrder \in Seq(Pages)
  BY DEF Shape, PageTypes
<1>2. With(at[h], [step |-> "close", n |-> 0]) \in Locals
  BY <1>1 DEF Locals, Fields, With, Steps
<1>3. at' \in [Handlers -> Locals]
  BY <1>1, <1>2, GotoDoes, EndDoes DEF UntrackRemove
<1>4. pageOrder' \in Seq(Pages)
  BY <1>1, OrderWrites DEF UntrackRemove, Raced
<1>5. QED
  BY <1>3, <1>4 DEF UntrackRemove, Shape, PageTypes, ScriptTypes, scriptVars

LEMMA TabCloseCloseShape ==
  ASSUME Shape, NEW h \in Handlers, TabCloseClose(h)
  PROVE  Shape'
<1>1. at[h] \in Locals /\ at \in [Handlers -> Locals]
  BY DEF Shape
<1>2. live' \in Seq(Pages) /\ reg' \in SUBSET Regs /\ IsFiniteSet(reg')
  BY CloseTypes DEF TabCloseClose
<1>3. With(at[h], [step |-> "forget"]) \in Locals
  BY <1>1 DEF Locals, Fields, With, Steps
<1>4. at' \in [Handlers -> Locals]
  BY <1>1, <1>3, GotoDoes, EndDoes DEF TabCloseClose
<1>5. QED
  BY <1>2, <1>4 DEF TabCloseClose, Shape, PageTypes, ScriptTypes

LEMMA TabCloseForgetShape ==
  ASSUME Shape, NEW h \in Handlers, TabCloseForget(h)
  PROVE  Shape'
<1>1. at[h] \in Locals /\ at \in [Handlers -> Locals]
  BY DEF Shape
<1>9. at' \in [Handlers -> Locals]
  BY <1>1, EndDoes DEF TabCloseForget
<1>10. QED
  BY <1>1, <1>9, Bounds, PageNumbers DEF TabCloseForget, Shape, PageTypes, ScriptTypes, tabVars, scriptVars

LEMMA TabSwitchShape ==
  ASSUME Shape, NEW h \in Handlers, NEW p, TabSwitch(h, p)
  PROVE  Shape'
<1>1. at[h] \in Locals /\ at \in [Handlers -> Locals]
  BY DEF Shape
<1>2. p \in Pages
  BY ToSetFacts DEF TabSwitch, IsLive, Shape, PageTypes
<1>9. at' \in [Handlers -> Locals] /\ ops' \in 0 .. MaxOps
  BY ServeDoes DEF TabSwitch
<1>10. QED
  BY <1>1, <1>9, <1>2, PageNumbers DEF TabSwitch, Shape, PageTypes, ScriptTypes, tabVars, scriptVars

LEMMA TabNewShape ==
  ASSUME Shape, NEW h \in Handlers, NEW fg \in BOOLEAN, NEW activate \in BOOLEAN, TabNew(h, fg, activate)
  PROVE  Shape'
<1>1. at[h] \in Locals /\ at \in [Handlers -> Locals]
  BY DEF Shape
<1>2. ASSUME NEW d \in Pages, Open(d) PROVE NewPage \in Pages /\ NewPage \in 0 .. MaxPages /\ opened' \in 1 .. MaxPages /\ live' \in Seq(Pages) /\ doc' \in [Pages -> Pages]
  BY <1>2, OpenDoes, PageNumbers DEF Shape
<1>3. NewPage \in Pages /\ NewPage \in 0 .. MaxPages /\ opened' \in 1 .. MaxPages /\ live' \in Seq(Pages) /\ doc' \in [Pages -> Pages]
  <2>1. opened + 1 \in Pages
    BY Bounds DEF TabNew, Open, Shape, PageTypes, Pages
  <2>2. QED
    BY <1>2, <2>1 DEF TabNew, NewPage
<1>8. With(Idle, [step |-> "track", page |-> NewPage, fg |-> fg, then |-> "end"]) \in Locals
  BY <1>1, IdleLocal, <1>3 DEF Locals, Fields, With, Steps, Shape, PageTypes, ScriptTypes
<1>9. at' \in [Handlers -> Locals] /\ ops' \in 0 .. MaxOps
  BY <1>8, StartDoes DEF TabNew
<1>10. QED
  BY <1>1, <1>9, <1>3, PageNumbers DEF TabNew, Shape, PageTypes, ScriptTypes, tabVars, scriptVars

LEMMA ContextCreateShape ==
  ASSUME Shape, NEW h \in Handlers, ContextCreate(h)
  PROVE  Shape'
<1>1. at[h] \in Locals /\ at \in [Handlers -> Locals]
  BY DEF Shape
<1>2. ASSUME NEW d \in Pages, Open(d) PROVE NewPage \in Pages /\ NewPage \in 0 .. MaxPages /\ opened' \in 1 .. MaxPages /\ live' \in Seq(Pages) /\ doc' \in [Pages -> Pages]
  BY <1>2, OpenDoes, PageNumbers DEF Shape
<1>3. NewPage \in Pages /\ NewPage \in 0 .. MaxPages /\ opened' \in 1 .. MaxPages /\ live' \in Seq(Pages) /\ doc' \in [Pages -> Pages]
  <2>1. opened + 1 \in Pages
    BY Bounds DEF ContextCreate, Open, Shape, PageTypes, Pages
  <2>2. QED
    BY <1>2, <2>1 DEF ContextCreate, NewPage
<1>9. at' \in [Handlers -> Locals] /\ ops' \in 0 .. MaxOps
  BY ServeDoes DEF ContextCreate
<1>10. QED
  BY <1>1, <1>9, <1>3, PageNumbers DEF ContextCreate, Shape, PageTypes, ScriptTypes, tabVars, scriptVars

LEMMA ContextSwitchShape ==
  ASSUME Shape, NEW h \in Handlers, NEW on \in BOOLEAN, ContextSwitch(h, on)
  PROVE  Shape'
<1>1. at[h] \in Locals /\ at \in [Handlers -> Locals]
  BY DEF Shape
<1>2. ctx' \in [page : 0 .. MaxPages, on : BOOLEAN]
  BY DEF ContextSwitch, Shape, PageTypes
<1>9. at' \in [Handlers -> Locals] /\ ops' \in 0 .. MaxOps
  BY ServeDoes DEF ContextSwitch
<1>10. QED
  BY <1>1, <1>9, <1>2, PageNumbers DEF ContextSwitch, Shape, PageTypes, ScriptTypes, tabVars, scriptVars

LEMMA WithLocal ==
  ASSUME NEW r \in Locals, NEW l,
         "step" \in DOMAIN l => l.step \in Steps \ {"append"},
         "page" \in DOMAIN l => l.page \in 0 .. MaxPages,
         "fg" \in DOMAIN l => l.fg \in BOOLEAN,
         "then" \in DOMAIN l => l.then \in {"end", "setActive", "opened"},
         "todo" \in DOMAIN l => l.todo \in SUBSET Scripts,
         "pages" \in DOMAIN l => l.pages \in Seq(Pages),
         "n" \in DOMAIN l => l.n \in Nat,
         "file" \in DOMAIN l => l.file \in Files,
         "alone" \in DOMAIN l => l.alone \in BOOLEAN,
         "script" \in DOMAIN l => l.script \in Nat,
         "every" \in DOMAIN l => l.every \in BOOLEAN,
         "got" \in DOMAIN l => l.got \in SUBSET Regs,
         "step" \in DOMAIN l, l.step = "add" => "script" \in DOMAIN l /\ l.script \in Scripts,
         l.step = "save" => "file" \in DOMAIN l /\ l.file.active = 1 /\ l.file.tabs = <<>>
  PROVE  With(r, l) \in Locals
BY DEF Locals, Fields, With

LEMMA SessionSaveDoes ==
  ASSUME Shape, NEW h \in Handlers, SessionSave(h)
  PROVE  /\ at' \in [Handlers -> Locals] /\ ops' \in 0 .. MaxOps /\ at[h].step = "idle" /\ OthersSame(h)
         /\ at'[h].step = "save" /\ at'[h].page = 0 /\ at'[h].todo = {} /\ at'[h].pages = live
         /\ at'[h].then = "end" /\ at'[h].file.shown = 0
         /\ \A g \in Handlers : at'[g].alone = FALSE
         /\ UNCHANGED <<tabVars, scriptVars, mu, saved, ghost>>
<1> DEFINE file == [NoFile EXCEPT !.active = 1]
           l == [step |-> "save", pages |-> live, n |-> 0, file |-> file]
<1>1. file \in Files /\ file.active = 1 /\ file.tabs = <<>> /\ file.shown = 0
  <2>1. file = [tabs |-> <<>>, active |-> 1, shown |-> 0]
    BY DEF NoFile
  <2>2. <<>> \in Seq(Pages)
    OBVIOUS
  <2> HIDE DEF file
  <2>3. QED
    BY <2>1, <2>2 DEF Files
<1>2. live \in Seq(Pages)
  BY DEF Shape, PageTypes
<1>3. DOMAIN l = {"step", "pages", "n", "file"} /\ l.step = "save" /\ l.pages = live /\ l.n = 0 /\ l.file = file
  OBVIOUS
<1>4. Start(h, l) /\ UNCHANGED <<tabVars, scriptVars, mu, saved, ghost>>
  BY DEF SessionSave
<1> HIDE DEF file, l
<1>5. With(Idle, l) \in Locals
  BY <1>1, <1>2, <1>3, IdleLocal, WithLocal DEF Steps
<1>6. /\ at' \in [Handlers -> Locals] /\ ops' \in 0 .. MaxOps /\ at[h].step = "idle" /\ OthersSame(h)
      /\ at'[h] = With(Idle, l) /\ \A g \in Handlers \ {h} : at'[g].alone = FALSE
  BY <1>4, <1>5, StartDoes
<1>7. /\ at'[h].step = "save" /\ at'[h].page = Idle.page /\ at'[h].todo = Idle.todo
      /\ at'[h].pages = live /\ at'[h].then = Idle.then /\ at'[h].alone = Idle.alone
      /\ at'[h].file = file
  BY <1>3, <1>6, IdleLocal, WithFields
<1>8. QED
  BY <1>1, <1>4, <1>6, <1>7, IdleFields

LEMMA SessionSaveShape ==
  ASSUME Shape, NEW h \in Handlers, SessionSave(h)
  PROVE  Shape'
BY SessionSaveDoes DEF Shape, PageTypes, ScriptTypes, tabVars, scriptVars

(* One page more, left out of the file or added to it.                     *)
LEMMA SavePageDoes ==
  ASSUME Shape, NEW h \in Handlers, SavePage(h)
  PROVE  /\ at' \in [Handlers -> Locals] /\ OthersSame(h) /\ \A g \in Handlers \ {h} : at'[g] = at[g]
         /\ at[h].step = "save"
         /\ UNCHANGED <<tabVars, scriptVars, mu, saved, ops, ghost>>
         /\ \/ at'[h] = Idle
            \/ /\ at'[h].step = "save" /\ at'[h].page = at[h].page /\ at'[h].todo = at[h].todo
               /\ at'[h].pages = at[h].pages /\ at'[h].then = at[h].then
               /\ Names(at[h].file) => Names(at'[h].file)
<1> DEFINE n == at[h].n
           p == at[h].pages[n + 1]
           f == at[h].file
           seen == ~ctx.on /\ Len(f.tabs) = n
           a == IF activePg = p THEN SavedPosition(h) ELSE f.active
           v == IF activePg = p \/ (activePg = 0 /\ n = 0)
                THEN IF seen THEN doc[p] ELSE 0 ELSE f.shown
           t == Append(f.tabs, doc[p])
           e == [tabs |-> t, active |-> a, shown |-> v]
           lr == [n |-> n + 1, file |-> e]
           ls == [n |-> n + 1]
<1>1. at[h] \in Locals /\ at \in [Handlers -> Locals] /\ at[h].step = "save" /\ n < Len(at[h].pages)
  BY DEF Shape, SavePage
<1>2. n \in Nat /\ at[h].pages \in Seq(Pages) /\ f \in Files
  BY <1>1 DEF Locals, Fields
<1>3. p \in Pages /\ doc[p] \in Pages /\ doc[p] \in Nat /\ n + 1 \in Nat
  <2>1. p \in Pages
    BY <1>1, <1>2
  <2>2. QED
    BY <1>2, <2>1, PageNumbers DEF Shape, PageTypes
<1>4. f.tabs \in Seq(Pages) /\ f.active \in Nat /\ f.shown \in Nat /\ SavedPosition(h) = n + 1
  BY <1>2 DEF Files, SavedPosition
<1>5. t \in Seq(Pages) /\ Len(t) = Len(f.tabs) + 1 /\ t[Len(f.tabs) + 1] = doc[p] /\ Len(f.tabs) \in Nat
      /\ \A i \in 1 .. Len(f.tabs) : t[i] = f.tabs[i]
  BY <1>3, <1>4
<1>6. n = 0 => f.active = 1 /\ f.tabs = <<>>
  BY <1>1 DEF Locals
<1>7. a \in Nat /\ v \in Nat
  BY <1>3, <1>4
<1>8. e \in Files /\ e.tabs = t /\ e.active = a /\ e.shown = v
  BY <1>5, <1>7 DEF Files
<1>9. UNCHANGED <<tabVars, scriptVars, mu, saved, ops, ghost>>
  BY DEF SavePage
<1>10. Goto(h, lr) \/ Goto(h, ls) \/ End(h)
  BY DEF SavePage
<1>11. Names(f) => Names(e)
  <2>1. SUFFICES ASSUME Names(f), v # 0 PROVE a \in 1 .. Len(t) /\ t[a] = v
    BY <1>8 DEF Names
  <2>2. CASE activePg = p \/ (activePg = 0 /\ n = 0)
    <3>1. Len(f.tabs) = n /\ v = doc[p]
      BY <2>1, <2>2
    <3>2. a = n + 1
      BY <1>4, <1>6, <2>2
    <3>3. QED
      BY <1>2, <1>5, <3>1, <3>2
  <2>3. CASE ~(activePg = p \/ (activePg = 0 /\ n = 0))
    <3>1. v = f.shown /\ a = f.active
      BY <2>3
    <3>2. f.active \in 1 .. Len(f.tabs) /\ f.tabs[f.active] = f.shown
      BY <2>1, <3>1 DEF Names
    <3>3. QED
      BY <1>4, <1>5, <3>1, <3>2
  <2>4. QED
    BY <2>2, <2>3
<1> HIDE DEF e
<1>12. CASE Goto(h, lr)
  <2>1. DOMAIN lr = {"n", "file"} /\ lr.n = n + 1 /\ lr.file = e
    OBVIOUS
  <2> HIDE DEF lr
  <2>2. at'[h] = With(at[h], lr) /\ OthersSame(h) /\ \A g \in Handlers \ {h} : at'[g] = at[g]
    BY <1>12, GotoGives
  <2>3. /\ With(at[h], lr).step = "save" /\ With(at[h], lr).page = at[h].page
        /\ With(at[h], lr).todo = at[h].todo /\ With(at[h], lr).pages = at[h].pages
        /\ With(at[h], lr).then = at[h].then /\ With(at[h], lr).file = e /\ With(at[h], lr).n = n + 1
    BY <1>1, <2>1, WithFields
  <2>4. With(at[h], lr) \in Fields
    BY <1>1, <1>3, <1>8, <2>1 DEF Locals, Fields, With
  <2>5. With(at[h], lr) \in Locals
    BY <1>2, <2>3, <2>4 DEF Locals
  <2>6. QED
    BY <1>1, <1>9, <1>11, <1>12, <2>2, <2>3, <2>5, GotoDoes
<1>13. CASE Goto(h, ls)
  <2>1. DOMAIN ls = {"n"} /\ ls.n = n + 1
    OBVIOUS
  <2> HIDE DEF ls
  <2>2. at'[h] = With(at[h], ls) /\ OthersSame(h) /\ \A g \in Handlers \ {h} : at'[g] = at[g]
    BY <1>13, GotoGives
  <2>3. /\ With(at[h], ls).step = "save" /\ With(at[h], ls).page = at[h].page
        /\ With(at[h], ls).todo = at[h].todo /\ With(at[h], ls).pages = at[h].pages
        /\ With(at[h], ls).then = at[h].then /\ With(at[h], ls).file = f /\ With(at[h], ls).n = n + 1
    BY <1>1, <2>1, WithFields
  <2>4. With(at[h], ls) \in Fields
    BY <1>1, <1>3, <2>1 DEF Locals, Fields, With
  <2>5. With(at[h], ls) \in Locals
    BY <1>2, <2>3, <2>4 DEF Locals
  <2>6. QED
    BY <1>1, <1>9, <1>13, <2>2, <2>3, <2>5, GotoDoes
<1>14. CASE End(h)
  BY <1>1, <1>9, <1>14, EndDoes
<1>15. QED
  BY <1>10, <1>12, <1>13, <1>14

LEMMA SavePageShape ==
  ASSUME Shape, NEW h \in Handlers, SavePage(h)
  PROVE  Shape'
BY SavePageDoes DEF Shape, PageTypes, ScriptTypes, tabVars, scriptVars

LEMMA SaveWriteShape ==
  ASSUME Shape, NEW h \in Handlers, SaveWrite(h)
  PROVE  Shape'
<1>1. at[h] \in Locals /\ at \in [Handlers -> Locals]
  BY DEF Shape
<1>2. saved' \in Files
  BY <1>1 DEF SaveWrite, Locals, Fields
<1>3. at' \in [Handlers -> Locals]
  BY <1>1, EndDoes DEF SaveWrite
<1>4. QED
  BY <1>2, <1>3 DEF SaveWrite, Shape, PageTypes, ScriptTypes, tabVars, scriptVars

LEMMA SessionDeleteShape ==
  ASSUME Shape, NEW h \in Handlers, SessionDelete(h)
  PROVE  Shape'
<1>1. at[h] \in Locals /\ at \in [Handlers -> Locals]
  BY DEF Shape
<1>2. saved' \in Files
  BY DEF SessionDelete, Files, NoFile
<1>9. at' \in [Handlers -> Locals] /\ ops' \in 0 .. MaxOps
  BY ServeDoes DEF SessionDelete
<1>10. QED
  BY <1>1, <1>9, <1>2, PageNumbers DEF SessionDelete, Shape, PageTypes, ScriptTypes, tabVars, scriptVars

LEMMA SessionNewOpenShape ==
  ASSUME Shape, NEW h \in Handlers, SessionNewOpen(h)
  PROVE  Shape'
<1>1. at[h] \in Locals /\ at \in [Handlers -> Locals]
  BY DEF Shape
<1>2. ASSUME NEW d \in Pages, Open(d) PROVE NewPage \in Pages /\ NewPage \in 0 .. MaxPages /\ opened' \in 1 .. MaxPages /\ live' \in Seq(Pages) /\ doc' \in [Pages -> Pages]
  BY <1>2, OpenDoes, PageNumbers DEF Shape
<1>3. NewPage \in Pages /\ NewPage \in 0 .. MaxPages /\ opened' \in 1 .. MaxPages /\ live' \in Seq(Pages) /\ doc' \in [Pages -> Pages]
  <2>1. opened + 1 \in Pages
    BY Bounds DEF SessionNewOpen, Open, Shape, PageTypes, Pages
  <2>2. QED
    BY <1>2, <2>1 DEF SessionNewOpen, NewPage
<1>8. With(Idle, [step |-> "closeOthers", page |-> NewPage, fg |-> FALSE, then |-> "setActive"]) \in Locals
  BY <1>1, IdleLocal, <1>3 DEF Locals, Fields, With, Steps, Shape, PageTypes, ScriptTypes
<1>9. at' \in [Handlers -> Locals] /\ ops' \in 0 .. MaxOps
  BY <1>8, StartDoes DEF SessionNewOpen
<1>10. QED
  BY <1>1, <1>9, <1>3, PageNumbers DEF SessionNewOpen, Shape, PageTypes, ScriptTypes, tabVars, scriptVars

LEMMA SessionNewCloseShape ==
  ASSUME Shape, NEW h \in Handlers, SessionNewClose(h)
  PROVE  Shape'
<1>1. at[h] \in Locals /\ at \in [Handlers -> Locals]
  BY DEF Shape
<1>2. \A S : Close(S) => live' \in Seq(Pages) /\ reg' \in SUBSET Regs /\ IsFiniteSet(reg')
  BY CloseTypes
<1>8. With(at[h], [step |-> "reset"]) \in Locals
  BY <1>1, <1>2 DEF Locals, Fields, With, Steps, Shape, PageTypes, ScriptTypes
<1>9. at' \in [Handlers -> Locals]
  BY <1>1, <1>8, GotoDoes DEF SessionNewClose
<1>10. QED
  BY <1>1, <1>9, <1>2, PageNumbers DEF SessionNewClose, Shape, PageTypes, ScriptTypes, tabVars, scriptVars

LEMMA SessionNewResetShape ==
  ASSUME Shape, NEW h \in Handlers, SessionNewReset(h)
  PROVE  Shape'
<1>1. at[h] \in Locals /\ at \in [Handlers -> Locals]
  BY DEF Shape
<1>8. With(at[h], [step |-> "track"]) \in Locals
  BY <1>1 DEF Locals, Fields, With, Steps, Shape, PageTypes, ScriptTypes
<1>9. at' \in [Handlers -> Locals]
  BY <1>1, <1>8, GotoDoes DEF SessionNewReset
<1>10. pageOrder' \in Seq(Pages)
  BY ResetTypes DEF SessionNewReset, Shape
<1>11. QED
  BY <1>1, <1>9, <1>10, PageNumbers DEF SessionNewReset, Shape, PageTypes, ScriptTypes, tabVars, scriptVars

LEMMA SessionNewActiveShape ==
  ASSUME Shape, NEW h \in Handlers, SessionNewActive(h)
  PROVE  Shape'
<1>1. at[h] \in Locals /\ at \in [Handlers -> Locals]
  BY DEF Shape
<1>2. at[h].page \in 0 .. MaxPages
  BY <1>1 DEF Locals, Fields
<1>9. at' \in [Handlers -> Locals]
  BY <1>1, EndDoes DEF SessionNewActive
<1>10. QED
  BY <1>1, <1>9, <1>2, PageNumbers DEF SessionNewActive, Shape, PageTypes, ScriptTypes, tabVars, scriptVars

LEMMA ResumeStartShape ==
  ASSUME Shape, NEW h \in Handlers, ResumeStart(h)
  PROVE  Shape'
<1>1. at[h] \in Locals /\ at \in [Handlers -> Locals]
  BY DEF Shape
<1>2. Quiet \in BOOLEAN /\ <<>> \in Seq(Pages)
  BY DEF Quiet
<1>3. live \in Seq(Pages) /\ saved \in Files
  BY DEF Shape, PageTypes
<1> DEFINE l == [step |-> "nextTab", page |-> 0, fg |-> FALSE, then |-> "opened",
                 pages |-> live, file |-> saved, n |-> 0, alone |-> Quiet]
<1>4. DOMAIN l = {"step", "page", "fg", "then", "pages", "file", "n", "alone"}
  OBVIOUS
<1>5. /\ l.step = "nextTab" /\ l.page = 0 /\ l.then = "opened" /\ l.pages = live /\ l.file = saved
      /\ l.n = 0
  OBVIOUS
<1>6. l.fg \in BOOLEAN /\ l.alone \in BOOLEAN
  BY <1>2
<1>7. ResumeStart(h) => Start(h, l)
  BY DEF ResumeStart
<1> HIDE DEF l
<1>8. With(Idle, l) \in Locals
  BY <1>3, <1>4, <1>5, <1>6, IdleLocal, Bounds, WithLocal DEF Steps
<1>9. at' \in [Handlers -> Locals] /\ ops' \in 0 .. MaxOps
  BY <1>7, <1>8, StartDoes
<1>10. pageOrder' \in Seq(Pages)
  BY ResetTypes DEF ResumeStart, Shape
<1>11. QED
  BY <1>2, <1>9, <1>10, Bounds, PageNumbers DEF ResumeStart, Shape, PageTypes, ScriptTypes, tabVars, scriptVars

LEMMA ResumeOpenShape ==
  ASSUME Shape, NEW h \in Handlers, ResumeOpen(h)
  PROVE  Shape'
<1>1. at[h] \in Locals /\ at \in [Handlers -> Locals]
  BY DEF Shape
<1>2. ASSUME NEW d \in Pages, Open(d) PROVE NewPage \in Pages /\ NewPage \in 0 .. MaxPages /\ opened' \in 1 .. MaxPages /\ live' \in Seq(Pages) /\ doc' \in [Pages -> Pages]
  BY <1>2, OpenDoes, PageNumbers DEF Shape
<1>3. at[h].file.tabs[at[h].n + 1] \in Pages /\ at[h].n + 1 \in Nat
  <2>1. at[h].file.tabs \in Seq(Pages) /\ at[h].n \in Nat
    BY <1>1 DEF Locals, Fields, Files
  <2>2. QED
    BY <2>1 DEF ResumeOpen
<1>4. NewPage \in Pages /\ NewPage \in 0 .. MaxPages /\ opened' \in 1 .. MaxPages /\ live' \in Seq(Pages) /\ doc' \in [Pages -> Pages]
  BY <1>2, <1>3 DEF ResumeOpen
<1>8. With(at[h], [step |-> "track", page |-> NewPage, n |-> at[h].n + 1]) \in Locals
  BY <1>1, <1>3, <1>4 DEF Locals, Fields, With, Steps, Shape, PageTypes, ScriptTypes
<1>9. at' \in [Handlers -> Locals]
  BY <1>1, <1>8, GotoDoes DEF ResumeOpen
<1>10. QED
  BY <1>1, <1>9, <1>3, <1>4, PageNumbers DEF ResumeOpen, Shape, PageTypes, ScriptTypes, tabVars, scriptVars

LEMMA ResumeOpenedShape ==
  ASSUME Shape, NEW h \in Handlers, ResumeOpened(h)
  PROVE  Shape'
<1>1. at[h] \in Locals /\ at \in [Handlers -> Locals]
  BY DEF Shape
<1>2. at[h].page \in 0 .. MaxPages
  BY <1>1 DEF Locals, Fields
<1>8. With(at[h], [step |-> "nextTab"]) \in Locals
  BY <1>1, <1>2 DEF Locals, Fields, With, Steps, Shape, PageTypes, ScriptTypes
<1>9. at' \in [Handlers -> Locals]
  BY <1>1, <1>8, GotoDoes DEF ResumeOpened
<1>10. QED
  BY <1>1, <1>9, <1>2, PageNumbers DEF ResumeOpened, Shape, PageTypes, ScriptTypes, tabVars, scriptVars

LEMMA ResumeCloseShape ==
  ASSUME Shape, NEW h \in Handlers, ResumeClose(h)
  PROVE  Shape'
<1>1. at[h] \in Locals /\ at \in [Handlers -> Locals]
  BY DEF Shape
<1>2. \A S : Close(S) => live' \in Seq(Pages) /\ reg' \in SUBSET Regs /\ IsFiniteSet(reg')
  BY CloseTypes
<1>9. at' \in [Handlers -> Locals]
  BY <1>1, EndDoes DEF ResumeClose
<1>10. QED
  BY <1>1, <1>9, <1>2, PageNumbers DEF ResumeClose, Shape, PageTypes, ScriptTypes, tabVars, scriptVars

LEMMA NewRegTypes ==
  ASSUME Shape, NEW e \in Scripts, NEW p \in Pages
  PROVE  NewReg(e, p) \in Regs /\ NewReg(e, p)[1] = e /\ NewReg(e, p)[2] = p
         /\ reg \cup {NewReg(e, p)} \in SUBSET Regs /\ IsFiniteSet(reg \cup {NewReg(e, p)})
<1>1. IsFiniteSet({r \in reg : r[1] = e /\ r[2] = p})
  BY FS_Subset DEF Shape, ScriptTypes
<1>2. Cardinality({r \in reg : r[1] = e /\ r[2] = p}) + 1 \in Nat
  BY <1>1, FS_CardinalityType
<1>3. NewReg(e, p) \in Regs /\ NewReg(e, p)[1] = e /\ NewReg(e, p)[2] = p
  BY <1>2 DEF NewReg, Regs
<1>4. IsFiniteSet(reg \cup {NewReg(e, p)})
  BY FS_AddElement DEF Shape, ScriptTypes
<1>5. QED
  BY <1>3, <1>4 DEF Shape, ScriptTypes

(* The entry ApplyRegister takes is one it has left, the oldest.           *)
LEMMA OldestEntry ==
  ASSUME NEW S \in SUBSET Scripts, S # {}
  PROVE  \E x \in S : \A y \in S : x <= y
<1>1. IsFiniteSet(Scripts) /\ Scripts \in SUBSET Nat
  BY UpTo, Bounds DEF Scripts
<1>2. IsFiniteSet(S) /\ S \in SUBSET Nat
  BY <1>1, FS_Subset
<1>3. QED
  BY <1>2, Least


LEMMA ApplyRegisterShape ==
  ASSUME Shape, NEW h \in Handlers, ApplyRegister(h)
  PROVE  Shape'
<1> DEFINE e == CHOOSE x \in at[h].todo : \A y \in at[h].todo : x <= y
           p == at[h].page
           r == NewReg(e, p)
<1>1. at[h] \in Locals /\ at \in [Handlers -> Locals]
  BY DEF Shape
<1>2. at[h].todo \in SUBSET Scripts /\ at[h].todo # {}
  BY <1>1 DEF Locals, Fields, ApplyRegister
<1>3. e \in Scripts
  BY <1>2, OldestEntry
<1>4. With(at[h], [todo |-> at[h].todo \ {e}]) \in Locals
  BY <1>1, <1>2 DEF Locals, Fields, With, ApplyRegister
<1>5. at' \in [Handlers -> Locals]
  BY <1>1, <1>4, GotoDoes DEF ApplyRegister
<1>6. reg' \in SUBSET Regs /\ IsFiniteSet(reg') /\ ids' \in SUBSET Regs
  <2>1. CASE IsLive(p)
    <3>1. p \in Pages
      BY <2>1, ToSetFacts DEF IsLive, Shape, PageTypes
    <3>2. r \in Regs /\ reg \cup {r} \in SUBSET Regs /\ IsFiniteSet(reg \cup {r})
      BY <1>3, <3>1, NewRegTypes
    <3>3. reg' = reg \cup {r} /\ ids' = StoreId(e, p, r)
      BY <2>1 DEF ApplyRegister
    <3> HIDE DEF r, e
    <3>4. QED
      BY <3>2, <3>3 DEF StoreId, Shape, ScriptTypes
  <2>2. CASE ~IsLive(p)
    BY <2>2 DEF ApplyRegister, Shape, ScriptTypes
  <2>3. QED
    BY <2>1, <2>2
<1>7. QED
  BY <1>5, <1>6 DEF ApplyRegister, Shape, PageTypes, ScriptTypes, tabVars

LEMMA CrossingTypes ==
  ASSUME Shape
  PROVE  Crossing \in Ghosts /\ \A e \in Scripts : [Crossing EXCEPT !.failed = @ \cup {e}] \in Ghosts
<1>1. \A h \in Handlers : at[h].page \in 0 .. MaxPages
  BY DEF Shape, Locals, Fields
<1>2. BeingSetUp \subseteq 0 .. MaxPages
  BY <1>1 DEF BeingSetUp
<1>3. Crossing \in Ghosts
  BY <1>2 DEF Crossing, Shape, Ghosts
<1>4. QED
  BY <1>3 DEF Ghosts

LEMMA AddStartDoes ==
  ASSUME Shape, NEW h \in Handlers, NEW alias \in Aliases, AddStart(h, alias)
  PROVE  /\ at' \in [Handlers -> Locals] /\ at[h].step = "idle" /\ OthersSame(h) /\ ops' \in 0 .. MaxOps
         /\ at'[h].step = "add" /\ at'[h].script = added + 1 /\ at'[h].n = 0 /\ at'[h].got = {}
         /\ at'[h].page = 0 /\ at'[h].todo = {} /\ ~at'[h].alone
         /\ ToSet(at'[h].pages) \subseteq ToSet(live)
         /\ at'[h].every => ToSet(at'[h].pages) = ToSet(live)
         /\ added' = added + 1 /\ added' \in Scripts /\ mu = "free" /\ mu' = h
         /\ \A g \in Handlers \ {h} : at'[g].alone = FALSE
<1> DEFINE i == resolveTabAlias(alias)
           l == [step |-> "add", script |-> added + 1, every |-> i < 0,
                 pages |-> pagesForFilter(i), n |-> 0, got |-> {}]
<1>1. i \in Int /\ added \in Nat /\ added + 1 <= MaxScripts
  BY ResolvedTypes, Bounds DEF AddStart, Shape, ScriptTypes
<1>2. /\ pagesForFilter(i) \in Seq(Pages) /\ ToSet(pagesForFilter(i)) \subseteq ToSet(live)
      /\ i < 0 => ToSet(pagesForFilter(i)) = ToSet(live)
  BY <1>1, FilterTypes DEF Shape
<1>3. Start(h, l)
  BY DEF AddStart
<1>4. DOMAIN l = {"step", "script", "every", "pages", "n", "got"}
  OBVIOUS
<1>5. /\ l.step = "add" /\ l.script = added + 1 /\ l.pages = pagesForFilter(i) /\ l.n = 0 /\ l.got = {}
  OBVIOUS
<1>6. l.every \in BOOLEAN
  OBVIOUS
<1>7. l.every => i < 0
  OBVIOUS
<1> HIDE DEF l, i
<1>15. added' = added + 1 /\ added' \in Scripts /\ added + 1 \in Scripts /\ mu = "free" /\ mu' = h
  BY <1>1 DEF AddStart, Scripts
<1>8. With(Idle, l) \in Locals
  BY <1>1, <1>2, <1>4, <1>5, <1>6, <1>15, IdleLocal, WithLocal DEF Steps
<1>9. /\ at' \in [Handlers -> Locals] /\ at'[h] = With(Idle, l) /\ at[h].step = "idle"
      /\ OthersSame(h) /\ ops' \in 0 .. MaxOps
      /\ \A g \in Handlers \ {h} : at'[g].alone = FALSE
  BY <1>3, <1>8, StartDoes
<1>10. /\ at'[h].step = "add" /\ at'[h].script = added + 1 /\ at'[h].n = 0 /\ at'[h].got = {}
       /\ at'[h].page = 0 /\ at'[h].todo = {}
       /\ at'[h].pages = pagesForFilter(i)
  <2>1. /\ Idle.page = 0 /\ Idle.todo = {}
    BY DEF Idle
  <2>2. QED
    BY <1>4, <1>5, <1>9, <2>1, IdleLocal, WithFields
<1>11. ~at'[h].alone
  <2>1. Idle.alone = FALSE
    BY DEF Idle
  <2>2. With(Idle, l).alone = Idle.alone
    BY <1>4, IdleLocal, WithFields
  <2>3. QED
    BY <1>9, <2>1, <2>2
<1>12. at'[h].every = l.every
  BY <1>4, <1>9, IdleLocal, WithFields
<1>14. QED
  BY <1>2, <1>7, <1>9, <1>10, <1>11, <1>12, <1>15

LEMMA AddStartShape ==
  ASSUME Shape, NEW h \in Handlers, NEW alias \in Aliases, AddStart(h, alias)
  PROVE  Shape'
<1>1. at' \in [Handlers -> Locals] /\ ops' \in 0 .. MaxOps /\ added' \in Scripts /\ mu' = h
  BY AddStartDoes
<1>2. ghost' \in Ghosts
  BY CrossingTypes DEF AddStart
<1>3. added' \in 0 .. MaxScripts
  BY <1>1, Bounds DEF Scripts
<1>4. QED
  BY <1>1, <1>2, <1>3 DEF AddStart, Shape, PageTypes, ScriptTypes, tabVars

LEMMA AddRegisterShape ==
  ASSUME Shape, NEW h \in Handlers, AddRegister(h)
  PROVE  Shape'
<1> DEFINE p == at[h].pages[at[h].n + 1]
           r == NewReg(at[h].script, p)
<1>1. at[h] \in Locals /\ at \in [Handlers -> Locals]
  BY DEF Shape
<1>2. p \in Pages /\ at[h].n + 1 \in Nat /\ at[h].script \in Scripts
  BY <1>1 DEF Locals, Fields, AddRegister
<1>3. ASSUME IsLive(p) PROVE Shape'
  <2>1. r \in Regs /\ reg \cup {r} \in SUBSET Regs /\ IsFiniteSet(reg \cup {r})
    BY <1>2, <1>3, NewRegTypes
  <2>2. /\ reg' = reg \cup {r} /\ mu' = mu /\ ghost' = ghost
        /\ Goto(h, [n |-> at[h].n + 1, got |-> at[h].got \cup {r}])
    BY <1>3 DEF AddRegister
  <2> HIDE DEF r
  <2>3. With(at[h], [n |-> at[h].n + 1, got |-> at[h].got \cup {r}]) \in Locals
    <3>1. at[h].step # "append"
      BY DEF AddRegister
    <3>2. at[h].got \cup {r} \in SUBSET Regs
      BY <1>1, <2>1 DEF Locals, Fields
    <3>3. QED
      BY <1>1, <1>2, <3>1, <3>2 DEF Locals, Fields, With
  <2>4. at' \in [Handlers -> Locals]
    BY <1>1, <2>2, <2>3, GotoDoes
  <2>5. QED
    BY <2>1, <2>2, <2>4 DEF AddRegister, Shape, PageTypes, ScriptTypes, tabVars
<1>4. ASSUME ~IsLive(p) PROVE Shape'
  <2>1. /\ reg' = reg /\ mu' = "free" /\ End(h)
        /\ ghost' = [Crossing EXCEPT !.failed = @ \cup {at[h].script}]
    BY <1>4 DEF AddRegister
  <2>2. ghost' \in Ghosts
    BY <1>2, <2>1, CrossingTypes
  <2>3. at' \in [Handlers -> Locals]
    BY <1>1, <2>1, EndDoes
  <2>4. QED
    BY <2>1, <2>2, <2>3 DEF AddRegister, Shape, PageTypes, ScriptTypes, tabVars
<1>5. QED
  BY <1>3, <1>4

LEMMA AddFinishShape ==
  ASSUME Shape, NEW h \in Handlers, AddFinish(h)
  PROVE  Shape'
<1>1. at[h] \in Locals /\ at \in [Handlers -> Locals]
  BY DEF Shape
<1>2. at[h].script \in Scripts /\ at[h].got \in SUBSET Regs /\ ToSet(at[h].pages) \subseteq Pages
  BY <1>1, ToSetFacts DEF Locals, Fields, AddFinish
<1>3. at' \in [Handlers -> Locals]
  BY <1>1, EndDoes DEF AddFinish
<1>4. ghost' \in Ghosts
  BY CrossingTypes DEF AddFinish
<1>5. global' \in SUBSET Scripts /\ perTab' \in SUBSET (Pages \X Scripts)
  BY <1>2 DEF AddFinish, Shape, ScriptTypes
<1>6. ids' \in SUBSET Regs
  BY <1>2 DEF AddFinish, Shape, ScriptTypes
<1>7. QED
  BY <1>3, <1>4, <1>5, <1>6 DEF AddFinish, Shape, PageTypes, ScriptTypes, tabVars

LEMMA RemoveTypes ==
  ASSUME Shape, NEW S, removeCDPScripts(S)
  PROVE  reg' \in SUBSET Regs /\ IsFiniteSet(reg') /\ ids' \in SUBSET Regs
<1>1. reg' \subseteq reg /\ ids' \subseteq ids
  BY DEF removeCDPScripts
<1>2. QED
  BY <1>1, FS_Subset DEF Shape, ScriptTypes

LEMMA ClearAllShape ==
  ASSUME Shape, NEW h \in Handlers, ClearAll(h)
  PROVE  Shape'
<1>1. at' \in [Handlers -> Locals] /\ ops' \in 0 .. MaxOps
  BY ServeDoes DEF ClearAll
<1>2. ghost' \in Ghosts
  BY CrossingTypes DEF ClearAll
<1>3. reg' \in SUBSET Regs /\ IsFiniteSet(reg') /\ ids' \in SUBSET Regs
  BY RemoveTypes DEF ClearAll
<1>4. QED
  BY <1>1, <1>2, <1>3 DEF ClearAll, Shape, PageTypes, ScriptTypes, tabVars

LEMMA ClearTabShape ==
  ASSUME Shape, NEW h \in Handlers, NEW alias, ClearTab(h, alias)
  PROVE  Shape'
<1>1. at' \in [Handlers -> Locals] /\ ops' \in 0 .. MaxOps
  BY ServeDoes DEF ClearTab
<1>2. ghost' \in Ghosts
  BY CrossingTypes DEF ClearTab
<1>3. reg' \in SUBSET Regs /\ IsFiniteSet(reg') /\ ids' \in SUBSET Regs
  BY RemoveTypes DEF ClearTab
<1>4. perTab' \in SUBSET (Pages \X Scripts)
  BY DEF ClearTab, Shape, ScriptTypes
<1>5. QED
  BY <1>1, <1>2, <1>3, <1>4 DEF ClearTab, Shape, PageTypes, ScriptTypes, tabVars

LEMMA OutsideDoes ==
  ASSUME Shape, Outside
  PROVE  /\ at' \in [Handlers -> Locals] /\ ops' \in 0 .. MaxOps
         /\ \A g \in Handlers : Same(g) /\ at'[g].alone = FALSE
<1>1. ops' \in 0 .. MaxOps
  BY Bounds DEF Outside, Counted, Shape
<1>2. QED
  BY <1>1, DisturbedLocals, DisturbedSame DEF Outside, Shape

LEMMA PopupShape ==
  ASSUME Shape, Popup
  PROVE  Shape'
<1>1. at' \in [Handlers -> Locals] /\ ops' \in 0 .. MaxOps
  BY OutsideDoes DEF Popup
<1>2. Open(NewPage) /\ NewPage \in Pages
  BY Bounds DEF Popup, Open, NewPage, Pages, Shape, PageTypes
<1>3. opened' \in 1 .. MaxPages /\ live' \in Seq(Pages) /\ doc' \in [Pages -> Pages]
  BY <1>2, OpenDoes DEF Shape
<1>4. QED
  BY <1>1, <1>3 DEF Popup, Shape, PageTypes, ScriptTypes, scriptVars

LEMMA UserClosesShape ==
  ASSUME Shape, NEW p, UserCloses(p)
  PROVE  Shape'
<1>1. at' \in [Handlers -> Locals] /\ ops' \in 0 .. MaxOps
  BY OutsideDoes DEF UserCloses
<1>2. live' \in Seq(Pages) /\ reg' \in SUBSET Regs /\ IsFiniteSet(reg')
  BY CloseTypes DEF UserCloses
<1>3. QED
  BY <1>1, <1>2 DEF UserCloses, Shape, PageTypes, ScriptTypes

LEMMA StepShape ==
  ASSUME Shape, [Next]_vars
  PROVE  Shape'
<1>1. ASSUME NEW h \in Handlers, Request(h) PROVE Shape'
  <2>1. CASE TabNew(h, TRUE, TRUE) \/ TabNew(h, FALSE, FALSE) \/ NavigateOpens(h)
    BY <2>1, TabNewShape DEF NavigateOpens
  <2>2. CASE \E p \in ToSet(live) : TabCloseStart(h, p) \/ TabSwitch(h, p)
    BY <2>2, TabCloseStartShape, TabSwitchShape
  <2>3. CASE ContextCreate(h) \/ (\E on \in BOOLEAN : ContextSwitch(h, on))
    BY <2>3, ContextCreateShape, ContextSwitchShape
  <2>4. CASE SessionSave(h) \/ SessionDelete(h) \/ SessionNewOpen(h) \/ ResumeStart(h)
    BY <2>4, SessionSaveShape, SessionDeleteShape, SessionNewOpenShape, ResumeStartShape
  <2>5. CASE ClearAll(h) \/ (\E a \in Aliases : AddStart(h, a) \/ ClearTab(h, a))
    BY <2>5, ClearAllShape, AddStartShape, ClearTabShape
  <2>6. QED
    BY <1>1, <2>1, <2>2, <2>3, <2>4, <2>5 DEF Request
<1>2. ASSUME NEW h \in Handlers, HandlerStep(h) PROVE Shape'
  BY <1>2, TrackLookupShape, TrackAppendShape, ApplyCopyShape, ApplyRegisterShape, ApplyDoneShape,
     UntrackLookupShape, UntrackRemoveShape, TabCloseCloseShape, TabCloseForgetShape,
     SavePageShape, SaveWriteShape, SessionNewCloseShape,
     SessionNewResetShape, SessionNewActiveShape, ResumeOpenShape, ResumeOpenedShape,
     ResumeCloseShape, AddRegisterShape, AddFinishShape DEF HandlerStep
<1>3. CASE Popup \/ \E p \in ToSet(live) : UserCloses(p)
  BY <1>3, PopupShape, UserClosesShape
<1>4. CASE UNCHANGED vars
  BY <1>4 DEF vars, tabVars, scriptVars, Shape, PageTypes, ScriptTypes
<1>5. QED
  BY <1>1, <1>2, <1>3, <1>4 DEF Next

-----------------------------------------------------------------------------
(* Most steps leave the scripts alone: they open, close, track or choose   *)
(* pages.  What the invariants need to know of them is said once.          *)

SetUpSteps == {"closeOthers", "reset", "track", "append", "copy", "register"}

PlainPages ==
    /\ global' = global /\ perTab' = perTab /\ ids' = ids /\ added' = added /\ mu' = mu
    /\ ghost'.failed = ghost.failed /\ ghost.crossed \subseteq ghost'.crossed
    /\ opened' \in {opened, opened + 1}
    /\ ToSet(live') \subseteq ToSet(live) \cup (opened + 1 .. opened')
    /\ live' = live \/ (\E d : Open(d)) \/ \E S : Close(S)
    /\ ToSet(pageOrder') \subseteq ToSet(pageOrder)
    /\ activePg' <= opened'
    /\ reg' \subseteq reg /\ \A r \in reg : r[2] \in ToSet(live') => r \in reg'
    /\ \A r \in reg' : r[2] \in ToSet(live')

(* A handler copies the scripts while nobody adds one, and is done when it *)
(* has none left; a page it begins to set up is new, or counts as crossed. *)
Moved(g) ==
    /\ at[g].step # "add" /\ at'[g].step \notin {"add", "copy"}
    /\ at'[g].page <= opened'
    /\ ToSet(at'[g].pages) \subseteq ToSet(at[g].pages) \cup ToSet(live)
    /\ at'[g].todo \subseteq at[g].todo \cup global
    /\ at[g].step = "copy" => at'[g].step = "register"
    /\ at[g].step = "register" => at[g].todo = {} /\ at'[g].step \notin SetUpSteps
    /\ at'[g].step = "register" =>
          at[g].step = "copy" /\ at'[g].page = at[g].page /\ at'[g].todo = global /\ mu = "free"
    /\ at'[g].step \in SetUpSteps =>
          \/ at[g].step \in SetUpSteps /\ at'[g].page = at[g].page
          \/ at'[g].page \in ghost'.crossed
          \/ opened' = opened + 1 /\ at'[g].page = opened'

PlainStep ==
    /\ PlainPages
    /\ \A g \in Handlers : Same(g) \/ Moved(g)
    /\ \A g, k \in Handlers : g # k => Same(g) \/ Same(k)

LEMMA OneMoves ==
  ASSUME NEW h \in Handlers, OthersSame(h), Moved(h), PlainPages
  PROVE  PlainStep
BY DEF OthersSame, PlainStep

(* What a state says of the pages named in it.                             *)
LEMMA Known ==
  ASSUME Shape, Base
  PROVE  /\ opened \in Nat /\ activePg \in Nat /\ activePg <= opened
         /\ ToSet(live) \subseteq 1 .. opened /\ ToSet(pageOrder) \subseteq 1 .. opened
         /\ \A h \in Handlers : at[h].page \in Nat /\ at[h].page <= opened /\ at[h] \in Locals
         /\ \A r \in reg : r[2] \in ToSet(live)
<1>1. \A h \in Handlers : at[h] \in Locals
  BY DEF Shape
<1>2. \A h \in Handlers : at[h].page \in Nat
  BY <1>1, Bounds DEF Locals, Fields
<1>3. opened \in Nat /\ activePg \in Nat
  BY Bounds DEF Shape, PageTypes
<1>4. QED
  BY <1>1, <1>2, <1>3 DEF Base, Opened

LEMMA NewPageTyped ==
  ASSUME Shape, NEW d, Open(d)
  PROVE  NewPage \in Pages
BY Bounds DEF Open, NewPage, Pages, Shape, PageTypes

LEMMA ApplyCopyPlain ==
  ASSUME Shape, Base, NEW h \in Handlers, ApplyCopy(h)
  PROVE  PlainStep
<1>1. at[h] \in Locals
  BY DEF Shape
<1>2. at'[h] = With(at[h], [step |-> "register", todo |-> global]) /\ OthersSame(h)
  BY GotoGives DEF ApplyCopy
<1>3. /\ at'[h].step = "register" /\ at'[h].page = at[h].page
      /\ at'[h].todo = global /\ at'[h].pages = at[h].pages
  BY <1>1, <1>2 DEF With, Locals, Fields
<1>8. PlainPages
  BY Known DEF PlainPages, ApplyCopy, tabVars, scriptVars, Shape, Ghosts
<1>9. Moved(h)
  BY <1>3, <1>8, Known DEF Moved, PlainPages, SetUpSteps, ApplyCopy
<1>10. QED
  BY <1>2, <1>8, <1>9, OneMoves

LEMMA TabNewPlain ==
  ASSUME Shape, Base, NEW h \in Handlers, NEW fg \in BOOLEAN, NEW activate \in BOOLEAN, TabNew(h, fg, activate)
  PROVE  PlainStep
<1>1. Idle \in Locals
  BY IdleLocal
<1>2. at'[h] = With(Idle, [step |-> "track", page |-> NewPage, fg |-> fg, then |-> "end"]) /\ OthersSame(h) /\ at[h].step = "idle"
  BY StartGives DEF TabNew
<1>3. /\ at'[h].step = "track" /\ at'[h].page = NewPage
      /\ at'[h].todo = Idle.todo /\ at'[h].pages = Idle.pages
  BY <1>1, <1>2 DEF With, Locals, Fields
<1>4. NewPage \in Pages /\ Open(NewPage)
  BY NewPageTyped DEF TabNew
<1>5. opened' = opened + 1 /\ NewPage = opened + 1 /\ ToSet(live') = ToSet(live) \cup {opened + 1}
  BY <1>4, OpenDoes DEF Shape
<1>8. PlainPages
  BY Known, <1>5 DEF PlainPages, TabNew, tabVars, scriptVars, Shape, Ghosts
<1>9. Moved(h)
  BY <1>3, <1>8, Known, <1>5, IdleFields, <1>2 DEF Moved, PlainPages, SetUpSteps, TabNew
<1>10. QED
  BY <1>2, <1>8, <1>9, OneMoves

LEMMA TabCloseStartPlain ==
  ASSUME Shape, Base, NEW h \in Handlers, NEW p \in ToSet(live), TabCloseStart(h, p)
  PROVE  PlainStep
<1>1. Idle \in Locals
  BY IdleLocal
<1>2. at'[h] = With(Idle, [step |-> "untrack", page |-> p, alone |-> Quiet]) /\ OthersSame(h) /\ at[h].step = "idle"
  BY StartGives DEF TabCloseStart
<1>3. /\ at'[h].step = "untrack" /\ at'[h].page = p
      /\ at'[h].todo = Idle.todo /\ at'[h].pages = Idle.pages
  BY <1>1, <1>2 DEF With, Locals, Fields
<1>4. p <= opened /\ p \in Nat
  BY Known
<1>8. PlainPages
  BY Known DEF PlainPages, TabCloseStart, tabVars, scriptVars, Shape, Ghosts
<1>9. Moved(h)
  BY <1>3, <1>8, Known, <1>4, IdleFields, <1>2 DEF Moved, PlainPages, SetUpSteps, TabCloseStart
<1>10. QED
  BY <1>2, <1>8, <1>9, OneMoves

LEMMA UntrackLookupPlain ==
  ASSUME Shape, Base, NEW h \in Handlers, UntrackLookup(h)
  PROVE  PlainStep
<1>1. at[h] \in Locals /\ at[h].step = "untrack"
  BY DEF Shape, UntrackLookup
<1>2. PlainPages
  BY Known DEF PlainPages, UntrackLookup, tabVars, scriptVars, Shape, Ghosts
<1>3. ASSUME NEW l, Goto(h, l), l.step \in {"close", "remove"}, DOMAIN l \in {{"step"}, {"step", "n"}}
      PROVE  PlainStep
  <2>1. at'[h] = With(at[h], l) /\ OthersSame(h)
    BY <1>3, GotoGives
  <2>2. /\ at'[h].step = l.step /\ at'[h].page = at[h].page /\ at'[h].todo = at[h].todo
        /\ at'[h].pages = at[h].pages
    BY <1>1, <1>3, <2>1, WithFields
  <2>3. Moved(h)
    BY <1>1, <1>2, <1>3, <2>2, Known DEF Moved, PlainPages, SetUpSteps
  <2>4. QED
    BY <1>2, <2>1, <2>3, OneMoves
<1>4. CASE Goto(h, [step |-> "close"])
  BY <1>3, <1>4
<1>5. ASSUME NEW i, Goto(h, [step |-> "remove", n |-> i]) PROVE PlainStep
  BY <1>3, <1>5
<1>6. QED
  BY <1>4, <1>5 DEF UntrackLookup

LEMMA UntrackRemovePlain ==
  ASSUME Shape, Base, NEW h \in Handlers, UntrackRemove(h)
  PROVE  PlainStep
<1>1. at[h] \in Locals /\ at[h].step = "remove" /\ pageOrder \in Seq(Pages)
  BY DEF Shape, PageTypes, UntrackRemove
<1>2. ToSet(pageOrder') \subseteq ToSet(pageOrder)
  BY <1>1, OrderWrites DEF UntrackRemove, Raced
<1>3. PlainPages
  BY <1>2, Known DEF PlainPages, UntrackRemove, scriptVars
<1>4. CASE End(h)
  <2>1. at'[h] = Idle /\ OthersSame(h)
    BY <1>4, EndGives
  <2>2. /\ at'[h].step = Idle.step /\ at'[h].page = Idle.page
        /\ at'[h].todo = Idle.todo /\ at'[h].pages = Idle.pages
    BY <2>1
  <2>3. Moved(h)
    BY <1>1, <1>3, <2>2, Known, IdleFields DEF Moved, PlainPages, SetUpSteps
  <2>4. QED
    BY <1>3, <2>1, <2>3, OneMoves
<1>5. CASE Goto(h, [step |-> "close", n |-> 0])
  <2>1. at'[h] = With(at[h], [step |-> "close", n |-> 0]) /\ OthersSame(h)
    BY <1>5, GotoGives
  <2>2. /\ at'[h].step = "close" /\ at'[h].page = at[h].page
        /\ at'[h].todo = at[h].todo /\ at'[h].pages = at[h].pages
    BY <1>1, <2>1 DEF With, Locals, Fields
  <2>3. Moved(h)
    BY <1>1, <1>3, <2>2, Known DEF Moved, PlainPages, SetUpSteps
  <2>4. QED
    BY <1>3, <2>1, <2>3, OneMoves
<1>6. QED
  BY <1>4, <1>5 DEF UntrackRemove

LEMMA TabCloseForgetPlain ==
  ASSUME Shape, Base, NEW h \in Handlers, TabCloseForget(h)
  PROVE  PlainStep
<1>2. at'[h] = Idle /\ OthersSame(h)
  BY EndGives DEF TabCloseForget
<1>3. /\ at'[h].step = Idle.step /\ at'[h].page = Idle.page
      /\ at'[h].todo = Idle.todo /\ at'[h].pages = Idle.pages
  BY <1>2
<1>8. PlainPages
  BY Known DEF PlainPages, TabCloseForget, tabVars, scriptVars, Shape, Ghosts
<1>9. Moved(h)
  BY <1>3, <1>8, Known, IdleFields DEF Moved, PlainPages, SetUpSteps, TabCloseForget
<1>10. QED
  BY <1>2, <1>8, <1>9, OneMoves

LEMMA TabSwitchPlain ==
  ASSUME Shape, Base, NEW h \in Handlers, NEW p, TabSwitch(h, p)
  PROVE  PlainStep
<1>1. \A g \in Handlers : Same(g)
  BY ServeDoes DEF TabSwitch
<1>2. p \in 1 .. opened
  BY Known DEF TabSwitch, IsLive
<1>8. PlainPages
  BY Known, <1>2 DEF PlainPages, TabSwitch, tabVars, scriptVars, Shape, Ghosts
<1>9. QED
  BY <1>1, <1>8 DEF PlainStep

LEMMA ContextCreatePlain ==
  ASSUME Shape, Base, NEW h \in Handlers, ContextCreate(h)
  PROVE  PlainStep
<1>1. \A g \in Handlers : Same(g)
  BY ServeDoes DEF ContextCreate
<1>4. NewPage \in Pages /\ Open(NewPage)
  BY NewPageTyped DEF ContextCreate
<1>5. opened' = opened + 1 /\ NewPage = opened + 1 /\ ToSet(live') = ToSet(live) \cup {opened + 1}
  BY <1>4, OpenDoes DEF Shape
<1>8. PlainPages
  BY Known, <1>5 DEF PlainPages, ContextCreate, tabVars, scriptVars, Shape, Ghosts
<1>9. QED
  BY <1>1, <1>8 DEF PlainStep

LEMMA ContextSwitchPlain ==
  ASSUME Shape, Base, NEW h \in Handlers, NEW on, ContextSwitch(h, on)
  PROVE  PlainStep
<1>1. \A g \in Handlers : Same(g)
  BY ServeDoes DEF ContextSwitch
<1>8. PlainPages
  BY Known DEF PlainPages, ContextSwitch, tabVars, scriptVars, Shape, Ghosts
<1>9. QED
  BY <1>1, <1>8 DEF PlainStep

LEMMA SessionSavePlain ==
  ASSUME Shape, Base, NEW h \in Handlers, SessionSave(h)
  PROVE  PlainStep
<1>1. /\ at[h].step = "idle" /\ OthersSame(h) /\ at'[h].step = "save" /\ at'[h].page = 0
      /\ at'[h].todo = {} /\ at'[h].pages = live
      /\ UNCHANGED <<tabVars, scriptVars, mu, saved, ghost>>
  BY SessionSaveDoes
<1>2. PlainPages
  BY <1>1, Known DEF PlainPages, tabVars, scriptVars
<1>3. Moved(h)
  BY <1>1, <1>2, Known DEF Moved, PlainPages, SetUpSteps
<1>4. QED
  BY <1>1, <1>2, <1>3, OneMoves

LEMMA SavePagePlain ==
  ASSUME Shape, Base, NEW h \in Handlers, SavePage(h)
  PROVE  PlainStep
<1>1. /\ OthersSame(h) /\ at[h].step = "save" /\ UNCHANGED <<tabVars, scriptVars, mu, saved, ops, ghost>>
      /\ \/ at'[h] = Idle
         \/ /\ at'[h].step = "save" /\ at'[h].page = at[h].page /\ at'[h].todo = at[h].todo
            /\ at'[h].pages = at[h].pages
  BY SavePageDoes
<1>2. PlainPages
  BY <1>1, Known DEF PlainPages, tabVars, scriptVars
<1>3. /\ at'[h].step \in {"save", "idle"} /\ at'[h].page \in {at[h].page, 0}
      /\ at'[h].todo \subseteq at[h].todo /\ ToSet(at'[h].pages) \subseteq ToSet(at[h].pages)
  <2>1. CASE at'[h] = Idle
    BY <2>1, IdleFields
  <2>2. QED
    BY <1>1, <2>1
<1>4. Moved(h)
  BY <1>1, <1>2, <1>3, Known DEF Moved, PlainPages, SetUpSteps
<1>5. QED
  BY <1>1, <1>2, <1>4, OneMoves

LEMMA SaveWritePlain ==
  ASSUME Shape, Base, NEW h \in Handlers, SaveWrite(h)
  PROVE  PlainStep
<1>1. at'[h] = Idle /\ OthersSame(h) /\ at[h].step = "save"
  BY EndGives DEF SaveWrite
<1>2. /\ at'[h].step = Idle.step /\ at'[h].page = Idle.page
      /\ at'[h].todo = Idle.todo /\ at'[h].pages = Idle.pages
  BY <1>1
<1>3. PlainPages
  BY Known DEF PlainPages, SaveWrite, tabVars, scriptVars
<1>4. Moved(h)
  BY <1>1, <1>2, <1>3, Known, IdleFields DEF Moved, PlainPages, SetUpSteps
<1>5. QED
  BY <1>1, <1>3, <1>4, OneMoves

LEMMA SessionDeletePlain ==
  ASSUME Shape, Base, NEW h \in Handlers, SessionDelete(h)
  PROVE  PlainStep
<1>1. \A g \in Handlers : Same(g)
  BY ServeDoes DEF SessionDelete
<1>8. PlainPages
  BY Known DEF PlainPages, SessionDelete, tabVars, scriptVars, Shape, Ghosts
<1>9. QED
  BY <1>1, <1>8 DEF PlainStep

LEMMA SessionNewOpenPlain ==
  ASSUME Shape, Base, NEW h \in Handlers, SessionNewOpen(h)
  PROVE  PlainStep
<1>1. Idle \in Locals
  BY IdleLocal
<1>2. at'[h] = With(Idle, [step |-> "closeOthers", page |-> NewPage, fg |-> FALSE, then |-> "setActive"]) /\ OthersSame(h) /\ at[h].step = "idle"
  BY StartGives DEF SessionNewOpen
<1>3. /\ at'[h].step = "closeOthers" /\ at'[h].page = NewPage
      /\ at'[h].todo = Idle.todo /\ at'[h].pages = Idle.pages
  BY <1>1, <1>2 DEF With, Locals, Fields
<1>4. NewPage \in Pages /\ Open(NewPage)
  BY NewPageTyped DEF SessionNewOpen
<1>5. opened' = opened + 1 /\ NewPage = opened + 1 /\ ToSet(live') = ToSet(live) \cup {opened + 1}
  BY <1>4, OpenDoes DEF Shape
<1>8. PlainPages
  BY Known, <1>5 DEF PlainPages, SessionNewOpen, tabVars, scriptVars, Shape, Ghosts
<1>9. Moved(h)
  BY <1>3, <1>8, Known, <1>5, IdleFields, <1>2 DEF Moved, PlainPages, SetUpSteps, SessionNewOpen
<1>10. QED
  BY <1>2, <1>8, <1>9, OneMoves

LEMMA SessionNewClosePlain ==
  ASSUME Shape, Base, NEW h \in Handlers, SessionNewClose(h)
  PROVE  PlainStep
<1>1. at[h] \in Locals
  BY DEF Shape
<1>2. at'[h] = With(at[h], [step |-> "reset"]) /\ OthersSame(h)
  BY GotoGives DEF SessionNewClose
<1>3. /\ at'[h].step = "reset" /\ at'[h].page = at[h].page
      /\ at'[h].todo = at[h].todo /\ at'[h].pages = at[h].pages
  BY <1>1, <1>2 DEF With, Locals, Fields
<1>5. ToSet(live') = ToSet(live) \ (ToSet(live) \ {at[h].page}) /\ reg' = {r \in reg : r[2] \notin (ToSet(live) \ {at[h].page})}
  BY CloseDoes DEF SessionNewClose, Shape
<1>8. PlainPages
  BY Known, <1>5 DEF PlainPages, SessionNewClose, tabVars, scriptVars, Shape, Ghosts
<1>9. Moved(h)
  BY <1>3, <1>8, Known DEF Moved, PlainPages, SetUpSteps, SessionNewClose
<1>10. QED
  BY <1>2, <1>8, <1>9, OneMoves

LEMMA SessionNewResetPlain ==
  ASSUME Shape, Base, NEW h \in Handlers, SessionNewReset(h)
  PROVE  PlainStep
<1>1. at[h] \in Locals
  BY DEF Shape
<1>2. at'[h] = With(at[h], [step |-> "track"]) /\ OthersSame(h)
  BY GotoGives DEF SessionNewReset
<1>3. /\ at'[h].step = "track" /\ at'[h].page = at[h].page
      /\ at'[h].todo = at[h].todo /\ at'[h].pages = at[h].pages
  BY <1>1, <1>2 DEF With, Locals, Fields
<1>4. ToSet(pageOrder') \subseteq ToSet(pageOrder)
  BY ResetTypes DEF SessionNewReset, Shape
<1>8. PlainPages
  BY Known, <1>4 DEF PlainPages, SessionNewReset, tabVars, scriptVars, Shape, Ghosts
<1>9. Moved(h)
  BY <1>3, <1>8, Known DEF Moved, PlainPages, SetUpSteps, SessionNewReset
<1>10. QED
  BY <1>2, <1>8, <1>9, OneMoves

LEMMA SessionNewActivePlain ==
  ASSUME Shape, Base, NEW h \in Handlers, SessionNewActive(h)
  PROVE  PlainStep
<1>2. at'[h] = Idle /\ OthersSame(h)
  BY EndGives DEF SessionNewActive
<1>3. /\ at'[h].step = Idle.step /\ at'[h].page = Idle.page
      /\ at'[h].todo = Idle.todo /\ at'[h].pages = Idle.pages
  BY <1>2
<1>8. PlainPages
  BY Known DEF PlainPages, SessionNewActive, tabVars, scriptVars, Shape, Ghosts
<1>9. Moved(h)
  BY <1>3, <1>8, Known, IdleFields DEF Moved, PlainPages, SetUpSteps, SessionNewActive
<1>10. QED
  BY <1>2, <1>8, <1>9, OneMoves

LEMMA ResumeOpenedPlain ==
  ASSUME Shape, Base, NEW h \in Handlers, ResumeOpened(h)
  PROVE  PlainStep
<1>1. at[h] \in Locals
  BY DEF Shape
<1>2. at'[h] = With(at[h], [step |-> "nextTab"]) /\ OthersSame(h)
  BY GotoGives DEF ResumeOpened
<1>3. /\ at'[h].step = "nextTab" /\ at'[h].page = at[h].page
      /\ at'[h].todo = at[h].todo /\ at'[h].pages = at[h].pages
  BY <1>1, <1>2 DEF With, Locals, Fields
<1>8. PlainPages
  BY Known DEF PlainPages, ResumeOpened, tabVars, scriptVars, Shape, Ghosts
<1>9. Moved(h)
  BY <1>3, <1>8, Known DEF Moved, PlainPages, SetUpSteps, ResumeOpened
<1>10. QED
  BY <1>2, <1>8, <1>9, OneMoves

LEMMA ResumeOpenPlain ==
  ASSUME Shape, Base, NEW h \in Handlers, ResumeOpen(h)
  PROVE  PlainStep
<1>1. at[h] \in Locals
  BY DEF Shape
<1>2. at'[h] = With(at[h], [step |-> "track", page |-> NewPage, n |-> at[h].n + 1]) /\ OthersSame(h)
  BY GotoGives DEF ResumeOpen
<1>3. /\ at'[h].step = "track" /\ at'[h].page = NewPage
      /\ at'[h].todo = at[h].todo /\ at'[h].pages = at[h].pages
  BY <1>1, <1>2 DEF With, Locals, Fields
<1>4. Open(at[h].file.tabs[at[h].n + 1]) /\ at[h].file.tabs[at[h].n + 1] \in Pages
  <2>1. at[h].file.tabs \in Seq(Pages) /\ at[h].n \in Nat
    BY <1>1 DEF Locals, Fields, Files
  <2>2. QED
    BY <2>1 DEF ResumeOpen
<1>5. opened' = opened + 1 /\ NewPage = opened + 1 /\ ToSet(live') = ToSet(live) \cup {opened + 1}
  BY <1>4, OpenDoes DEF Shape
<1>8. PlainPages
  BY Known, <1>5 DEF PlainPages, ResumeOpen, tabVars, scriptVars, Shape, Ghosts
<1>9. Moved(h)
  BY <1>3, <1>8, Known, <1>5 DEF Moved, PlainPages, SetUpSteps, ResumeOpen
<1>10. QED
  BY <1>2, <1>8, <1>9, OneMoves

LEMMA AfterMoves ==
  ASSUME Shape, Base, NEW h \in Handlers, After(h), opened' = opened,
         at[h].step \notin {"add", "copy"}, at[h].step = "register" => at[h].todo = {}
  PROVE  Moved(h) /\ OthersSame(h)
<1>1. at[h] \in Locals
  BY DEF Shape
<1>2. OthersSame(h) /\ (at'[h] = Idle \/ at'[h] = With(at[h], [step |-> at[h].then]))
  BY AfterDoes DEF Shape
<1>3. at[h].then \in {"end", "setActive", "opened"}
  BY <1>1 DEF Locals, Fields
<1>4. CASE at'[h] = Idle
  <2>1. /\ at'[h].step = Idle.step /\ at'[h].page = Idle.page
        /\ at'[h].todo = Idle.todo /\ at'[h].pages = Idle.pages
    BY <1>4
  <2>2. QED
    BY <1>2, <2>1, Known, IdleFields DEF Moved, SetUpSteps
<1>5. CASE at'[h] = With(at[h], [step |-> at[h].then])
  <2>1. /\ at'[h].step = at[h].then /\ at'[h].page = at[h].page
        /\ at'[h].todo = at[h].todo /\ at'[h].pages = at[h].pages
    BY <1>1, <1>5 DEF With, Locals, Fields
  <2>2. QED
    BY <1>2, <1>3, <2>1, Known DEF Moved, SetUpSteps
<1>6. QED
  BY <1>2, <1>4, <1>5

LEMMA TrackLookupPlain ==
  ASSUME Shape, Base, NEW h \in Handlers, TrackLookup(h)
  PROVE  PlainStep
<1> DEFINE p == IF at[h].fg THEN activePg ELSE at[h].page
<1>1. at[h] \in Locals /\ at[h].step = "track" /\ p \in Nat /\ p <= opened
  BY Known DEF TrackLookup
<1>2. ghost' = [ghost EXCEPT !.crossed = @ \cup ({p} \ {at[h].page})]
  BY DEF TrackLookup
<1>3. ghost'.failed = ghost.failed /\ ghost'.crossed = ghost.crossed \cup ({p} \ {at[h].page})
  BY <1>2 DEF Shape, Ghosts
<1>4. \/ End(h) \/ After(h)
      \/ /\ p \notin ToSet(pageOrder)
         /\ Goto(h, [step |-> "append", page |-> p])
  BY DEF TrackLookup
<1>5. PlainPages
  BY <1>3, Known DEF PlainPages, TrackLookup, tabVars, scriptVars
<1> HIDE DEF p
<1>6. CASE End(h)
  <2>1. at'[h] = Idle /\ OthersSame(h)
    BY <1>6, EndGives
  <2>2. /\ at'[h].step = Idle.step /\ at'[h].page = Idle.page
        /\ at'[h].todo = Idle.todo /\ at'[h].pages = Idle.pages
    BY <2>1
  <2>3. Moved(h)
    BY <1>1, <1>5, <2>2, Known, IdleFields DEF Moved, PlainPages, SetUpSteps
  <2>4. QED
    BY <1>5, <2>1, <2>3, OneMoves
<1>7. CASE After(h)
  BY <1>1, <1>5, <1>7, AfterMoves, OneMoves DEF TrackLookup, tabVars
<1>8. CASE p \notin ToSet(pageOrder) /\ Goto(h, [step |-> "append", page |-> p])
  <2>1. at'[h] = With(at[h], [step |-> "append", page |-> p]) /\ OthersSame(h)
    BY <1>8, GotoGives
  <2>2. /\ at'[h].step = "append" /\ at'[h].page = p
        /\ at'[h].todo = at[h].todo /\ at'[h].pages = at[h].pages
    BY <1>1, <2>1 DEF With, Locals, Fields
  <2>3. p = at[h].page \/ p \in ghost'.crossed
    BY <1>3
  <2>4. Moved(h)
    BY <1>1, <1>5, <1>8, <2>2, <2>3, Known DEF Moved, PlainPages, SetUpSteps
  <2>5. QED
    BY <1>5, <2>1, <2>4, OneMoves
<1>9. QED
  BY <1>4, <1>6, <1>7, <1>8

LEMMA ApplyDonePlain ==
  ASSUME Shape, Base, NEW h \in Handlers, ApplyDone(h)
  PROVE  PlainStep
<1>1. PlainPages
  BY Known DEF PlainPages, ApplyDone, tabVars, scriptVars
<1>2. QED
  BY <1>1, AfterMoves, OneMoves DEF ApplyDone, tabVars

LEMMA TabCloseClosePlain ==
  ASSUME Shape, Base, NEW h \in Handlers, TabCloseClose(h)
  PROVE  PlainStep
<1>1. at[h] \in Locals /\ at[h].step = "close"
  BY DEF Shape, TabCloseClose
<1>2. ToSet(live') = ToSet(live) \ {at[h].page} /\ reg' = {r \in reg : r[2] \notin {at[h].page}}
  BY CloseDoes DEF TabCloseClose, Shape
<1>3. PlainPages
  BY <1>2, Known DEF PlainPages, TabCloseClose
<1>4. CASE End(h)
  <2>1. at'[h] = Idle /\ OthersSame(h)
    BY <1>4, EndGives
  <2>2. /\ at'[h].step = Idle.step /\ at'[h].page = Idle.page
        /\ at'[h].todo = Idle.todo /\ at'[h].pages = Idle.pages
    BY <2>1
  <2>3. Moved(h)
    BY <1>1, <1>3, <2>2, Known, IdleFields DEF Moved, PlainPages, SetUpSteps
  <2>4. QED
    BY <1>3, <2>1, <2>3, OneMoves
<1>5. CASE Goto(h, [step |-> "forget"])
  <2>1. at'[h] = With(at[h], [step |-> "forget"]) /\ OthersSame(h)
    BY <1>5, GotoGives
  <2>2. /\ at'[h].step = "forget" /\ at'[h].page = at[h].page
        /\ at'[h].todo = at[h].todo /\ at'[h].pages = at[h].pages
    BY <1>1, <2>1 DEF With, Locals, Fields
  <2>3. Moved(h)
    BY <1>1, <1>3, <2>2, Known DEF Moved, PlainPages, SetUpSteps
  <2>4. QED
    BY <1>3, <2>1, <2>3, OneMoves
<1>6. QED
  BY <1>4, <1>5 DEF TabCloseClose

LEMMA ResumeStartDoes ==
  ASSUME NEW h \in Handlers, Shape, ResumeStart(h)
  PROVE  /\ at[h].step = "idle" /\ OthersSame(h) /\ \A g \in Handlers \ {h} : at'[g].alone = FALSE
         /\ at'[h].step = "nextTab" /\ at'[h].page = 0 /\ at'[h].todo = {}
         /\ at'[h].pages = live /\ at'[h].file = saved /\ at'[h].n = 0
         /\ at'[h].alone = Quiet
<1> DEFINE l == [step |-> "nextTab", page |-> 0, fg |-> FALSE, then |-> "opened",
                 pages |-> live, file |-> saved, n |-> 0, alone |-> Quiet]
<1>1. DOMAIN l = {"step", "page", "fg", "then", "pages", "file", "n", "alone"}
  OBVIOUS
<1>2. /\ l.step = "nextTab" /\ l.page = 0 /\ l.pages = live /\ l.file = saved /\ l.n = 0
  OBVIOUS
<1>3. l.alone = Quiet
  OBVIOUS
<1>4. Start(h, l)
  BY DEF ResumeStart
<1> HIDE DEF l
<1>5. /\ at'[h] = With(Idle, l) /\ at[h].step = "idle" /\ OthersSame(h)
      /\ \A g \in Handlers \ {h} : at'[g].alone = FALSE
  BY <1>4, StartGives
<1>6. /\ at'[h].step = l.step /\ at'[h].page = l.page
      /\ at'[h].todo = Idle.todo /\ at'[h].pages = l.pages /\ at'[h].file = l.file
      /\ at'[h].n = l.n /\ at'[h].alone = l.alone
  BY <1>1, <1>5, IdleLocal, WithFields
<1>7. QED
  BY <1>2, <1>3, <1>5, <1>6, IdleFields

LEMMA ResumeStartPlain ==
  ASSUME Shape, Base, NEW h \in Handlers, ResumeStart(h)
  PROVE  PlainStep
<1>1. /\ at[h].step = "idle" /\ OthersSame(h)
      /\ at'[h].step = "nextTab" /\ at'[h].page = 0 /\ at'[h].todo = {}
      /\ at'[h].pages = live
  BY ResumeStartDoes
<1>2. ToSet(pageOrder') \subseteq ToSet(pageOrder)
  BY ResetTypes DEF ResumeStart, Shape
<1>3. PlainPages
  BY <1>2, Known DEF PlainPages, ResumeStart, scriptVars
<1>4. Moved(h)
  BY <1>1, <1>2, <1>3, Known DEF Moved, PlainPages, SetUpSteps
<1>5. QED
  BY <1>1, <1>3, <1>4, OneMoves

LEMMA ResumeClosePlain ==
  ASSUME Shape, Base, NEW h \in Handlers, ResumeClose(h)
  PROVE  PlainStep
<1>1. PICK S : Close(S)
  BY DEF ResumeClose
<1>2. ToSet(live') = ToSet(live) \ S /\ reg' = {r \in reg : r[2] \notin S}
  BY <1>1, CloseDoes DEF Shape
<1>3. at'[h] = Idle /\ OthersSame(h)
  BY EndGives DEF ResumeClose
<1>4. /\ at'[h].step = Idle.step /\ at'[h].page = Idle.page
      /\ at'[h].todo = Idle.todo /\ at'[h].pages = Idle.pages
  BY <1>3
<1>5. PlainPages
  BY <1>2, Known DEF PlainPages, ResumeClose
<1>6. Moved(h)
  BY <1>4, <1>5, Known, IdleFields DEF Moved, PlainPages, SetUpSteps, ResumeClose
<1>7. QED
  BY <1>3, <1>5, <1>6, OneMoves

LEMMA PopupPlain ==
  ASSUME Shape, Base, Popup
  PROVE  PlainStep
<1>1. \A g \in Handlers : Same(g)
  BY OutsideDoes DEF Popup
<1>2. NewPage \in Pages /\ Open(NewPage)
  BY NewPageTyped DEF Popup
<1>3. opened' = opened + 1 /\ NewPage = opened + 1 /\ ToSet(live') = ToSet(live) \cup {opened + 1}
  BY <1>2, OpenDoes DEF Shape
<1>4. PlainPages
  BY Known, <1>3 DEF PlainPages, Popup, scriptVars
<1>5. QED
  BY <1>1, <1>4 DEF PlainStep

LEMMA UserClosesPlain ==
  ASSUME Shape, Base, NEW p, UserCloses(p)
  PROVE  PlainStep
<1>1. \A g \in Handlers : Same(g)
  BY OutsideDoes DEF UserCloses
<1>2. ToSet(live') = ToSet(live) \ {p} /\ reg' = {r \in reg : r[2] \notin {p}}
  BY CloseDoes DEF UserCloses, Shape
<1>3. PlainPages
  BY Known, <1>2 DEF PlainPages, UserCloses
<1>4. QED
  BY <1>1, <1>3 DEF PlainStep

LEMMA StutterPlain ==
  ASSUME Shape, Base, UNCHANGED vars
  PROVE  PlainStep
<1>1. \A g \in Handlers : Same(g)
  BY DEF Same, vars
<1>2. PlainPages
  BY Known DEF PlainPages, vars, tabVars, scriptVars
<1>3. QED
  BY <1>1, <1>2 DEF PlainStep

(* The other steps: a page is tracked, or scripts are registered, added or *)
(* cleared.                                                                *)
ScriptStep ==
    \E h \in Handlers :
        \/ TrackAppend(h) \/ ApplyRegister(h) \/ AddRegister(h) \/ AddFinish(h)
        \/ ClearAll(h) \/ \E a \in Aliases : AddStart(h, a) \/ ClearTab(h, a)

LEMMA StepsPlain ==
  ASSUME Shape, Base, [Next]_vars
  PROVE  PlainStep \/ ScriptStep
<1>1. ASSUME NEW h \in Handlers, Request(h) PROVE PlainStep \/ ScriptStep
  <2>1. CASE TabNew(h, TRUE, TRUE) \/ TabNew(h, FALSE, FALSE) \/ NavigateOpens(h)
    BY <2>1, TabNewPlain DEF NavigateOpens
  <2>2. CASE \E p \in ToSet(live) : TabCloseStart(h, p) \/ TabSwitch(h, p)
    BY <2>2, TabCloseStartPlain, TabSwitchPlain
  <2>3. CASE ContextCreate(h) \/ (\E on \in BOOLEAN : ContextSwitch(h, on))
    BY <2>3, ContextCreatePlain, ContextSwitchPlain
  <2>4. CASE SessionSave(h) \/ SessionDelete(h) \/ SessionNewOpen(h) \/ ResumeStart(h)
    BY <2>4, SessionSavePlain, SessionDeletePlain, SessionNewOpenPlain, ResumeStartPlain
  <2>5. CASE ClearAll(h) \/ (\E a \in Aliases : AddStart(h, a) \/ ClearTab(h, a))
    BY <2>5 DEF ScriptStep
  <2>6. QED
    BY <1>1, <2>1, <2>2, <2>3, <2>4, <2>5 DEF Request
<1>2. ASSUME NEW h \in Handlers, HandlerStep(h) PROVE PlainStep \/ ScriptStep
  <2>1. CASE TrackAppend(h) \/ ApplyRegister(h) \/ AddRegister(h) \/ AddFinish(h)
    BY <2>1 DEF ScriptStep
  <2>2. CASE ~(TrackAppend(h) \/ ApplyRegister(h) \/ AddRegister(h) \/ AddFinish(h))
    BY <1>2, <2>2, TrackLookupPlain, ApplyCopyPlain, ApplyDonePlain,
       UntrackLookupPlain, UntrackRemovePlain, TabCloseClosePlain, TabCloseForgetPlain,
       SavePagePlain, SaveWritePlain, SessionNewClosePlain,
       SessionNewResetPlain, SessionNewActivePlain, ResumeOpenPlain, ResumeOpenedPlain,
       ResumeClosePlain DEF HandlerStep
  <2>3. QED
    BY <2>1, <2>2
<1>3. CASE Popup \/ \E p \in ToSet(live) : UserCloses(p)
  BY <1>3, PopupPlain, UserClosesPlain
<1>4. CASE UNCHANGED vars
  BY <1>4, StutterPlain
<1>5. QED
  BY <1>1, <1>2, <1>3, <1>4 DEF Next

LEMMA PlainBase ==
  ASSUME Shape, Shape', Base, PlainStep
  PROVE  Base'
<1>1. /\ opened \in Nat /\ opened' \in {opened, opened + 1} /\ activePg' <= opened'
      /\ ToSet(live') \subseteq ToSet(live) \cup (opened + 1 .. opened')
      /\ ToSet(pageOrder') \subseteq ToSet(pageOrder)
      /\ \A r \in reg' : r[2] \in ToSet(live')
  BY Known DEF PlainStep, PlainPages
<1>2. /\ global' = global /\ perTab' = perTab /\ added' = added /\ mu' = mu /\ reg' \subseteq reg
  BY DEF PlainStep, PlainPages
<1>3. ToSet(live') \subseteq 1 .. opened' /\ ToSet(pageOrder') \subseteq 1 .. opened'
  BY <1>1, Known
<1>4. ASSUME NEW g \in Handlers
      PROVE  at'[g].page <= opened' /\ ToSet(at'[g].pages) \subseteq 1 .. opened'
  <2>1. Same(g) \/ Moved(g)
    BY DEF PlainStep
  <2>2. at[g].page \in Nat /\ at[g].page <= opened
    BY Known
  <2>3. ToSet(at[g].pages) \subseteq 1 .. opened
    BY DEF Base, Opened
  <2>4. CASE Same(g)
    BY <1>1, <2>2, <2>3, <2>4 DEF Same
  <2>5. CASE Moved(g)
    <3>1. ToSet(at'[g].pages) \subseteq 1 .. opened
      BY <2>3, <2>5, Known DEF Moved
    <3>2. QED
      BY <1>1, <2>5, <3>1 DEF Moved
  <2>6. QED
    BY <2>1, <2>4, <2>5
<1>5. Opened'
  BY <1>1, <1>3, <1>4 DEF Opened
<1>6. \A g \in Handlers : Adding(g)' => Same(g) /\ Adding(g)
  BY DEF PlainStep, Moved, Adding, Same
<1>7. OneAdd'
  <2>1. \A g \in Handlers : Adding(g)' => mu' = g
    BY <1>2, <1>6 DEF Base, OneAdd
  <2>2. ASSUME NEW g \in Handlers, Adding(g)'
        PROVE  /\ at'[g].script \in 1 .. added' /\ at'[g].script \notin global'
               /\ \A x \in perTab' : x[2] # at'[g].script
               /\ at'[g].n <= Len(at'[g].pages)
    BY <1>2, <1>6, <2>2 DEF Base, OneAdd, Same
  <2>3. QED
    BY <2>1, <2>2 DEF OneAdd
<1>8. Numbered'
  <2>1. ASSUME NEW g \in Handlers, NEW e \in at'[g].todo PROVE e <= added
    <3>1. Same(g) \/ Moved(g)
      BY DEF PlainStep
    <3>2. e \in at[g].todo \/ e \in global
      BY <3>1 DEF Same, Moved
    <3>3. QED
      BY <3>2 DEF Base, Numbered
  <2>2. QED
    BY <1>2, <2>1 DEF Base, Numbered
<1>9. QED
  BY <1>5, <1>7, <1>8 DEF Base

LEMMA TrackedOpened ==
  ASSUME Base
  PROVE  Tracked \subseteq 1 .. opened
BY DEF Base, Opened, Tracked

LEMMA PlainReach ==
  ASSUME Shape, Base, ReachInv, PlainStep
  PROVE  ReachInv'
<1>1. /\ opened \in Nat /\ global' = global /\ mu' = mu /\ reg' \subseteq reg
      /\ ToSet(live') \subseteq ToSet(live) \cup (opened + 1 .. opened')
      /\ ToSet(pageOrder') \subseteq ToSet(pageOrder)
      /\ \A r \in reg : r[2] \in ToSet(live') => r \in reg'
  BY Known DEF PlainStep, PlainPages
<1>3. Tracked' \subseteq Tracked
  BY <1>1 DEF Tracked
<1>4. \A p \in Tracked' \cap ToSet(live') : p \in Tracked \cap ToSet(live)
  BY <1>1, <1>3, TrackedOpened
<1>5. \A p \in ToSet(live') : \A e : Runs(p, e) => Runs(p, e)'
  BY <1>1 DEF Runs
<1>6. ASSUME NEW p, Copying(p)
      PROVE  Copying(p)' \/ (mu = "free" /\ \A e \in global : Registering(p, e)')
  <2>1. PICK g \in Handlers : at[g].step = "copy" /\ at[g].page = p
    BY <1>6 DEF Copying
  <2>2. CASE Same(g)
    BY <2>1, <2>2 DEF Same, Copying
  <2>3. CASE Moved(g)
    BY <2>1, <2>3 DEF Moved, Registering
  <2>4. QED
    BY <2>2, <2>3 DEF PlainStep
<1>7. ASSUME NEW p, NEW e, Registering(p, e)
      PROVE  Registering(p, e)'
  <2>1. PICK g \in Handlers : at[g].step = "register" /\ at[g].page = p /\ e \in at[g].todo
    BY <1>7 DEF Registering
  <2>2. Same(g)
    BY <2>1 DEF PlainStep, Moved
  <2>3. QED
    BY <2>1, <2>2 DEF Same, Registering
<1>8. Reached'
  <2>1. ASSUME NEW p \in Tracked' \cap ToSet(live'), NEW e \in global
        PROVE  Runs(p, e)' \/ Copying(p)' \/ Registering(p, e)'
    <3>1. Runs(p, e) \/ Copying(p) \/ Registering(p, e)
      BY <1>4 DEF ReachInv, Reached
    <3>2. QED
      BY <1>5, <1>6, <1>7, <3>1
  <2>2. QED
    BY <1>1, <2>1 DEF Reached
<1>9. AddReaches'
  <2>1. SUFFICES ASSUME NEW h \in Handlers, Adding(h)', at'[h].every
                 PROVE  /\ \A p \in Tracked' \cap ToSet(live') : p \in ToSet(at'[h].pages) \/ Copying(p)'
                        /\ \A i \in 1 .. at'[h].n : at'[h].pages[i] \in ToSet(live')
                               => \E r \in reg' : r[1] = at'[h].script /\ r[2] = at'[h].pages[i]
    BY DEF AddReaches, IsLive, Runs
  <2>2. Adding(h) /\ Same(h)
    BY <2>1 DEF PlainStep, Moved, Adding, Same
  <2>3. at'[h].pages = at[h].pages /\ at'[h].n = at[h].n /\ at'[h].script = at[h].script
    BY <2>2 DEF Same
  <2>4. at[h].every
    BY <2>1, <2>2, Zenon DEF Same
  <2>5. /\ \A p \in Tracked \cap ToSet(live) : p \in ToSet(at[h].pages) \/ Copying(p)
        /\ \A i \in 1 .. at[h].n : at[h].pages[i] \in ToSet(live) => Runs(at[h].pages[i], at[h].script)
    BY <2>2, <2>4, Zenon DEF ReachInv, AddReaches, IsLive
  <2>6. mu # "free"
    BY <2>2, HandlersAssumption DEF Base, OneAdd
  <2>7. \A p \in Tracked' \cap ToSet(live') : p \in ToSet(at[h].pages) \/ Copying(p)'
    BY <1>4, <1>6, <2>5, <2>6
  <2>8. ASSUME NEW i \in 1 .. at[h].n, at[h].pages[i] \in ToSet(live')
        PROVE  \E r \in reg' : r[1] = at[h].script /\ r[2] = at[h].pages[i]
    <3>1. at[h].pages[i] \in ToSet(at[h].pages)
      <4>1. at[h] \in Locals
        BY DEF Shape
      <4>2. at[h].pages \in Seq(Pages) /\ at[h].n \in Nat /\ at[h].n <= Len(at[h].pages)
        BY <2>2, <4>1 DEF Locals, Fields, Base, OneAdd
      <4>3. QED
        BY <4>2 DEF ToSet
    <3>2. at[h].pages[i] \in 1 .. opened
      BY <3>1 DEF Base, Opened
    <3>3. at[h].pages[i] \in ToSet(live)
      BY <1>1, <2>8, <3>2
    <3>4. Runs(at[h].pages[i], at[h].script)
      BY <2>5, <3>3
    <3>5. PICK r \in reg : r[1] = at[h].script /\ r[2] = at[h].pages[i]
      BY <3>4 DEF Runs
    <3>6. r \in reg'
      BY <1>1, <2>8, <3>5
    <3>7. QED
      BY <3>5, <3>6
  <2>9. QED
    BY <2>3, <2>7, <2>8
<1>10. QED
  BY <1>8, <1>9 DEF ReachInv

LEMMA PlainClear ==
  ASSUME Shape, Base, ClearInv, PlainStep
  PROVE  ClearInv'
<1>1. /\ opened \in Nat /\ global' = global /\ perTab' = perTab /\ ids' = ids /\ reg' \subseteq reg
      /\ ghost'.failed = ghost.failed /\ ghost.crossed \subseteq ghost'.crossed
      /\ opened' \in {opened, opened + 1}
  BY Known DEF PlainStep, PlainPages
<1>2. \A g \in Handlers : Adding(g)' => Adding(g) /\ Same(g)
  BY DEF PlainStep, Moved, Adding, Same
<1>3. \A g \in Handlers : Adding(g) => Adding(g)' /\ Same(g)
  BY DEF PlainStep, Moved, Adding, Same
<1>4. \A g \in Handlers : at[g].page \in Nat /\ at[g].page <= opened
  BY Known
<1>5. \A g \in Handlers : SettingUp(g)' =>
         \/ SettingUp(g) /\ at'[g].page = at[g].page
         \/ at'[g].page \in ghost'.crossed
         \/ ~Same(g) /\ at'[g].page = opened + 1
  <2>1. ASSUME NEW g \in Handlers, SettingUp(g)', Same(g)
        PROVE  SettingUp(g) /\ at'[g].page = at[g].page
    BY <2>1 DEF Same, SettingUp
  <2>2. ASSUME NEW g \in Handlers, SettingUp(g)', Moved(g), ~Same(g)
        PROVE  \/ SettingUp(g) /\ at'[g].page = at[g].page
               \/ at'[g].page \in ghost'.crossed
               \/ at'[g].page = opened + 1
    BY <2>2 DEF Moved, SettingUp, SetUpSteps
  <2>3. QED
    BY <2>1, <2>2 DEF PlainStep
<1>6. SetUpOnce'
  <2>1. SUFFICES ASSUME NEW h \in Handlers, SettingUp(h)', at'[h].page \notin ghost'.crossed
        PROVE  /\ \A g \in Handlers : SettingUp(g)' /\ at'[g].page = at'[h].page => g = h
               /\ \A g \in Handlers : Adding(g)' => at'[h].page \notin ToSet(at'[g].pages)
               /\ at'[h].step # "register" => \A r \in reg' : r[2] # at'[h].page
               /\ at'[h].step = "register" =>
                     /\ at'[h].todo \subseteq global'
                     /\ \A r \in reg' : r[2] = at'[h].page => r[1] \notin at'[h].todo
    BY DEF SetUpOnce, Untouched
  <2>2. CASE SettingUp(h) /\ at'[h].page = at[h].page
    <3>1. Untouched(h)
      BY <1>1, <2>1, <2>2 DEF Untouched
    <3>2. /\ \A g \in Handlers : SettingUp(g) /\ at[g].page = at[h].page => g = h
          /\ \A g \in Handlers : Adding(g) => at[h].page \notin ToSet(at[g].pages)
          /\ at[h].step # "register" => \A r \in reg : r[2] # at[h].page
          /\ at[h].step = "register" =>
                /\ at[h].todo \subseteq global
                /\ \A r \in reg : r[2] = at[h].page => r[1] \notin at[h].todo
      BY <3>1 DEF ClearInv, SetUpOnce
    <3>3. \A g \in Handlers : SettingUp(g)' /\ at'[g].page = at'[h].page => g = h
      BY <1>1, <1>4, <1>5, <2>1, <2>2, <3>2
    <3>4. \A g \in Handlers : Adding(g)' => at'[h].page \notin ToSet(at'[g].pages)
      BY <1>2, <2>2, <3>2 DEF Same
    <3>5. at'[h].step # "register" => at[h].step # "register"
      BY <2>1 DEF PlainStep, Same, Moved, SettingUp, SetUpSteps
    <3>6. at'[h].step = "register" =>
             \/ at[h].step = "register" /\ at'[h].todo = at[h].todo
             \/ at[h].step # "register" /\ at'[h].todo = global
      BY DEF PlainStep, Same, Moved
    <3>7. QED
      BY <1>1, <2>2, <3>2, <3>3, <3>4, <3>5, <3>6
  <2>3. CASE ~Same(h) /\ at'[h].page = opened + 1
    <3>1. \A g \in Handlers : g # h => Same(g)
      BY <2>3 DEF PlainStep
    <3>2. \A g \in Handlers : SettingUp(g)' /\ at'[g].page = at'[h].page => g = h
      BY <1>1, <1>4, <2>3, <3>1 DEF Same
    <3>3. \A g \in Handlers : Adding(g)' => at'[h].page \notin ToSet(at'[g].pages)
      <4>1. \A g \in Handlers : ToSet(at[g].pages) \subseteq 1 .. opened
        BY DEF Base, Opened
      <4>2. QED
        BY <1>1, <1>2, <2>3, <4>1 DEF Same
    <3>4. \A r \in reg' : r[2] # at'[h].page
      BY <1>1, <2>3, Known
    <3>5. at'[h].step # "register"
      BY <1>1, <1>4, <2>3 DEF PlainStep, Moved
    <3>6. QED
      BY <3>2, <3>3, <3>4, <3>5
  <2>4. QED
    BY <1>5, <2>1, <2>2, <2>3
<1>7. Got'
  <2>1. \A h \in Handlers : Adding(h)' => \A r \in at'[h].got :
            r[1] = at'[h].script /\ r[2] \in ToSet(at'[h].pages)
    BY <1>2 DEF ClearInv, Got, Same
  <2>2. \A h \in Handlers : Adding(h)' => \A r \in reg' : r[1] = at'[h].script => r \in at'[h].got
    BY <1>1, <1>2 DEF ClearInv, Got, Same
  <2>3. QED
    BY <2>1, <2>2 DEF Got
<1>8. Removable'
  BY <1>1, <1>3 DEF ClearInv, Removable, Excused, Same
<1>9. ClearedScriptsGone'
  <2>1. \A h \in Handlers : Adding(h) => at'[h].step = "add" /\ at'[h].script = at[h].script
    BY <1>3 DEF Same, Adding
  <2>2. QED
    BY <1>1, <2>1 DEF ClearInv, ClearedScriptsGone, Adding
<1>10. QED
  BY <1>6, <1>7, <1>8, <1>9 DEF ClearInv

(* s.mu free: nobody adds a script.                                        *)
LEMMA NobodyAdds ==
  ASSUME Base, mu = "free"
  PROVE  \A h \in Handlers : ~Adding(h)
BY HandlersAssumption DEF Base, OneAdd

LEMMA TrackAppendDoes ==
  ASSUME Shape, Base, NEW h \in Handlers, TrackAppend(h)
  PROVE  /\ at[h].step = "append" /\ \A g \in Handlers \ {h} : at'[g] = at[g]
         /\ at'[h].step = "copy" /\ at'[h].page = at[h].page /\ at'[h].todo = at[h].todo
         /\ at'[h].pages = at[h].pages
         /\ ToSet(pageOrder') \subseteq ToSet(pageOrder) \cup {at[h].page}
         /\ at[h].page \in 1 .. opened
         /\ ghost'.failed = ghost.failed /\ ghost'.crossed = ghost.crossed
         /\ UNCHANGED <<live, opened, doc, activePg, ctx, scriptVars, mu, saved, ops>>
<1>1. at[h] \in Locals /\ at[h].step = "append"
  BY DEF Shape, TrackAppend
<1>2. at'[h] = With(at[h], [step |-> "copy"]) /\ \A g \in Handlers \ {h} : at'[g] = at[g]
  BY GotoGives DEF TrackAppend
<1>3. /\ at'[h].step = "copy" /\ at'[h].page = at[h].page /\ at'[h].todo = at[h].todo
      /\ at'[h].pages = at[h].pages
  BY <1>1, <1>2 DEF With, Locals, Fields
<1>4. at[h].page \in Pages
  BY <1>1, Bounds DEF Locals, Fields, Pages
<1>5. ToSet(pageOrder') \subseteq ToSet(pageOrder) \cup {at[h].page}
  BY <1>4, OrderWrites DEF TrackAppend, Raced, Shape, PageTypes
<1>6. at[h].page \in 1 .. opened
  BY <1>4, Known, Bounds DEF Base, Opened, Pages
<1>7. QED
  BY <1>1, <1>2, <1>3, <1>5, <1>6 DEF TrackAppend

LEMMA TrackAppendBase ==
  ASSUME Shape, Base, NEW h \in Handlers, TrackAppend(h)
  PROVE  Base'
<1>1. /\ at[h].step = "append" /\ \A g \in Handlers \ {h} : at'[g] = at[g]
      /\ at'[h].step = "copy" /\ at'[h].page = at[h].page /\ at'[h].todo = at[h].todo
      /\ at'[h].pages = at[h].pages
      /\ ToSet(pageOrder') \subseteq ToSet(pageOrder) \cup {at[h].page}
      /\ at[h].page \in 1 .. opened
      /\ UNCHANGED <<live, opened, activePg, scriptVars, mu>>
  BY TrackAppendDoes
<1>2. /\ live' = live /\ opened' = opened /\ activePg' = activePg /\ mu' = mu /\ global' = global
      /\ perTab' = perTab /\ reg' = reg /\ added' = added
  BY <1>1 DEF scriptVars
<1>3. Opened'
  BY <1>1, <1>2 DEF Base, Opened
<1>4. OneAdd'
  BY <1>1, <1>2 DEF Base, OneAdd, Adding
<1>5. Numbered'
  BY <1>1, <1>2 DEF Base, Numbered
<1>6. QED
  BY <1>3, <1>4, <1>5 DEF Base

LEMMA TrackAppendReach ==
  ASSUME Shape, Base, ReachInv, NEW h \in Handlers, TrackAppend(h)
  PROVE  ReachInv'
<1>1. /\ at[h].step = "append" /\ \A g \in Handlers \ {h} : at'[g] = at[g]
      /\ at'[h].step = "copy" /\ at'[h].page = at[h].page
      /\ ToSet(pageOrder') \subseteq ToSet(pageOrder) \cup {at[h].page}
      /\ UNCHANGED <<live, scriptVars>>
  BY TrackAppendDoes
<1>2. live' = live /\ global' = global /\ reg' = reg
  BY <1>1 DEF scriptVars
<1>3. Tracked' \subseteq Tracked \cup {at[h].page}
  BY <1>1 DEF Tracked
<1>4. \A p : Copying(p) => Copying(p)'
  BY <1>1 DEF Copying
<1>5. \A p : p = at[h].page => Copying(p)'
  BY <1>1 DEF Copying
<1>6. \A p, e : Registering(p, e) => Registering(p, e)'
  BY <1>1 DEF Registering
<1>7. \A p, e : Runs(p, e) => Runs(p, e)'
  BY <1>2 DEF Runs
<1>8. Reached'
  BY <1>2, <1>3, <1>4, <1>5, <1>6, <1>7 DEF ReachInv, Reached
<1>9. AddReaches'
  <2>1. \A g \in Handlers : Adding(g)' => Adding(g) /\ at'[g] = at[g]
    BY <1>1 DEF Adding
  <2>2. \A p \in Tracked' \cap ToSet(live') : p \in Tracked \cap ToSet(live) \/ Copying(p)'
    BY <1>2, <1>3, <1>5
  <2>3. SUFFICES ASSUME NEW g \in Handlers, Adding(g)', at'[g].every
                 PROVE  /\ \A p \in Tracked' \cap ToSet(live') : p \in ToSet(at'[g].pages) \/ Copying(p)'
                        /\ \A i \in 1 .. at'[g].n : at'[g].pages[i] \in ToSet(live')
                               => \E r \in reg' : r[1] = at'[g].script /\ r[2] = at'[g].pages[i]
    BY DEF AddReaches, IsLive, Runs
  <2>4. Adding(g) /\ at[g].every
    BY <2>1, <2>3, Zenon
  <2>5. /\ \A p \in Tracked \cap ToSet(live) : p \in ToSet(at[g].pages) \/ Copying(p)
        /\ \A i \in 1 .. at[g].n : at[g].pages[i] \in ToSet(live)
               => \E r \in reg : r[1] = at[g].script /\ r[2] = at[g].pages[i]
    BY <2>4, Zenon DEF ReachInv, AddReaches, IsLive, Runs
  <2>6. at'[g] = at[g]
    BY <2>1, <2>3
  <2>7. QED
    BY <1>2, <1>4, <2>2, <2>5, <2>6
<1>10. QED
  BY <1>8, <1>9 DEF ReachInv

LEMMA TrackAppendClear ==
  ASSUME Shape, Base, ClearInv, NEW h \in Handlers, TrackAppend(h)
  PROVE  ClearInv'
<1>1. /\ at[h].step = "append" /\ \A g \in Handlers \ {h} : at'[g] = at[g]
      /\ at'[h].step = "copy" /\ at'[h].page = at[h].page
      /\ ghost'.failed = ghost.failed /\ ghost'.crossed = ghost.crossed
      /\ UNCHANGED scriptVars
  BY TrackAppendDoes
<1>2. global' = global /\ perTab' = perTab /\ ids' = ids /\ reg' = reg
  BY <1>1 DEF scriptVars
<1>3. \A g \in Handlers : (SettingUp(g)' <=> SettingUp(g)) /\ at'[g].page = at[g].page
                          /\ (Adding(g)' <=> Adding(g)) /\ (g # h => at'[g] = at[g])
  BY <1>1 DEF SettingUp, Adding
<1>4. SetUpOnce'
  BY <1>1, <1>2, <1>3 DEF ClearInv, SetUpOnce, Untouched, SettingUp, Adding
<1>5. Got'
  BY <1>1, <1>2 DEF ClearInv, Got, Adding
<1>6. Removable'
  BY <1>1, <1>2 DEF ClearInv, Removable, Adding, Excused
<1>7. ClearedScriptsGone'
  BY <1>1, <1>2 DEF ClearInv, ClearedScriptsGone
<1>8. QED
  BY <1>4, <1>5, <1>6, <1>7 DEF ClearInv

LEMMA ApplyRegisterDoes ==
  ASSUME Shape, Base, NEW h \in Handlers, ApplyRegister(h)
  PROVE  /\ at[h].step = "register" /\ \A g \in Handlers \ {h} : at'[g] = at[g]
         /\ at'[h].step = "register" /\ at'[h].page = at[h].page
         /\ at'[h].pages = at[h].pages
         /\ mu = "free"
         /\ UNCHANGED <<tabVars, global, perTab, added, mu, saved, ops, ghost>>
         /\ \E e \in at[h].todo :
               /\ at'[h].todo = at[h].todo \ {e}
               /\ at[h].page \notin ToSet(live) => reg' = reg /\ ids' = ids
               /\ at[h].page \in ToSet(live) => \E r :
                     /\ r[1] = e /\ r[2] = at[h].page /\ reg' = reg \cup {r}
                     /\ ids' = {i \in ids : i[1] # e \/ i[2] # at[h].page} \cup {r}
<1> DEFINE e == CHOOSE x \in at[h].todo : \A y \in at[h].todo : x <= y
           p == at[h].page
           r == NewReg(e, p)
<1>1. at[h] \in Locals /\ at[h].todo \in SUBSET Scripts /\ at[h].todo # {}
  BY DEF Shape, Locals, Fields, ApplyRegister
<1>2. e \in at[h].todo /\ e \in Scripts
  BY <1>1, OldestEntry
<1>3. at'[h] = With(at[h], [todo |-> at[h].todo \ {e}]) /\ \A g \in Handlers \ {h} : at'[g] = at[g]
  BY GotoGives DEF ApplyRegister
<1>4. /\ at'[h].step = at[h].step /\ at'[h].page = at[h].page
      /\ at'[h].todo = at[h].todo \ {e} /\ at'[h].pages = at[h].pages
  BY <1>1, <1>3 DEF With, Locals, Fields
<1>5. ASSUME p \in ToSet(live)
      PROVE  r[1] = e /\ r[2] = p /\ reg' = reg \cup {r} /\ ids' = StoreId(e, p, r)
  <2>1. p \in Pages
    BY <1>5, ToSetFacts DEF Shape, PageTypes
  <2>2. r[1] = e /\ r[2] = p
    BY <1>2, <2>1, NewRegTypes
  <2>3. QED
    BY <1>5, <2>2 DEF ApplyRegister, IsLive
<1>6. p \notin ToSet(live) => reg' = reg /\ ids' = ids
  BY DEF ApplyRegister, IsLive
<1>7. /\ at[h].step = "register" /\ mu = "free"
      /\ UNCHANGED <<tabVars, global, perTab, added, mu, saved, ops, ghost>>
  BY DEF ApplyRegister
<1> HIDE DEF e, r
<1>8. QED
  BY <1>2, <1>3, <1>4, <1>5, <1>6, <1>7 DEF StoreId

LEMMA ApplyRegisterKeeps ==
  ASSUME Shape, Base, ReachInv, ClearInv, NEW h \in Handlers, ApplyRegister(h)
  PROVE  Base' /\ ReachInv' /\ ClearInv'
<1>1. /\ at[h].step = "register" /\ \A g \in Handlers \ {h} : at'[g] = at[g]
      /\ at'[h].step = "register" /\ at'[h].page = at[h].page
      /\ at'[h].pages = at[h].pages /\ mu = "free"
      /\ UNCHANGED <<tabVars, global, perTab, added, mu, ghost>>
  BY ApplyRegisterDoes
<1>2. PICK e \in at[h].todo :
        /\ at'[h].todo = at[h].todo \ {e}
        /\ at[h].page \notin ToSet(live) => reg' = reg /\ ids' = ids
        /\ at[h].page \in ToSet(live) => \E r :
              /\ r[1] = e /\ r[2] = at[h].page /\ reg' = reg \cup {r}
              /\ ids' = {i \in ids : i[1] # e \/ i[2] # at[h].page} \cup {r}
  BY ApplyRegisterDoes
<1>3. /\ live' = live /\ opened' = opened /\ pageOrder' = pageOrder /\ activePg' = activePg
      /\ mu' = mu /\ global' = global /\ perTab' = perTab /\ added' = added /\ ghost' = ghost
  BY <1>1 DEF tabVars
<1>4. /\ \A x \in reg' : x \in reg \/ (x[1] = e /\ x[2] = at[h].page /\ at[h].page \in ToSet(live) /\ x \in ids')
      /\ reg \subseteq reg'
  BY <1>2
<1>5. at[h].page \in ToSet(live) => \E x \in reg' : x[1] = e /\ x[2] = at[h].page
  BY <1>2
<1>6. \A i \in ids : i \in ids' \/ (i[1] = e /\ i[2] = at[h].page)
  BY <1>2
<1>7. \A g \in Handlers : ~Adding(g) /\ ~Adding(g)'
  BY <1>1, NobodyAdds DEF Adding
<1>8. Base'
  <2>1. Opened'
    BY <1>1, <1>3, <1>4 DEF Base, Opened
  <2>2. OneAdd'
    BY <1>7 DEF OneAdd
  <2>3. \A r \in reg' : r[1] <= added
    BY <1>4 DEF Base, Numbered
  <2>4. \A g \in Handlers : at'[g].todo \subseteq at[g].todo
    BY <1>1, <1>2
  <2>5. Numbered'
    BY <1>3, <2>3, <2>4 DEF Base, Numbered
  <2>6. QED
    BY <2>1, <2>2, <2>5 DEF Base
<1>9. ReachInv'
  <2>1. Tracked' = Tracked
    BY <1>1, <1>3 DEF Tracked
  <2>2. \A p, x : Runs(p, x) => Runs(p, x)'
    BY <1>4 DEF Runs
  <2>3. \A p : Copying(p) => Copying(p)'
    BY <1>1 DEF Copying
  <2>4. ASSUME NEW p \in ToSet(live), NEW x, Registering(p, x)
        PROVE  Registering(p, x)' \/ Runs(p, x)'
    <3>1. PICK g \in Handlers : at[g].step = "register" /\ at[g].page = p /\ x \in at[g].todo
      BY <2>4 DEF Registering
    <3>2. CASE g # h \/ x # e
      BY <1>1, <1>2, <3>1, <3>2 DEF Registering
    <3>3. CASE g = h /\ x = e
      BY <1>5, <2>4, <3>1, <3>3 DEF Runs
    <3>4. QED
      BY <3>2, <3>3
  <2>5. Reached'
    BY <1>3, <2>1, <2>2, <2>3, <2>4 DEF ReachInv, Reached
  <2>6. AddReaches'
    BY <1>7 DEF AddReaches
  <2>7. QED
    BY <2>5, <2>6 DEF ReachInv
<1>10. Untouched(h) =>
         /\ \A g \in Handlers : SettingUp(g) /\ at[g].page = at[h].page => g = h
         /\ at[h].todo \subseteq global
         /\ \A r \in reg : r[2] = at[h].page => r[1] \notin at[h].todo
  BY <1>1 DEF ClearInv, SetUpOnce
<1>11. SettingUp(h) /\ (Untouched(h) \/ at[h].page \in ghost.crossed)
  BY <1>1 DEF SettingUp, Untouched
<1>12. ClearInv'
  <2>1. \A g \in Handlers : (SettingUp(g)' <=> SettingUp(g)) /\ at'[g].page = at[g].page
                            /\ (Untouched(g)' <=> Untouched(g)) /\ at'[g].step = at[g].step
    BY <1>1, <1>3 DEF SettingUp, Untouched
  <2>2. SetUpOnce'
    <3>1. SUFFICES ASSUME NEW g \in Handlers, Untouched(g)'
          PROVE  /\ \A k \in Handlers : SettingUp(k)' /\ at'[k].page = at'[g].page => k = g
                 /\ \A k \in Handlers : Adding(k)' => at'[g].page \notin ToSet(at'[k].pages)
                 /\ at'[g].step # "register" => \A r \in reg' : r[2] # at'[g].page
                 /\ at'[g].step = "register" =>
                       /\ at'[g].todo \subseteq global'
                       /\ \A r \in reg' : r[2] = at'[g].page => r[1] \notin at'[g].todo
      BY DEF SetUpOnce
    <3>2. Untouched(g)
      BY <2>1, <3>1
    <3>3. /\ \A k \in Handlers : SettingUp(k) /\ at[k].page = at[g].page => k = g
          /\ at[g].step # "register" => \A r \in reg : r[2] # at[g].page
          /\ at[g].step = "register" =>
                /\ at[g].todo \subseteq global
                /\ \A r \in reg : r[2] = at[g].page => r[1] \notin at[g].todo
      BY <3>2 DEF ClearInv, SetUpOnce
    <3>4. CASE g # h
      <4>1. at[g].page # at[h].page
        BY <1>11, <3>3, <3>4
      <4>2. at'[g] = at[g]
        BY <1>1, <3>4
      <4>3. \A r \in reg' : r[2] = at[g].page => r \in reg
        BY <1>4, <4>1
      <4>4. QED
        BY <1>3, <1>7, <2>1, <3>3, <4>2, <4>3
    <3>5. CASE g = h
      <4>1. at'[h].todo \subseteq global' /\ \A r \in reg' : r[2] = at[h].page => r[1] \notin at'[h].todo
        BY <1>1, <1>2, <1>3, <1>4, <3>3, <3>5
      <4>2. QED
        BY <1>1, <1>7, <2>1, <3>3, <3>5, <4>1
    <3>6. QED
      BY <3>4, <3>5
  <2>3. Got'
    BY <1>7 DEF Got
  <2>4. Removable'
    <3>1. ASSUME NEW r \in reg' PROVE r \in ids' \/ Excused(r)'
      <4>1. CASE r \in reg /\ r \in ids /\ r[1] = e /\ r[2] = at[h].page
        BY <1>3, <1>10, <1>11, <4>1 DEF Excused
      <4>2. CASE r \in reg /\ ~(r \in ids /\ r[1] = e /\ r[2] = at[h].page)
        BY <1>3, <1>6, <1>7, <4>2 DEF ClearInv, Removable, Excused
      <4>3. CASE r \notin reg
        BY <1>4, <4>3
      <4>4. QED
        BY <4>1, <4>2, <4>3
    <3>2. QED
      BY <3>1 DEF Removable
  <2>5. ClearedScriptsGone'
    <3>1. ASSUME NEW r \in reg'
          PROVE  \/ r[1] \in global' \/ \E x \in perTab' : x[2] = r[1]
                 \/ r[1] \in ghost'.failed \/ r[2] \in ghost'.crossed
      <4>1. CASE r \in reg
        BY <1>3, <1>7, <4>1 DEF ClearInv, ClearedScriptsGone, Adding
      <4>2. CASE r \notin reg
        BY <1>2, <1>3, <1>4, <1>10, <1>11, <4>2
      <4>3. QED
        BY <4>1, <4>2
    <3>2. QED
      BY <3>1 DEF ClearedScriptsGone
  <2>6. QED
    BY <2>2, <2>3, <2>4, <2>5 DEF ClearInv
<1>13. QED
  BY <1>8, <1>9, <1>12

(* The pages being set up while scripts are added or cleared are crossed.  *)
LEMMA CrossingDoes ==
  ASSUME Shape
  PROVE  /\ Crossing.failed = ghost.failed /\ Crossing.crossed = ghost.crossed \cup BeingSetUp
         /\ \A e : [Crossing EXCEPT !.failed = @ \cup {e}].failed = ghost.failed \cup {e}
         /\ \A e : [Crossing EXCEPT !.failed = @ \cup {e}].crossed = ghost.crossed \cup BeingSetUp
         /\ \A h \in Handlers : SettingUp(h) => at[h].page \in BeingSetUp
<1>1. Crossing.failed = ghost.failed /\ Crossing.crossed = ghost.crossed \cup BeingSetUp
  BY DEF Crossing, Shape, Ghosts
<1>2. Crossing \in Ghosts
  BY CrossingTypes
<1>3. /\ \A e : [Crossing EXCEPT !.failed = @ \cup {e}].failed = Crossing.failed \cup {e}
      /\ \A e : [Crossing EXCEPT !.failed = @ \cup {e}].crossed = Crossing.crossed
  BY <1>2 DEF Ghosts
<1>4. \A h \in Handlers : SettingUp(h) => at[h].page \in BeingSetUp
  BY DEF SettingUp, BeingSetUp
<1>5. QED
  BY <1>1, <1>3, <1>4

LEMMA CrossedSetUp ==
  ASSUME Shape, ghost'.crossed = ghost.crossed \cup BeingSetUp,
         \A g \in Handlers : SettingUp(g)' => SettingUp(g) /\ at'[g].page = at[g].page
  PROVE  SetUpOnce'
BY CrossingDoes DEF SetUpOnce, Untouched

LEMMA NobodyAddsLeft ==
  ASSUME \A g \in Handlers : ~Adding(g)'
  PROVE  OneAdd' /\ AddReaches' /\ Got'
BY DEF OneAdd, AddReaches, Got

LEMMA AddStartKeeps ==
  ASSUME Shape, Shape', Base, ReachInv, ClearInv, NEW h \in Handlers, NEW alias \in Aliases,
         AddStart(h, alias)
  PROVE  Base' /\ ReachInv' /\ ClearInv'
<1>1. /\ at[h].step = "idle" /\ OthersSame(h)
      /\ at'[h].step = "add" /\ at'[h].script = added + 1 /\ at'[h].n = 0 /\ at'[h].got = {}
      /\ at'[h].page = 0 /\ at'[h].todo = {}
      /\ ToSet(at'[h].pages) \subseteq ToSet(live)
      /\ added' = added + 1 /\ mu = "free" /\ mu' = h
  BY AddStartDoes
<1>2. at'[h].every => ToSet(at'[h].pages) = ToSet(live)
  BY AddStartDoes
<1>3. /\ live' = live /\ opened' = opened /\ pageOrder' = pageOrder /\ activePg' = activePg
      /\ global' = global /\ perTab' = perTab /\ ids' = ids /\ reg' = reg
      /\ ghost' = Crossing
  BY DEF AddStart, tabVars
<1>4. ghost'.failed = ghost.failed /\ ghost'.crossed = ghost.crossed \cup BeingSetUp
  BY <1>3, CrossingDoes
<1>5. \A g \in Handlers : ~Adding(g) /\ (Adding(g)' => g = h)
  BY <1>1, NobodyAdds DEF Adding, OthersSame, Same
<1>6. added \in Nat /\ (\A e \in global : e <= added /\ e \in Nat)
      /\ (\A r \in reg : r[1] <= added /\ r[1] \in Nat) /\ (\A x \in perTab : x[2] <= added /\ x[2] \in Nat)
  BY Bounds DEF Base, Numbered, Shape, ScriptTypes, Regs, Scripts
<1>7. ToSet(<<>>) = {}
  BY DEF ToSet
<1>8. Base'
  <2>1. \A g \in Handlers : /\ at'[g].page <= opened'
                            /\ ToSet(at'[g].pages) \subseteq 1 .. opened'
    <3>1. ToSet(at'[h].pages) \subseteq 1 .. opened
      BY <1>1, <1>7, Known
    <3>2. \A g \in Handlers \ {h} : /\ at'[g].page = at[g].page
                                    /\ at'[g].pages = at[g].pages
      BY <1>1 DEF OthersSame, Same
    <3>3. \A g \in Handlers : /\ at[g].page <= opened
                              /\ ToSet(at[g].pages) \subseteq 1 .. opened
      BY DEF Base, Opened
    <3>4. 0 <= opened
      BY Known
    <3>5. QED
      BY <1>1, <1>3, <3>1, <3>2, <3>3, <3>4
  <2>2. Opened'
    BY <1>3, <2>1 DEF Base, Opened
  <2>3. at'[h].n <= Len(at'[h].pages)
    <3>1. at'[h].pages \in Seq(Pages)
      BY DEF Shape, Locals, Fields
    <3>2. QED
      BY <1>1, <3>1
  <2>4. OneAdd'
    BY <1>1, <1>3, <1>5, <1>6, <2>3 DEF OneAdd
  <2>5. \A g \in Handlers : \A e \in at'[g].todo : e <= added'
    <3>1. \A g \in Handlers : at'[g].todo \subseteq at[g].todo
      BY <1>1 DEF OthersSame, Same
    <3>2. \A g \in Handlers : \A e \in at[g].todo : e <= added /\ e \in Nat
      BY DEF Base, Numbered, Shape, Locals, Fields, Scripts
    <3>3. QED
      BY <1>1, <1>6, <3>1, <3>2
  <2>6. Numbered'
    BY <1>1, <1>3, <1>6, <2>5 DEF Base, Numbered
  <2>7. QED
    BY <2>2, <2>4, <2>6 DEF Base
<1>9. ReachInv'
  <2>1. Tracked' = Tracked
    BY <1>1, <1>3 DEF Tracked, OthersSame, Same
  <2>2. \A p, e : Runs(p, e) => Runs(p, e)'
    BY <1>3 DEF Runs
  <2>3. \A p : Copying(p) => Copying(p)'
    BY <1>1 DEF Copying, OthersSame, Same
  <2>4. \A p, e : Registering(p, e) => Registering(p, e)'
    BY <1>1 DEF Registering, OthersSame, Same
  <2>5. Reached'
    BY <1>3, <2>1, <2>2, <2>3, <2>4 DEF ReachInv, Reached
  <2>6. AddReaches'
    <3>1. SUFFICES ASSUME NEW g \in Handlers, Adding(g)', at'[g].every
                   PROVE  /\ \A p \in Tracked' \cap ToSet(live') : p \in ToSet(at'[g].pages) \/ Copying(p)'
                          /\ \A i \in 1 .. at'[g].n : at'[g].pages[i] \in ToSet(live')
                                 => \E r \in reg' : r[1] = at'[g].script /\ r[2] = at'[g].pages[i]
      BY DEF AddReaches, IsLive, Runs
    <3>2. g = h
      BY <1>5, <3>1
    <3>3. ToSet(at'[g].pages) = ToSet(live)
      BY <1>2, <3>1, <3>2, Zenon
    <3>4. 1 .. at'[g].n = {}
      BY <1>1, <3>2
    <3>5. QED
      BY <1>3, <3>3, <3>4
  <2>7. QED
    BY <2>5, <2>6 DEF ReachInv
<1>10. ClearInv'
  <2>1. \A g \in Handlers : SettingUp(g)' => SettingUp(g) /\ at'[g].page = at[g].page
    BY <1>1 DEF SettingUp, OthersSame, Same
  <2>2. SetUpOnce'
    BY <1>4, <2>1, CrossedSetUp
  <2>3. Got'
    BY <1>1, <1>3, <1>5, <1>6 DEF Got
  <2>4. Removable'
    BY <1>3, <1>4, <1>5 DEF ClearInv, Removable, Excused
  <2>5. ClearedScriptsGone'
    BY <1>3, <1>4, <1>5 DEF ClearInv, ClearedScriptsGone, Adding
  <2>6. QED
    BY <2>2, <2>3, <2>4, <2>5 DEF ClearInv
<1>11. QED
  BY <1>8, <1>9, <1>10

LEMMA AddRegisterDoes ==
  ASSUME Shape, Base, NEW h \in Handlers, AddRegister(h)
  PROVE  /\ at[h].step = "add" /\ at[h].n \in Nat /\ at[h].n + 1 \in 1 .. Len(at[h].pages)
         /\ \A g \in Handlers \ {h} : at'[g] = at[g]
         /\ UNCHANGED <<tabVars, global, perTab, ids, added, saved, ops>>
         /\ at[h].pages[at[h].n + 1] \in ToSet(at[h].pages)
         /\ IsLive(at[h].pages[at[h].n + 1]) =>
               /\ at'[h].step = "add" /\ at'[h].page = at[h].page
               /\ at'[h].todo = at[h].todo /\ at'[h].pages = at[h].pages /\ at'[h].n = at[h].n + 1
               /\ at'[h].script = at[h].script /\ mu' = mu /\ ghost' = ghost
               /\ \E r : /\ r[1] = at[h].script /\ r[2] = at[h].pages[at[h].n + 1]
                         /\ reg' = reg \cup {r} /\ at'[h].got = at[h].got \cup {r}
         /\ ~IsLive(at[h].pages[at[h].n + 1]) =>
               /\ at'[h] = Idle /\ mu' = "free" /\ reg' = reg
               /\ ghost' = [Crossing EXCEPT !.failed = @ \cup {at[h].script}]
<1> DEFINE p == at[h].pages[at[h].n + 1]
           r == NewReg(at[h].script, p)
<1>1. /\ at[h] \in Locals /\ at[h].step = "add" /\ at[h].script \in Scripts /\ at[h].n \in Nat
      /\ at[h].pages \in Seq(Pages) /\ at[h].n < Len(at[h].pages)
  BY DEF Shape, Locals, Fields, AddRegister
<1>2. at[h].n + 1 \in 1 .. Len(at[h].pages) /\ p \in Pages
  BY <1>1
<1>3. p \in ToSet(at[h].pages)
  BY <1>1, <1>2 DEF ToSet
<1>4. ASSUME IsLive(p)
      PROVE  /\ reg' = reg \cup {r} /\ mu' = mu /\ ghost' = ghost
             /\ Goto(h, [n |-> at[h].n + 1, got |-> at[h].got \cup {r}])
  BY <1>4 DEF AddRegister
<1>5. r[1] = at[h].script /\ r[2] = p
  BY <1>1, <1>2, NewRegTypes
<1>6. ASSUME ~IsLive(p)
      PROVE  /\ at'[h] = Idle /\ \A g \in Handlers \ {h} : at'[g] = at[g]
             /\ mu' = "free" /\ reg' = reg
             /\ ghost' = [Crossing EXCEPT !.failed = @ \cup {at[h].script}]
  BY <1>6, EndGives DEF AddRegister
<1>7. UNCHANGED <<tabVars, global, perTab, ids, added, saved, ops>>
  BY DEF AddRegister
<1> HIDE DEF r
<1>8. ASSUME IsLive(p)
      PROVE  /\ at'[h].step = "add" /\ at'[h].page = at[h].page
             /\ at'[h].todo = at[h].todo /\ at'[h].pages = at[h].pages /\ at'[h].n = at[h].n + 1
             /\ at'[h].script = at[h].script /\ at'[h].got = at[h].got \cup {r}
             /\ \A g \in Handlers \ {h} : at'[g] = at[g]
  <2>1. /\ at'[h] = With(at[h], [n |-> at[h].n + 1, got |-> at[h].got \cup {r}])
        /\ \A g \in Handlers \ {h} : at'[g] = at[g]
    BY <1>4, <1>8, GotoGives
  <2>2. QED
    BY <1>1, <2>1 DEF With, Locals, Fields
<1>9. QED
  BY <1>1, <1>2, <1>3, <1>4, <1>5, <1>6, <1>7, <1>8

LEMMA AddRegisterKeeps ==
  ASSUME Shape, Base, ReachInv, ClearInv, NEW h \in Handlers, AddRegister(h),
         IsLive(at[h].pages[at[h].n + 1])
  PROVE  Base' /\ ReachInv' /\ ClearInv'
<1> DEFINE p == at[h].pages[at[h].n + 1]
<1>1. /\ at[h].step = "add" /\ at[h].n \in Nat /\ at[h].n + 1 \in 1 .. Len(at[h].pages)
      /\ \A g \in Handlers \ {h} : at'[g] = at[g]
      /\ p \in ToSet(at[h].pages)
      /\ at'[h].step = "add" /\ at'[h].page = at[h].page
      /\ at'[h].todo = at[h].todo /\ at'[h].pages = at[h].pages /\ at'[h].n = at[h].n + 1
      /\ at'[h].script = at[h].script /\ mu' = mu /\ ghost' = ghost
  BY AddRegisterDoes
<1>2. PICK r : /\ r[1] = at[h].script /\ r[2] = p
               /\ reg' = reg \cup {r} /\ at'[h].got = at[h].got \cup {r}
  BY AddRegisterDoes
<1>3. /\ live' = live /\ opened' = opened /\ pageOrder' = pageOrder /\ activePg' = activePg
      /\ global' = global /\ perTab' = perTab /\ ids' = ids /\ added' = added
  BY AddRegisterDoes DEF tabVars
<1>4. p \in ToSet(live)
  BY DEF IsLive
<1>5. at'[h].every = at[h].every
  <2>1. at[h] \in Locals
    BY DEF Shape
  <2>2. PICK x : at'[h] = With(at[h], [n |-> at[h].n + 1, got |-> at[h].got \cup {x}])
    BY GotoGives DEF AddRegister
  <2>3. QED
    BY <2>1, <2>2, Zenon DEF With, Locals, Fields
<1>6. \A g \in Handlers : (Adding(g) => g = h) /\ (Adding(g)' => g = h)
  <2>1. \A g \in Handlers : Adding(g) => mu = g
    BY DEF Base, OneAdd
  <2>2. Adding(h)
    BY <1>1 DEF Adding
  <2>3. QED
    BY <1>1, <2>1, <2>2 DEF Adding
<1> HIDE DEF p
<1>7. Base'
  <2>1. Opened'
    BY <1>1, <1>2, <1>3, <1>4 DEF Base, Opened
  <2>2. OneAdd'
    BY <1>1, <1>3 DEF Base, OneAdd, Adding
  <2>3. r[1] <= added
    <3>1. at[h].script \in 1 .. added
      BY <1>1 DEF Base, OneAdd, Adding
    <3>2. QED
      BY <1>2, <3>1
  <2>4. \A g \in Handlers : at'[g].todo = at[g].todo
    BY <1>1
  <2>5. \A x \in reg' : x[1] <= added
    BY <1>2, <2>3 DEF Base, Numbered
  <2>6. Numbered'
    BY <1>3, <2>4, <2>5 DEF Base, Numbered
  <2>7. QED
    BY <2>1, <2>2, <2>6 DEF Base
<1>8. ReachInv'
  <2>1. Tracked' = Tracked
    BY <1>1, <1>3 DEF Tracked
  <2>2. \A q, e : Runs(q, e) => Runs(q, e)'
    BY <1>2 DEF Runs
  <2>3. \A q : Copying(q) => Copying(q)'
    BY <1>1 DEF Copying
  <2>4. \A q, e : Registering(q, e) => Registering(q, e)'
    BY <1>1 DEF Registering
  <2>5. Reached'
    BY <1>3, <2>1, <2>2, <2>3, <2>4 DEF ReachInv, Reached
  <2>6. AddReaches'
    <3>1. SUFFICES ASSUME NEW g \in Handlers, Adding(g)', at'[g].every
                   PROVE  /\ \A q \in Tracked' \cap ToSet(live') : q \in ToSet(at'[g].pages) \/ Copying(q)'
                          /\ \A i \in 1 .. at'[g].n : at'[g].pages[i] \in ToSet(live')
                                 => \E x \in reg' : x[1] = at'[g].script /\ x[2] = at'[g].pages[i]
      BY DEF AddReaches, IsLive, Runs
    <3>2. g = h
      BY <1>6, <3>1
    <3>3. Adding(h) /\ at[h].every
      BY <1>1, <1>5, <3>1, <3>2, Zenon DEF Adding
    <3>4. /\ \A q \in Tracked \cap ToSet(live) : q \in ToSet(at[h].pages) \/ Copying(q)
          /\ \A i \in 1 .. at[h].n : at[h].pages[i] \in ToSet(live)
                 => \E x \in reg : x[1] = at[h].script /\ x[2] = at[h].pages[i]
      BY <3>3, Zenon DEF ReachInv, AddReaches, IsLive, Runs
    <3>5. ASSUME NEW i \in 1 .. at'[h].n, at[h].pages[i] \in ToSet(live)
          PROVE  \E x \in reg' : x[1] = at[h].script /\ x[2] = at[h].pages[i]
      <4>1. i \in 1 .. at[h].n \/ i = at[h].n + 1
        BY <1>1
      <4>2. CASE i = at[h].n + 1
        BY <1>2, <4>2 DEF p
      <4>3. QED
        BY <1>2, <3>4, <3>5, <4>1, <4>2
    <3>6. QED
      BY <1>1, <1>3, <2>1, <2>3, <3>2, <3>4, <3>5
  <2>7. QED
    BY <2>5, <2>6 DEF ReachInv
<1>9. ClearInv'
  <2>1. \A g \in Handlers : SettingUp(g)' \/ SettingUp(g) => g # h /\ at'[g] = at[g]
    BY <1>1 DEF SettingUp
  <2>2. SetUpOnce'
    <3>1. SUFFICES ASSUME NEW g \in Handlers, Untouched(g)'
          PROVE  /\ \A k \in Handlers : SettingUp(k)' /\ at'[k].page = at'[g].page => k = g
                 /\ \A k \in Handlers : Adding(k)' => at'[g].page \notin ToSet(at'[k].pages)
                 /\ at'[g].step # "register" => \A x \in reg' : x[2] # at'[g].page
                 /\ at'[g].step = "register" =>
                       /\ at'[g].todo \subseteq global'
                       /\ \A x \in reg' : x[2] = at'[g].page => x[1] \notin at'[g].todo
      BY DEF SetUpOnce
    <3>2. at'[g] = at[g] /\ g # h
      BY <2>1, <3>1 DEF Untouched
    <3>3. Untouched(g)
      BY <1>1, <3>1, <3>2 DEF Untouched, SettingUp
    <3>4. /\ \A k \in Handlers : SettingUp(k) /\ at[k].page = at[g].page => k = g
          /\ at[g].page \notin ToSet(at[h].pages)
          /\ at[g].step # "register" => \A x \in reg : x[2] # at[g].page
          /\ at[g].step = "register" =>
                /\ at[g].todo \subseteq global
                /\ \A x \in reg : x[2] = at[g].page => x[1] \notin at[g].todo
      BY <1>1, <3>3 DEF ClearInv, SetUpOnce, Adding
    <3>5. \A x \in reg' : x \in reg \/ x[2] # at[g].page
      BY <1>1, <1>2, <3>4
    <3>6. \A k \in Handlers : SettingUp(k)' => SettingUp(k) /\ at'[k] = at[k]
      BY <2>1 DEF SettingUp
    <3>7. QED
      BY <1>1, <1>3, <1>6, <3>2, <3>4, <3>5, <3>6
  <2>3. Got'
    <3>1. /\ \A x \in at[h].got : x[1] = at[h].script /\ x[2] \in ToSet(at[h].pages)
          /\ \A x \in reg : x[1] = at[h].script => x \in at[h].got
      BY <1>1 DEF ClearInv, Got, Adding
    <3>2. QED
      BY <1>1, <1>2, <1>6, <3>1 DEF Got
  <2>4. Removable'
    BY <1>1, <1>2, <1>3, <1>6 DEF ClearInv, Removable, Excused, Adding
  <2>5. ClearedScriptsGone'
    BY <1>1, <1>2, <1>3, <1>6 DEF ClearInv, ClearedScriptsGone, Adding
  <2>6. QED
    BY <2>2, <2>3, <2>4, <2>5 DEF ClearInv
<1>10. QED
  BY <1>7, <1>8, <1>9

(* An add that ends, having failed or not.                                 *)
LEMMA AddEnds ==
  ASSUME Shape, Base, NEW h \in Handlers, Adding(h), at'[h] = Idle,
         \A g \in Handlers \ {h} : at'[g] = at[g]
  PROVE  /\ \A g \in Handlers : ~Adding(g)' /\ (Adding(g) => g = h)
         /\ \A g \in Handlers : SettingUp(g)' => SettingUp(g) /\ at'[g].page = at[g].page
         /\ Tracked' \subseteq ToSet(pageOrder') \cup Tracked
         /\ \A p : Copying(p) => Copying(p)'
         /\ \A p, e : Registering(p, e) => Registering(p, e)'
         /\ \A g \in Handlers : at'[g] = at[g] \/ at'[g] = Idle
<1>1. at[h].step = "add" /\ at'[h].step = "idle"
  BY IdleFields DEF Adding
<1>2. \A g \in Handlers : Adding(g) => g = h
  BY DEF Base, OneAdd
<1>3. QED
  BY <1>1, <1>2 DEF Adding, SettingUp, Tracked, Copying, Registering

LEMMA AddFailsKeeps ==
  ASSUME Shape, Base, ReachInv, ClearInv, NEW h \in Handlers, AddRegister(h),
         ~IsLive(at[h].pages[at[h].n + 1])
  PROVE  Base' /\ ReachInv' /\ ClearInv'
<1>1. /\ Adding(h) /\ \A g \in Handlers \ {h} : at'[g] = at[g]
      /\ at'[h] = Idle /\ mu' = "free" /\ reg' = reg
      /\ ghost' = [Crossing EXCEPT !.failed = @ \cup {at[h].script}]
  BY AddRegisterDoes DEF Adding
<1>2. /\ live' = live /\ opened' = opened /\ pageOrder' = pageOrder /\ activePg' = activePg
      /\ global' = global /\ perTab' = perTab /\ ids' = ids /\ added' = added
  BY AddRegisterDoes DEF tabVars
<1>3. ghost'.failed = ghost.failed \cup {at[h].script} /\ ghost'.crossed = ghost.crossed \cup BeingSetUp
  BY <1>1, CrossingDoes
<1>4. /\ \A g \in Handlers : ~Adding(g)' /\ (Adding(g) => g = h)
      /\ \A g \in Handlers : SettingUp(g)' => SettingUp(g) /\ at'[g].page = at[g].page
      /\ Tracked' \subseteq ToSet(pageOrder') \cup Tracked
      /\ \A p : Copying(p) => Copying(p)'
      /\ \A p, e : Registering(p, e) => Registering(p, e)'
      /\ \A g \in Handlers : at'[g] = at[g] \/ at'[g] = Idle
  BY <1>1, AddEnds
<1>5. OneAdd' /\ AddReaches' /\ Got'
  BY <1>4, NobodyAddsLeft
<1>6. Base'
  <2>1. Opened'
    BY <1>1, <1>2, <1>4, IdleFields, Known DEF Base, Opened
  <2>2. Numbered'
    BY <1>1, <1>2, <1>4, IdleFields DEF Base, Numbered
  <2>3. QED
    BY <1>5, <2>1, <2>2 DEF Base
<1>7. Reached'
  <2>1. \A p, e : Runs(p, e) => Runs(p, e)'
    BY <1>1 DEF Runs
  <2>2. Tracked' \subseteq Tracked
    BY <1>2, <1>4 DEF Tracked
  <2>3. QED
    BY <1>2, <1>4, <2>1, <2>2 DEF ReachInv, Reached
<1>8. SetUpOnce'
  BY <1>3, <1>4, CrossedSetUp
<1>9. Removable'
  BY <1>1, <1>2, <1>3, <1>4 DEF ClearInv, Removable, Excused
<1>10. ClearedScriptsGone'
  BY <1>1, <1>2, <1>3, <1>4 DEF ClearInv, ClearedScriptsGone, Adding
<1>11. QED
  BY <1>5, <1>6, <1>7, <1>8, <1>9, <1>10 DEF ReachInv, ClearInv

LEMMA AddFinishKeeps ==
  ASSUME Shape, Base, ReachInv, ClearInv, NEW h \in Handlers, AddFinish(h)
  PROVE  Base' /\ ReachInv' /\ ClearInv'
<1>1. /\ Adding(h) /\ \A g \in Handlers \ {h} : at'[g] = at[g]
      /\ at'[h] = Idle /\ mu' = "free" /\ reg' = reg /\ ghost' = Crossing
      /\ at[h].n = Len(at[h].pages)
  BY EndGives DEF AddFinish, Adding
<1>2. /\ live' = live /\ opened' = opened /\ pageOrder' = pageOrder /\ activePg' = activePg
      /\ added' = added /\ ids' = ids \cup at[h].got
  BY DEF AddFinish, tabVars
<1>3. \/ /\ at[h].every /\ global' = global \cup {at[h].script} /\ perTab' = perTab
      \/ /\ ~at[h].every /\ global' = global
         /\ perTab' = perTab \cup (ToSet(at[h].pages) \X {at[h].script})
  BY Zenon DEF AddFinish
<1>4. ghost'.failed = ghost.failed /\ ghost'.crossed = ghost.crossed \cup BeingSetUp
  BY <1>1, CrossingDoes
<1>5. /\ \A g \in Handlers : ~Adding(g)' /\ (Adding(g) => g = h)
      /\ \A g \in Handlers : SettingUp(g)' => SettingUp(g) /\ at'[g].page = at[g].page
      /\ Tracked' \subseteq ToSet(pageOrder') \cup Tracked
      /\ \A p : Copying(p) => Copying(p)'
      /\ \A p, e : Registering(p, e) => Registering(p, e)'
      /\ \A g \in Handlers : at'[g] = at[g] \/ at'[g] = Idle
  BY <1>1, AddEnds
<1>6. OneAdd' /\ AddReaches' /\ Got'
  BY <1>5, NobodyAddsLeft
<1>7. at[h].script \in 1 .. added /\ at[h].script \notin global /\ \A x \in perTab : x[2] # at[h].script
  BY <1>1 DEF Base, OneAdd
<1>8. Base'
  <2>1. Opened'
    BY <1>1, <1>2, <1>5, IdleFields, Known DEF Base, Opened
  <2>2. \A g \in Handlers : \A e \in at'[g].todo : e <= added
    BY <1>5, IdleFields DEF Base, Numbered
  <2>3. /\ \A e \in global' : e <= added /\ \A x \in perTab' : x[2] # e
        /\ \A x \in perTab' : x[2] <= added
    <3>1. /\ \A e \in global : e <= added /\ \A x \in perTab : x[2] # e
          /\ \A x \in perTab : x[2] <= added
      BY DEF Base, Numbered
    <3>2. CASE global' = global \cup {at[h].script} /\ perTab' = perTab
      BY <1>7, <3>1, <3>2
    <3>3. CASE global' = global /\ perTab' = perTab \cup (ToSet(at[h].pages) \X {at[h].script})
      BY <1>7, <3>1, <3>3
    <3>4. QED
      BY <1>3, <3>2, <3>3
  <2>4. Numbered'
    BY <1>1, <1>2, <2>2, <2>3 DEF Base, Numbered
  <2>5. QED
    BY <1>6, <2>1, <2>4 DEF Base
<1>9. Reached'
  <2>1. \A p, e : Runs(p, e) => Runs(p, e)'
    BY <1>1 DEF Runs
  <2>2. Tracked' \subseteq Tracked
    BY <1>2, <1>5 DEF Tracked
  <2>3. ASSUME at[h].every, NEW p \in Tracked \cap ToSet(live)
        PROVE  Runs(p, at[h].script) \/ Copying(p)
    <3>1. /\ p \in ToSet(at[h].pages) \/ Copying(p)
          /\ \A i \in 1 .. at[h].n : IsLive(at[h].pages[i]) => Runs(at[h].pages[i], at[h].script)
      BY <1>1, <2>3 DEF ReachInv, AddReaches
    <3>2. at[h].pages \in Seq(Pages)
      BY DEF Shape, Locals, Fields
    <3>3. ASSUME p \in ToSet(at[h].pages) PROVE \E i \in 1 .. at[h].n : p = at[h].pages[i]
      BY <1>1, <3>2, <3>3 DEF ToSet
    <3>4. QED
      BY <3>1, <3>3 DEF IsLive
  <2>4. ASSUME NEW p \in Tracked \cap ToSet(live), NEW e \in global'
        PROVE  Runs(p, e) \/ Copying(p) \/ Registering(p, e)
    <3>1. CASE e \in global
      BY <3>1 DEF ReachInv, Reached
    <3>2. CASE e \notin global
      <4>1. at[h].every /\ e = at[h].script
        BY <1>3, <2>4, <3>2, Zenon
      <4>2. QED
        BY <2>3, <4>1
    <3>3. QED
      BY <3>1, <3>2
  <2>5. QED
    BY <1>2, <1>5, <2>1, <2>2, <2>4 DEF Reached
<1>10. SetUpOnce'
  BY <1>4, <1>5, CrossedSetUp
<1>11. Removable'
  <2>1. \A r \in reg : r[1] = at[h].script => r \in at[h].got
    BY <1>1 DEF ClearInv, Got
  <2>2. QED
    BY <1>1, <1>2, <1>4, <1>5, <2>1 DEF ClearInv, Removable, Excused
<1>12. ClearedScriptsGone'
  <2>1. \A r \in reg : r[1] = at[h].script => r[2] \in ToSet(at[h].pages)
    BY <1>1 DEF ClearInv, Got
  <2>2. global \subseteq global' /\ perTab \subseteq perTab'
    BY <1>3, Zenon
  <2>3. ASSUME NEW r \in reg, r[1] = at[h].script
        PROVE  r[1] \in global' \/ \E x \in perTab' : x[2] = r[1]
    <3>1. CASE global' = global \cup {at[h].script}
      BY <2>3, <3>1
    <3>2. CASE perTab' = perTab \cup (ToSet(at[h].pages) \X {at[h].script})
      <4>1. <<r[2], at[h].script>> \in perTab'
        BY <2>1, <2>3, <3>2
      <4>2. QED
        BY <2>3, <4>1
    <3>3. QED
      BY <1>3, <3>1, <3>2, Zenon
  <2>4. ASSUME NEW r \in reg, r[1] # at[h].script
        PROVE  \/ r[1] \in global' \/ \E x \in perTab' : x[2] = r[1]
               \/ r[1] \in ghost'.failed \/ r[2] \in ghost'.crossed
    BY <1>4, <1>5, <2>2, <2>4 DEF ClearInv, ClearedScriptsGone, Adding
  <2>5. QED
    BY <1>1, <2>3, <2>4 DEF ClearedScriptsGone
<1>13. QED
  BY <1>6, <1>8, <1>9, <1>10, <1>11, <1>12 DEF ReachInv, ClearInv

(* A clear removes the registrations of the scripts S that it knows of.    *)
LEMMA ClearKeeps ==
  ASSUME Shape, Base, ReachInv, ClearInv, NEW h \in Handlers, Serve(h), mu = "free",
         UNCHANGED <<tabVars, added, mu>>, ghost' = Crossing,
         NEW S, removeCDPScripts(S), global' \subseteq global, perTab' \subseteq perTab,
         global' \cap S = {},
         \A e \in global \ global' : e \in S,
         \A x \in perTab \ perTab' : x[2] \in S
  PROVE  Base' /\ ReachInv' /\ ClearInv'
<1>1. \A g \in Handlers : Same(g)
  BY ServeDoes
<1>2. /\ live' = live /\ opened' = opened /\ pageOrder' = pageOrder /\ activePg' = activePg
      /\ added' = added /\ mu' = mu
  BY DEF tabVars
<1>3. ghost'.failed = ghost.failed /\ ghost'.crossed = ghost.crossed \cup BeingSetUp
  BY CrossingDoes
<1>4. \A g \in Handlers : ~Adding(g) /\ ~Adding(g)'
  BY <1>1, NobodyAdds DEF Adding, Same
<1>5. OneAdd' /\ AddReaches' /\ Got'
  BY <1>4, NobodyAddsLeft
<1>6. /\ reg' = {r \in reg : ~(r[1] \in S /\ r \in ids)}
      /\ ids' = {i \in ids : i[1] \notin S}
  BY DEF removeCDPScripts
<1>7. Base'
  <2>1. Opened'
    BY <1>1, <1>2, <1>6 DEF Base, Opened, Same
  <2>2. \A g \in Handlers : at'[g].todo = at[g].todo
    BY <1>1 DEF Same
  <2>3. Numbered'
    BY <1>2, <1>6, <2>2 DEF Base, Numbered
  <2>4. QED
    BY <1>5, <2>1, <2>3 DEF Base
<1>8. Reached'
  <2>1. \A p, e : e \notin S /\ Runs(p, e) => Runs(p, e)'
    BY <1>6 DEF Runs
  <2>2. \A p : Copying(p) => Copying(p)'
    BY <1>1 DEF Copying, Same
  <2>3. \A p, e : Registering(p, e) => Registering(p, e)'
    BY <1>1 DEF Registering, Same
  <2>4. Tracked' = Tracked
    BY <1>1, <1>2 DEF Tracked, Same
  <2>5. \A e \in global' : e \in global /\ e \notin S
    OBVIOUS
  <2>6. QED
    BY <1>2, <2>1, <2>2, <2>3, <2>4, <2>5 DEF ReachInv, Reached
<1>9. SetUpOnce'
  <2>1. \A g \in Handlers : SettingUp(g)' => SettingUp(g) /\ at'[g].page = at[g].page
    BY <1>1 DEF SettingUp, Same
  <2>2. QED
    BY <1>3, <2>1, CrossedSetUp
<1>10. \A r \in reg : r \in ids \/ Excused(r)
  BY <1>4 DEF ClearInv, Removable
<1>11. Removable'
  BY <1>3, <1>6, <1>10 DEF Removable, Excused
<1>12. ClearedScriptsGone'
  <2>1. ASSUME NEW r \in reg'
        PROVE  \/ r[1] \in global' \/ \E x \in perTab' : x[2] = r[1]
               \/ r[1] \in ghost'.failed \/ r[2] \in ghost'.crossed
    <3>1. CASE r[1] \in S
      BY <1>3, <1>6, <1>10, <3>1 DEF Excused
    <3>2. CASE r[1] \notin S
      <4>1. \/ r[1] \in global \/ \E x \in perTab : x[2] = r[1]
            \/ r[1] \in ghost.failed \/ r[2] \in ghost.crossed
        BY <1>4, <1>6 DEF ClearInv, ClearedScriptsGone, Adding
      <4>2. QED
        BY <1>3, <3>2, <4>1
    <3>3. QED
      BY <3>1, <3>2
  <2>2. QED
    BY <2>1 DEF ClearedScriptsGone
<1>13. QED
  BY <1>5, <1>7, <1>8, <1>9, <1>11, <1>12 DEF ReachInv, ClearInv

LEMMA ClearAllKeeps ==
  ASSUME Shape, Base, ReachInv, ClearInv, NEW h \in Handlers, ClearAll(h)
  PROVE  Base' /\ ReachInv' /\ ClearInv'
<1> DEFINE S == global \cup {x[2] : x \in perTab}
<1>1. /\ Serve(h) /\ mu = "free" /\ UNCHANGED <<tabVars, added, mu>> /\ ghost' = Crossing
      /\ removeCDPScripts(S) /\ global' = {} /\ perTab' = {}
  BY DEF ClearAll
<1>2. (\A e \in global : e \in S) /\ \A x \in perTab : x[2] \in S
  OBVIOUS
<1> HIDE DEF S
<1>3. QED
  BY <1>1, <1>2, ClearKeeps

LEMMA ClearTabKeeps ==
  ASSUME Shape, Base, ReachInv, ClearInv, NEW h \in Handlers, NEW alias, ClearTab(h, alias)
  PROVE  Base' /\ ReachInv' /\ ClearInv'
<1> DEFINE T == ToSet(pagesForFilter(resolveTabAlias(alias)))
           S == {x[2] : x \in {y \in perTab : y[1] \in T}}
<1>1. /\ Serve(h) /\ mu = "free" /\ UNCHANGED <<tabVars, added, mu>> /\ ghost' = Crossing
      /\ removeCDPScripts(S) /\ global' = global /\ perTab' = {x \in perTab : x[1] \notin T}
  BY DEF ClearTab
<1> HIDE DEF T
<1>2. \A x \in perTab \ perTab' : x[2] \in S
  BY <1>1
<1>3. global \cap S = {}
  BY DEF Base, Numbered
<1> HIDE DEF S
<1>4. QED
  BY <1>1, <1>2, <1>3, ClearKeeps

-----------------------------------------------------------------------------
(* The invariants.                                                         *)

ScriptsInv == Shape /\ Base /\ ReachInv /\ ClearInv

LEMMA InitScripts == Init => ScriptsInv
<1> SUFFICES ASSUME Init PROVE ScriptsInv
  OBVIOUS
<1>1. /\ live = <<1>> /\ opened = 1 /\ pageOrder = <<>> /\ activePg = 0
      /\ global = {} /\ perTab = {} /\ reg = {} /\ added = 0
  BY DEF Init
<1>2. ToSet(<<>>) = {} /\ ToSet(<<1>>) = {1}
  BY DEF ToSet
<1>3. \A h \in Handlers : at[h] = Idle
  BY DEF Init
<1>4. \A h \in Handlers : /\ at[h].step = "idle" /\ at[h].page = 0 /\ at[h].todo = {}
                          /\ ToSet(at[h].pages) = {}
  BY <1>3, IdleFields
<1>5. Shape
  BY InitShape
<1>6. Base
  BY <1>1, <1>2, <1>4 DEF Base, Opened, OneAdd, Numbered, Adding
<1>7. ReachInv
  BY <1>1, <1>4 DEF ReachInv, Reached, AddReaches, Adding
<1>8. ClearInv
  BY <1>1, <1>4 DEF ClearInv, SetUpOnce, Got, Removable, ClearedScriptsGone, Untouched, SettingUp, Adding
<1>9. QED
  BY <1>5, <1>6, <1>7, <1>8 DEF ScriptsInv

LEMMA StepScripts ==
  ASSUME ScriptsInv, [Next]_vars
  PROVE  ScriptsInv'
<1>1. Shape /\ Base /\ ReachInv /\ ClearInv
  BY DEF ScriptsInv
<1>2. Shape'
  BY <1>1, StepShape
<1>3. CASE PlainStep
  BY <1>1, <1>2, <1>3, PlainBase, PlainReach, PlainClear DEF ScriptsInv
<1>4. ASSUME NEW h \in Handlers, TrackAppend(h) PROVE ScriptsInv'
  BY <1>1, <1>2, <1>4, TrackAppendBase, TrackAppendReach, TrackAppendClear DEF ScriptsInv
<1>5. ASSUME NEW h \in Handlers, ApplyRegister(h) PROVE ScriptsInv'
  BY <1>1, <1>2, <1>5, ApplyRegisterKeeps DEF ScriptsInv
<1>6. ASSUME NEW h \in Handlers, AddRegister(h) PROVE ScriptsInv'
  BY <1>1, <1>2, <1>6, AddRegisterKeeps, AddFailsKeeps DEF ScriptsInv
<1>7. ASSUME NEW h \in Handlers, AddFinish(h) PROVE ScriptsInv'
  BY <1>1, <1>2, <1>7, AddFinishKeeps DEF ScriptsInv
<1>8. ASSUME NEW h \in Handlers, ClearAll(h) PROVE ScriptsInv'
  BY <1>1, <1>2, <1>8, ClearAllKeeps DEF ScriptsInv
<1>9. ASSUME NEW h \in Handlers, NEW a \in Aliases, AddStart(h, a) \/ ClearTab(h, a) PROVE ScriptsInv'
  BY <1>1, <1>2, <1>9, AddStartKeeps, ClearTabKeeps DEF ScriptsInv
<1>10. QED
  BY <1>1, <1>3, <1>4, <1>5, <1>6, <1>7, <1>8, <1>9, StepsPlain DEF ScriptStep

LEMMA ScriptsInvariant == Spec => []ScriptsInv
BY InitScripts, StepScripts, PTL DEF Spec

(* However adds, clears, tabs and closes interleave, a tab that is set up  *)
(* runs every script that was added for all tabs                           *)
(* (page_management.go:100-101).                                           *)
THEOREM EveryTabHasScriptsHolds == Spec => []EveryTabHasScripts
<1>1. ScriptsInv => EveryTabHasScripts
  <2>1. SUFFICES ASSUME ScriptsInv, NEW p \in (ToSet(pageOrder) \cap ToSet(live)) \ BeingSetUp,
                        NEW e \in global
                 PROVE  Runs(p, e)
    BY DEF EveryTabHasScripts, Runs
  <2>2. p \in Tracked \cap ToSet(live)
    BY DEF Tracked
  <2>3. Runs(p, e) \/ Copying(p) \/ Registering(p, e)
    BY <2>1, <2>2 DEF ScriptsInv, ReachInv, Reached
  <2>4. ~Copying(p) /\ ~Registering(p, e)
    BY DEF Copying, Registering, BeingSetUp
  <2>5. QED
    BY <2>3, <2>4
<1>2. QED
  BY <1>1, ScriptsInvariant, PTL

(* A script that is not listed any more runs on no page but those the      *)
(* property excuses (routes_inject.go:184-186).                            *)
THEOREM ClearedScriptsGoneHolds == Spec => []ClearedScriptsGone
<1>1. ScriptsInv => ClearedScriptsGone
  BY DEF ScriptsInv, ClearInv
<1>2. QED
  BY <1>1, ScriptsInvariant, PTL

-----------------------------------------------------------------------------
(* Tab order.                                                              *)

LEMMA KeptDistinct ==
  ASSUME NEW s \in Seq(Pages), NEW T
  PROVE  IsInjective(Kept(s, T))
<1>1. \A k \in DOMAIN Kept(s, T) : \E i \in Firsts(s, T) :
          Kept(s, T)[k] = s[i] /\ k = At(s, T, i)
  BY KeptElements
<1>2. SUFFICES ASSUME NEW k \in DOMAIN Kept(s, T), NEW l \in DOMAIN Kept(s, T),
                      Kept(s, T)[k] = Kept(s, T)[l]
               PROVE  k = l
  BY DEF IsInjective
<1>3. PICK i \in Firsts(s, T) : Kept(s, T)[k] = s[i] /\ k = At(s, T, i)
  BY <1>1
<1>4. PICK j \in Firsts(s, T) : Kept(s, T)[l] = s[j] /\ l = At(s, T, j)
  BY <1>1
<1>5. s[i] = s[j]
  BY <1>2, <1>3, <1>4
<1>6. i = j
  BY <1>5, FirstsDiffer
<1>7. QED
  BY <1>3, <1>4, <1>6

LEMMA AppendDistinct ==
  ASSUME NEW s \in Seq(Pages), IsInjective(s), NEW p \in Pages, p \notin ToSet(s)
  PROVE  IsInjective(Append(s, p))
<1>1. /\ DOMAIN Append(s, p) = 1 .. Len(s) + 1 /\ Len(s) \in Nat /\ DOMAIN s = 1 .. Len(s)
      /\ Append(s, p)[Len(s) + 1] = p /\ \A i \in 1 .. Len(s) : Append(s, p)[i] = s[i]
  OBVIOUS
<1>2. \A i \in 1 .. Len(s) : s[i] # p
  BY <1>1 DEF ToSet
<1>3. \A i \in 1 .. Len(s) + 1 : i \in 1 .. Len(s) \/ i = Len(s) + 1
  BY <1>1
<1>4. QED
  BY <1>1, <1>2, <1>3 DEF IsInjective

LEMMA PrependDistinct ==
  ASSUME NEW s \in Seq(Pages), IsInjective(s), NEW p \in Pages, p \notin ToSet(s)
  PROVE  IsInjective(<<p>> \o s)
<1> DEFINE t == <<p>> \o s
<1>1. /\ DOMAIN t = 1 .. Len(s) + 1 /\ Len(s) \in Nat /\ DOMAIN s = 1 .. Len(s)
      /\ t[1] = p /\ \A i \in 1 .. Len(s) : t[i + 1] = s[i]
  OBVIOUS
<1>2. \A i \in 1 .. Len(s) : s[i] # p
  BY <1>1 DEF ToSet
<1> HIDE DEF t
<1>3. \A i \in 1 .. Len(s) + 1 : i = 1 \/ (i - 1 \in 1 .. Len(s) /\ t[i] = s[i - 1])
  <2>1. SUFFICES ASSUME NEW i \in 1 .. Len(s) + 1, i # 1 PROVE i - 1 \in 1 .. Len(s) /\ t[i] = s[i - 1]
    OBVIOUS
  <2>2. i - 1 \in 1 .. Len(s) /\ (i - 1) + 1 = i
    BY <1>1, <2>1
  <2>3. QED
    BY <1>1, <2>2
<1>4. IsInjective(t)
  <2>1. SUFFICES ASSUME NEW i \in 1 .. Len(s) + 1, NEW j \in 1 .. Len(s) + 1, t[i] = t[j] PROVE i = j
    BY <1>1 DEF IsInjective
  <2>2. CASE i = 1 \/ j = 1
    BY <1>1, <1>2, <1>3, <2>1, <2>2
  <2>3. CASE i # 1 /\ j # 1
    <3>1. i - 1 \in DOMAIN s /\ j - 1 \in DOMAIN s /\ s[i - 1] = s[j - 1]
      BY <1>1, <1>3, <2>1, <2>3
    <3>2. i - 1 = j - 1
      BY <3>1 DEF IsInjective
    <3>3. QED
      BY <1>1, <3>2
  <2>4. QED
    BY <2>2, <2>3
<1>5. QED
  BY <1>4 DEF t

LEMMA ConcatAt ==
  ASSUME NEW u \in Seq(Pages), NEW v \in Seq(Pages)
  PROVE  /\ Len(u \o v) = Len(u) + Len(v)
         /\ DOMAIN u = 1 .. Len(u) /\ Len(u) \in Nat /\ Len(v) \in Nat
         /\ \A i \in 1 .. Len(u) : (u \o v)[i] = u[i]
         /\ \A i \in 1 .. Len(u) + Len(v) : i > Len(u) =>
                (u \o v)[i] = v[i - Len(u)] /\ i - Len(u) \in 1 .. Len(v)
OBVIOUS

LEMMA IndexInFirst ==
  ASSUME NEW u \in Seq(Pages), NEW v \in Seq(Pages), NEW k \in DOMAIN u, NEW x,
         u[k] = x, x \notin ToSet(v), \A i \in DOMAIN u : u[i] = x => i = k
  PROVE  (CHOOSE i \in 1 .. Len(u \o v) : (u \o v)[i] = x) = k
<1> DEFINE o == u \o v
<1>1. /\ Len(o) = Len(u) + Len(v) /\ DOMAIN u = 1 .. Len(u) /\ Len(u) \in Nat /\ Len(v) \in Nat
      /\ \A i \in 1 .. Len(u) : o[i] = u[i]
      /\ \A i \in 1 .. Len(u) + Len(v) : i > Len(u) => o[i] = v[i - Len(u)] /\ i - Len(u) \in 1 .. Len(v)
  BY ConcatAt
<1>2. \A i \in 1 .. Len(v) : v[i] # x
  BY DEF ToSet
<1> HIDE DEF o
<1>3. k \in 1 .. Len(o) /\ o[k] = x
  BY <1>1
<1>4. ASSUME NEW i \in 1 .. Len(o), o[i] = x PROVE i = k
  <2>1. CASE i <= Len(u)
    BY <1>1, <1>4, <2>1
  <2>2. CASE i > Len(u)
    BY <1>1, <1>2, <1>4, <2>2
  <2>3. QED
    BY <1>1, <2>1, <2>2
<1>5. (CHOOSE i \in 1 .. Len(o) : o[i] = x) = k
  BY <1>3, <1>4
<1>6. QED
  BY <1>5 DEF o

(* Where a tracked tab stands: behind as many as come before it and are    *)
(* open.                                                                   *)
LEMMA IndexIs ==
  ASSUME NEW s \in Seq(Pages), NEW l \in Seq(Pages), NEW p \in ToSet(l),
         NEW j \in Firsts(s, ToSet(l)), s[j] = p
  PROVE  (CHOOSE i \in 1 .. Len(Kept(s, ToSet(l)) \o Kept(l, ToSet(l) \ ToSet(s))) :
              (Kept(s, ToSet(l)) \o Kept(l, ToSet(l) \ ToSet(s)))[i] = p)
         = At(s, ToSet(l), j)
<1> DEFINE u == Kept(s, ToSet(l))
           v == Kept(l, ToSet(l) \ ToSet(s))
           k == At(s, ToSet(l), j)
<1>1. /\ u \in Seq(Pages) /\ k \in DOMAIN u /\ u[k] = p
      /\ \A i \in DOMAIN u : \E m \in Firsts(s, ToSet(l)) : u[i] = s[m] /\ i = At(s, ToSet(l), m)
  BY KeptElements
<1>2. v \in Seq(Pages) /\ ToSet(v) = ToSet(l) \cap (ToSet(l) \ ToSet(s))
  BY KeptPages
<1>3. p \notin ToSet(v)
  BY <1>2 DEF ToSet, Firsts
<1>4. ASSUME NEW i \in DOMAIN u, u[i] = p PROVE i = k
  <2>1. PICK m \in Firsts(s, ToSet(l)) : u[i] = s[m] /\ i = At(s, ToSet(l), m)
    BY <1>1
  <2>2. m = j
    BY <1>4, <2>1, FirstsDiffer
  <2>3. QED
    BY <2>1, <2>2
<1> HIDE DEF u, v, k
<1>5. (CHOOSE i \in 1 .. Len(u \o v) : (u \o v)[i] = p) = k
  BY <1>1, <1>2, <1>3, <1>4, IndexInFirst
<1>6. QED
  BY <1>5 DEF u, v, k

(* If every open tab up to k in t is one up to j in s, the index shrinks.  *)
LEMMA IndexShrinks ==
  ASSUME NEW s \in Seq(Pages), NEW t \in Seq(Pages), NEW T, NEW U,
         NEW j \in DOMAIN s, NEW k \in DOMAIN t,
         \A i \in DOMAIN t : i <= k /\ t[i] \in U =>
             \E m \in DOMAIN s : m <= j /\ s[m] = t[i] /\ s[m] \in T
  PROVE  At(t, U, k) <= At(s, T, j)
<1> DEFINE A == {i \in Firsts(t, U) : i <= k}
           B == {i \in Firsts(s, T) : i <= j}
           f == [i \in A |-> CHOOSE m \in B : s[m] = t[i]]
<1>1. \A i \in A : i \in Firsts(t, U) /\ i \in DOMAIN t /\ i <= k /\ t[i] \in U
  BY DEF Firsts
<1>2. \A m \in Firsts(s, T) : m <= j => m \in B
  OBVIOUS
<1>3. IsFiniteSet(B)
  <2>1. IsFiniteSet(DOMAIN s)
    BY UpTo
  <2>2. B \subseteq DOMAIN s
    BY DEF Firsts
  <2>3. QED
    BY <2>1, <2>2, FS_Subset
<1>4. At(t, U, k) = Cardinality(A) /\ At(s, T, j) = Cardinality(B)
  BY DEF At
<1> HIDE DEF A, B
<1>5. ASSUME NEW i \in A PROVE \E m \in B : s[m] = t[i]
  <2>1. PICK m \in DOMAIN s : m <= j /\ s[m] = t[i] /\ s[m] \in T
    BY <1>1
  <2>2. PICK x \in Firsts(s, T) : x <= m /\ s[x] = s[m]
    BY <2>1, Earliest
  <2>3. x \in Nat /\ m \in Nat /\ j \in Nat
    BY DEF Firsts
  <2>4. x <= j
    BY <2>1, <2>2, <2>3
  <2>5. QED
    BY <1>2, <2>1, <2>2, <2>4
<1>6. \A i \in A : f[i] \in B /\ s[f[i]] = t[i]
  BY <1>5
<1>7. f \in [A -> B]
  BY <1>6
<1> HIDE DEF f
<1>8. ASSUME NEW i \in A, NEW l \in A, f[i] = f[l] PROVE i = l
  <2>1. t[i] = t[l]
    BY <1>6, <1>8
  <2>2. QED
    BY <1>1, <2>1, FirstsDiffer
<1>9. f \in Injection(A, B)
  BY <1>7, <1>8 DEF Injection, IsInjective
<1>10. QED
  BY <1>3, <1>4, <1>9, FS_Injection

(* What comes before an entry after a write came before it already, if it  *)
(* is not that entry the write removes.                                    *)
Keeps(s, j, t) ==
    \E k \in DOMAIN t :
        /\ t[k] = s[j]
        /\ \A i \in DOMAIN t : i <= k => \E m \in DOMAIN s : m <= j /\ s[m] = t[i]

LEMMA Removing ==
  ASSUME NEW s \in Seq(Pages), NEW j \in DOMAIN s, NEW r \in DOMAIN s, j # r,
         NEW t, t = Without(s, r) \/ t = MovedDown(s, r)
  PROVE  Keeps(s, j, t)
<1> DEFINE n == Len(s)
           k == IF j < r THEN j ELSE j - 1
<1>1. n \in Nat /\ DOMAIN s = 1 .. n /\ j \in 1 .. n /\ r \in 1 .. n
  OBVIOUS
<1>2. /\ DOMAIN t = 1 .. n - 1 \/ DOMAIN t = 1 .. n
      /\ \A i \in DOMAIN t : i < r => t[i] = s[i]
      /\ \A i \in 1 .. n - 1 : ~(i < r) => t[i] = s[i + 1]
  <2>1. CASE t = Without(s, r)
    <3>1. DOMAIN t = 1 .. n - 1 /\ \A i \in 1 .. n - 1 : t[i] = IF i < r THEN s[i] ELSE s[i + 1]
      BY <2>1 DEF Without
    <3>2. QED
      BY <3>1
  <2>2. CASE t = MovedDown(s, r)
    <3>1. /\ DOMAIN t = 1 .. n
          /\ \A i \in 1 .. n : t[i] = IF i < r \/ i = n THEN s[i] ELSE s[i + 1]
      BY <2>2 DEF MovedDown
    <3>2. \A i \in 1 .. n - 1 : i \in 1 .. n /\ i # n
      BY <1>1, LastOrBefore
    <3>3. QED
      BY <3>1, <3>2
  <2>3. QED
    BY <2>1, <2>2
<1> HIDE DEF n
<1>3. k \in 1 .. n - 1 /\ k <= j
  BY <1>1
<1>4. \A i \in 1 .. n - 1 : i \in DOMAIN t
  BY <1>1, <1>2
<1>5. t[k] = s[j]
  <2>1. CASE j < r
    BY <1>2, <1>3, <1>4, <2>1
  <2>2. CASE ~(j < r)
    <3>1. k = j - 1 /\ ~(k < r) /\ k + 1 = j
      BY <1>1, <2>2
    <3>2. QED
      BY <1>2, <1>3, <3>1
  <2>3. QED
    BY <2>1, <2>2
<1>6. ASSUME NEW i \in DOMAIN t, i <= k PROVE \E m \in DOMAIN s : m <= j /\ s[m] = t[i]
  <2>1. i \in 1 .. n - 1 /\ i \in 1 .. n /\ i <= j
    BY <1>1, <1>2, <1>3, <1>6
  <2>2. CASE i < r
    BY <1>1, <1>2, <2>1, <2>2
  <2>3. CASE ~(i < r)
    <3>1. ~(j < r)
      BY <1>1, <1>6, <2>1, <2>3
    <3>2. i + 1 <= j /\ i + 1 \in 1 .. n
      BY <1>1, <1>6, <2>1, <3>1
    <3>3. QED
      BY <1>1, <1>2, <2>1, <2>3, <3>2
  <2>4. QED
    BY <2>2, <2>3
<1> HIDE DEF k
<1>7. QED
  BY <1>3, <1>4, <1>5, <1>6 DEF Keeps

LEMMA Appending ==
  ASSUME NEW s \in Seq(Pages), NEW j \in DOMAIN s, NEW q \in Pages, NEW t, t = s \/ t = Append(s, q)
  PROVE  Keeps(s, j, t)
<1>1. DOMAIN s = 1 .. Len(s) /\ Len(s) \in Nat /\ j \in 1 .. Len(s)
  OBVIOUS
<1>2. /\ DOMAIN t = 1 .. Len(s) \/ DOMAIN t = 1 .. Len(s) + 1
      /\ \A i \in 1 .. Len(s) : t[i] = s[i]
  OBVIOUS
<1>3. j \in DOMAIN t /\ t[j] = s[j]
  BY <1>1, <1>2
<1>4. ASSUME NEW i \in DOMAIN t, i <= j PROVE i \in DOMAIN s /\ s[i] = t[i]
  BY <1>1, <1>2, <1>4
<1>5. QED
  BY <1>3, <1>4 DEF Keeps

-----------------------------------------------------------------------------
OrderInv == IsInjective(live) /\ ClosingAlone

LEMMA StepLive ==
  ASSUME Shape, Base, IsInjective(live), [Next]_vars
  PROVE  IsInjective(live')
<1>1. live' = live \/ (\E d : Open(d)) \/ \E S : Close(S)
  BY StepsPlain DEF PlainStep, PlainPages, ScriptStep, TrackAppend, ApplyRegister, AddRegister,
     AddFinish, AddStart, ClearAll, ClearTab, tabVars
<1>2. live \in Seq(Pages)
  BY DEF Shape, PageTypes
<1>3. CASE \E d : Open(d)
  <2>1. PICK d : Open(d)
    BY <1>3
  <2>2. NewPage \in Pages
    BY <2>1, NewPageTyped
  <2>3. NewPage \notin ToSet(live)
    BY Known DEF NewPage
  <2>4. live' \in {<<NewPage>> \o live, Append(live, NewPage)}
    BY <2>1 DEF Open
  <2>5. QED
    BY <1>2, <2>2, <2>3, <2>4, AppendDistinct, PrependDistinct
<1>4. CASE \E S : Close(S)
  BY <1>2, <1>4, KeptDistinct DEF Close
<1>5. QED
  BY <1>1, <1>3, <1>4

(* Which steps write the order.                                            *)
LEMMA StepOrder ==
  ASSUME [Next]_vars
  PROVE  \/ pageOrder' = pageOrder
         \/ \E h \in Handlers : Resets(h) \/ TrackAppend(h) \/ UntrackRemove(h)
<1>1. ASSUME NEW h \in Handlers, Request(h) PROVE pageOrder' = pageOrder \/ Resets(h)
  <2>1. ASSUME NEW fg, NEW activate, TabNew(h, fg, activate) PROVE pageOrder' = pageOrder
    BY <2>1 DEF TabNew
  <2>2. ASSUME NEW p, TabCloseStart(h, p) \/ TabSwitch(h, p) PROVE pageOrder' = pageOrder
    BY <2>2 DEF TabCloseStart, TabSwitch, tabVars
  <2>3. ASSUME NEW on, ContextCreate(h) \/ ContextSwitch(h, on) PROVE pageOrder' = pageOrder
    BY <2>3 DEF ContextCreate, ContextSwitch
  <2>4. CASE SessionSave(h) \/ SessionDelete(h) \/ SessionNewOpen(h)
    BY <2>4 DEF SessionSave, SessionDelete, SessionNewOpen, tabVars
  <2>5. ASSUME NEW a, ClearAll(h) \/ AddStart(h, a) \/ ClearTab(h, a) PROVE pageOrder' = pageOrder
    BY <2>5 DEF ClearAll, AddStart, ClearTab, tabVars
  <2>6. QED
    BY <1>1, <2>1, <2>2, <2>3, <2>4, <2>5 DEF Request, NavigateOpens, Resets
<1>2. ASSUME NEW h \in Handlers, HandlerStep(h)
      PROVE  pageOrder' = pageOrder \/ Resets(h) \/ TrackAppend(h) \/ UntrackRemove(h)
  <2>1. TrackLookup(h) \/ ApplyCopy(h) \/ ApplyRegister(h) \/ ApplyDone(h) => pageOrder' = pageOrder
    BY DEF TrackLookup, ApplyCopy, ApplyRegister, ApplyDone, tabVars
  <2>2. UntrackLookup(h) \/ TabCloseClose(h) \/ TabCloseForget(h) \/ SavePage(h) \/ SaveWrite(h)
          => pageOrder' = pageOrder
    BY DEF UntrackLookup, TabCloseClose, TabCloseForget, SavePage, SaveWrite, tabVars
  <2>3. SessionNewClose(h) \/ SessionNewActive(h) \/ ResumeOpen(h) \/ ResumeOpened(h) \/ ResumeClose(h)
          => pageOrder' = pageOrder
    BY DEF SessionNewClose, SessionNewActive, ResumeOpen, ResumeOpened, ResumeClose
  <2>4. AddRegister(h) \/ AddFinish(h) => pageOrder' = pageOrder
    BY DEF AddRegister, AddFinish, tabVars
  <2>5. QED
    BY <1>2, <2>1, <2>2, <2>3, <2>4 DEF HandlerStep, Resets
<1>3. CASE Popup \/ \E p \in ToSet(live) : UserCloses(p)
  BY <1>3 DEF Popup, UserCloses
<1>4. CASE UNCHANGED vars
  BY <1>4 DEF vars
<1>5. QED
  BY <1>1, <1>2, <1>3, <1>4 DEF Next

(* A handler under way steps alone, and only by its lookup to a removal.   *)
LEMMA HandlerStepDoes ==
  ASSUME Shape, Base, NEW h \in Handlers, HandlerStep(h)
  PROVE  /\ at[h].step # "idle" /\ \A g \in Handlers \ {h} : at'[g] = at[g]
         /\ UntrackLookup(h) \/ at'[h].step \notin {"untrack", "remove"}
<1>1. at[h] \in Locals /\ at[h].then \in {"end", "setActive", "opened"}
  BY DEF Shape, Locals, Fields
<1>2. ASSUME NEW l, Goto(h, l), "step" \in DOMAIN l, l.step \notin {"untrack", "remove"}
      PROVE  (\A g \in Handlers \ {h} : at'[g] = at[g]) /\ at'[h].step \notin {"untrack", "remove"}
  <2>1. at'[h] = With(at[h], l) /\ \A g \in Handlers \ {h} : at'[g] = at[g]
    BY <1>2, GotoGives
  <2>2. at'[h].step = l.step
    BY <1>1, <1>2, <2>1, WithFields
  <2>3. QED
    BY <1>2, <2>1, <2>2
<1>3. End(h) => (\A g \in Handlers \ {h} : at'[g] = at[g]) /\ at'[h].step \notin {"untrack", "remove"}
  BY EndGives, IdleFields
<1>4. After(h) => (\A g \in Handlers \ {h} : at'[g] = at[g]) /\ at'[h].step \notin {"untrack", "remove"}
  <2>1. CASE at[h].then = "end"
    BY <1>3, <2>1 DEF After
  <2>2. CASE at[h].then # "end"
    <3> DEFINE l == [step |-> at[h].then]
    <3>1. DOMAIN l = {"step"} /\ l.step = at[h].then
      OBVIOUS
    <3>2. After(h) => Goto(h, l)
      BY <2>2 DEF After
    <3> HIDE DEF l
    <3>3. QED
      BY <1>1, <1>2, <3>1, <3>2
  <2>3. QED
    BY <2>1, <2>2
<1>5. CASE TrackLookup(h) \/ ApplyDone(h)
  <2> DEFINE l == [step |-> "append", page |-> IF at[h].fg THEN activePg ELSE at[h].page]
  <2>1. "step" \in DOMAIN l /\ l.step = "append"
    OBVIOUS
  <2>2. at[h].step # "idle" /\ (End(h) \/ After(h) \/ Goto(h, l))
    BY <1>5 DEF TrackLookup, ApplyDone
  <2> HIDE DEF l
  <2>3. QED
    BY <1>2, <1>3, <1>4, <2>1, <2>2
<1>6. CASE TrackAppend(h) \/ ApplyCopy(h)
  <2> DEFINE l == [step |-> "copy"]
             m == [step |-> "register", todo |-> global]
  <2>1. "step" \in DOMAIN l /\ l.step = "copy" /\ "step" \in DOMAIN m /\ m.step = "register"
    OBVIOUS
  <2>2. at[h].step # "idle" /\ (Goto(h, l) \/ Goto(h, m))
    BY <1>6 DEF TrackAppend, ApplyCopy
  <2> HIDE DEF l, m
  <2>3. QED
    BY <1>2, <2>1, <2>2
<1>7. CASE ApplyRegister(h) \/ AddRegister(h)
  BY <1>7, ApplyRegisterDoes, AddRegisterDoes, IdleFields
<1>8. CASE UntrackLookup(h)
  <2>1. at[h].step = "untrack" /\ \E l : Goto(h, l)
    BY <1>8 DEF UntrackLookup
  <2>2. QED
    BY <1>8, <2>1, GotoGives
<1>9. CASE UntrackRemove(h) \/ TabCloseClose(h)
  <2> DEFINE l == [step |-> "close", n |-> 0]
             m == [step |-> "forget"]
  <2>1. "step" \in DOMAIN l /\ l.step = "close" /\ "step" \in DOMAIN m /\ m.step = "forget"
    OBVIOUS
  <2>2. at[h].step # "idle" /\ (End(h) \/ Goto(h, l) \/ Goto(h, m))
    BY <1>9 DEF UntrackRemove, TabCloseClose
  <2> HIDE DEF l, m
  <2>3. QED
    BY <1>2, <1>3, <2>1, <2>2
<1>10. CASE TabCloseForget(h) \/ SaveWrite(h) \/ SessionNewActive(h) \/ ResumeClose(h) \/ AddFinish(h)
  <2>1. at[h].step # "idle" /\ End(h)
    BY <1>10 DEF TabCloseForget, SaveWrite, SessionNewActive, ResumeClose, AddFinish
  <2>2. QED
    BY <1>3, <2>1
<1>11. CASE SavePage(h)
  <2>1. /\ at[h].step = "save" /\ \A g \in Handlers \ {h} : at'[g] = at[g]
        /\ at'[h] = Idle \/ at'[h].step = "save"
    BY <1>11, SavePageDoes
  <2>2. QED
    BY <2>1, IdleFields
<1>12. CASE SessionNewClose(h) \/ SessionNewReset(h) \/ ResumeOpened(h)
  <2>1. /\ at[h].step # "idle"
        /\ Goto(h, [step |-> "reset"]) \/ Goto(h, [step |-> "track"]) \/ Goto(h, [step |-> "nextTab"])
    BY <1>12 DEF SessionNewClose, SessionNewReset, ResumeOpened
  <2>2. ASSUME NEW s, s \notin {"untrack", "remove"}, Goto(h, [step |-> s])
        PROVE  (\A g \in Handlers \ {h} : at'[g] = at[g]) /\ at'[h].step \notin {"untrack", "remove"}
    <3> DEFINE l == [step |-> s]
    <3>1. DOMAIN l = {"step"} /\ l.step = s /\ Goto(h, l)
      BY <2>2
    <3> HIDE DEF l
    <3>2. QED
      BY <1>2, <2>2, <3>1
  <2>3. QED
    BY <2>1, <2>2
<1>13. CASE ResumeOpen(h)
  <2> DEFINE l == [step |-> "track", page |-> NewPage, n |-> at[h].n + 1]
  <2>1. "step" \in DOMAIN l /\ l.step = "track"
    OBVIOUS
  <2>2. at[h].step # "idle" /\ Goto(h, l)
    BY <1>13 DEF ResumeOpen
  <2> HIDE DEF l
  <2>3. QED
    BY <1>2, <2>1, <2>2
<1>14. QED
  BY <1>5, <1>6, <1>7, <1>8, <1>9, <1>10, <1>11, <1>12, <1>13 DEF HandlerStep

LEMMA StartedAlone ==
  ASSUME Shape, NEW h \in Handlers, NEW l, Start(h, l),
         "alone" \notin DOMAIN l
  PROVE  \A g \in Handlers : at'[g].alone = FALSE
<1>1. at'[h] = With(Idle, l) /\ \A g \in Handlers \ {h} : at'[g].alone = FALSE
  BY StartGives
<1>2. With(Idle, l).alone = Idle.alone
  BY IdleLocal, WithFields
<1>3. QED
  BY <1>1, <1>2, IdleFields

(* What a request says of the handlers' being alone.                       *)
LEMMA RequestAlone ==
  ASSUME Shape, Base, NEW h \in Handlers, Request(h)
  PROVE  /\ \A g \in Handlers \ {h} : at'[g].alone = FALSE
         /\ \/ at'[h].alone = FALSE \/ ResumeStart(h)
            \/ \E p \in ToSet(live) : TabCloseStart(h, p)
<1>1. ASSUME NEW l, Start(h, l), "alone" \notin DOMAIN l
      PROVE  \A g \in Handlers : at'[g].alone = FALSE
  BY <1>1, StartedAlone
<1>2. ASSUME NEW fg, NEW activate, TabNew(h, fg, activate) PROVE \A g \in Handlers : at'[g].alone = FALSE
  <2> DEFINE l == [step |-> "track", page |-> NewPage, fg |-> fg, then |-> "end"]
  <2>1. Start(h, l) /\ "alone" \notin DOMAIN l
    BY <1>2 DEF TabNew
  <2> HIDE DEF l
  <2>2. QED
    BY <1>1, <2>1
<1>3. ASSUME NEW a, NEW p, NEW on,
             \/ TabSwitch(h, p) \/ ContextCreate(h) \/ ContextSwitch(h, on) \/ SessionDelete(h)
             \/ ClearAll(h) \/ ClearTab(h, a)
      PROVE  \A g \in Handlers : at'[g].alone = FALSE
  <2>1. Serve(h)
    BY <1>3 DEF TabSwitch, ContextCreate, ContextSwitch, SessionDelete, ClearAll, ClearTab
  <2>2. QED
    BY <2>1, ServeDoes
<1>4. CASE SessionSave(h)
  BY <1>4, SessionSaveDoes
<1>5. CASE SessionNewOpen(h)
  <2> DEFINE l == [step |-> "closeOthers", page |-> NewPage, fg |-> FALSE, then |-> "setActive"]
  <2>1. Start(h, l) /\ "alone" \notin DOMAIN l
    BY <1>5 DEF SessionNewOpen
  <2> HIDE DEF l
  <2>2. QED
    BY <1>1, <2>1
<1>6. CASE ResumeStart(h)
  BY <1>6, ResumeStartDoes
<1>7. ASSUME NEW p \in ToSet(live), TabCloseStart(h, p)
      PROVE  \A g \in Handlers \ {h} : at'[g].alone = FALSE
  BY <1>7, StartGives DEF TabCloseStart
<1>8. ASSUME NEW a \in Aliases, AddStart(h, a) PROVE \A g \in Handlers : at'[g].alone = FALSE
  <2> DEFINE l == [step |-> "add", script |-> added + 1, every |-> resolveTabAlias(a) < 0,
                   pages |-> pagesForFilter(resolveTabAlias(a)), n |-> 0, got |-> {}]
  <2>1. Start(h, l) /\ "alone" \notin DOMAIN l
    BY <1>8 DEF AddStart
  <2> HIDE DEF l
  <2>2. QED
    BY <1>1, <2>1
<1>9. QED
  BY <1>2, <1>3, <1>4, <1>5, <1>6, <1>7, <1>8 DEF Request, NavigateOpens

LEMMA StepClosing ==
  ASSUME Shape, Base, ClosingAlone, [Next]_vars
  PROVE  ClosingAlone'
<1>1. SUFFICES ASSUME NEW h \in Handlers, at'[h].step \in {"untrack", "remove"}, at'[h].alone
               PROVE  /\ \A g \in Handlers : g # h => at'[g].step = "idle"
                      /\ at'[h].step = "remove" =>
                            at'[h].n \in DOMAIN pageOrder' /\ pageOrder'[at'[h].n] = at'[h].page
  BY DEF ClosingAlone
<1>2. ASSUME NEW k \in Handlers, Request(k)
      PROVE  (\A g \in Handlers : g # h => at'[g].step = "idle") /\ at'[h].step # "remove"
  <2>1. at'[h].alone # FALSE
    BY <1>1, Zenon
  <2>2. k = h /\ (ResumeStart(k) \/ \E p \in ToSet(live) : TabCloseStart(k, p))
    BY <1>2, <2>1, RequestAlone
  <2>3. ~ResumeStart(k)
    BY <1>1, <2>2, ResumeStartDoes
  <2>4. PICK p \in ToSet(live) : TabCloseStart(h, p)
    BY <2>2, <2>3
  <2> DEFINE l == [step |-> "untrack", page |-> p, alone |-> Quiet]
  <2>5. Start(h, l) /\ DOMAIN l = {"step", "page", "alone"} /\ l.step = "untrack" /\ l.alone = Quiet
    BY <2>4 DEF TabCloseStart
  <2> HIDE DEF l
  <2>6. at'[h] = With(Idle, l) /\ OthersSame(h)
    BY <2>5, StartGives
  <2>7. at'[h].step = "untrack" /\ at'[h].alone = Quiet
    BY <2>5, <2>6, IdleLocal, WithFields
  <2>8. Quiet
    BY <1>1, <2>7
  <2>9. QED
    BY <2>6, <2>7, <2>8 DEF Quiet, Busy, OthersSame, Same
<1>3. ASSUME NEW k \in Handlers, HandlerStep(k)
      PROVE  /\ \A g \in Handlers : g # h => at'[g].step = "idle"
             /\ at'[h].step = "remove" =>
                   at'[h].n \in DOMAIN pageOrder' /\ pageOrder'[at'[h].n] = at'[h].page
  <2>1. /\ at[k].step # "idle" /\ \A g \in Handlers \ {k} : at'[g] = at[g]
        /\ UntrackLookup(k) \/ at'[k].step \notin {"untrack", "remove"}
    BY <1>3, HandlerStepDoes
  <2>2. k = h
    <3>1. SUFFICES ASSUME k # h PROVE FALSE
      OBVIOUS
    <3>2. at[h] = at'[h]
      BY <2>1, <3>1
    <3>3. at[h].step \in {"untrack", "remove"} /\ at[h].alone
      BY <1>1, <3>2
    <3>4. at[k].step = "idle"
      BY <3>1, <3>3 DEF ClosingAlone
    <3>5. QED
      BY <2>1, <3>4
  <2>3. UntrackLookup(h)
    BY <1>1, <2>1, <2>2
  <2>4. at[h].step = "untrack" /\ pageOrder' = pageOrder /\ at[h] \in Locals
    BY <2>3 DEF UntrackLookup, tabVars, Shape
  <2>5. \/ Goto(h, [step |-> "close"])
        \/ \E i \in First(pageOrder, at[h].page) : Goto(h, [step |-> "remove", n |-> i])
    BY <2>3 DEF UntrackLookup
  <2>6. ASSUME Goto(h, [step |-> "close"]) PROVE FALSE
    <3> DEFINE l == [step |-> "close"]
    <3>1. DOMAIN l = {"step"} /\ l.step = "close" /\ Goto(h, l)
      BY <2>6
    <3> HIDE DEF l
    <3>2. at'[h].step = "close"
      BY <2>4, <3>1, GotoGives, WithFields
    <3>3. QED
      BY <1>1, <3>2
  <2>7. PICK i \in First(pageOrder, at[h].page) : Goto(h, [step |-> "remove", n |-> i])
    BY <2>5, <2>6
  <2> DEFINE l == [step |-> "remove", n |-> i]
  <2>8. DOMAIN l = {"step", "n"} /\ l.step = "remove" /\ l.n = i /\ Goto(h, l)
    BY <2>7
  <2> HIDE DEF l
  <2>9. at'[h] = With(at[h], l)
    BY <2>8, GotoGives
  <2>10. at'[h].n = i /\ at'[h].page = at[h].page /\ at'[h].alone = at[h].alone
    BY <2>4, <2>8, <2>9, WithFields
  <2>11. at[h].alone
    BY <1>1, <2>10
  <2>12. \A g \in Handlers : g # h => at[g].step = "idle"
    BY <2>4, <2>11 DEF ClosingAlone
  <2>13. i \in DOMAIN pageOrder /\ pageOrder[i] = at[h].page
    BY DEF First, Positions
  <2>14. QED
    BY <2>1, <2>2, <2>4, <2>10, <2>12, <2>13
<1>4. CASE Popup \/ \E p \in ToSet(live) : UserCloses(p)
  <2>1. \A g \in Handlers : at'[g].alone = FALSE
    BY <1>4, OutsideDoes DEF Popup, UserCloses
  <2>2. QED
    BY <1>1, <2>1, Zenon
<1>5. CASE UNCHANGED vars
  <2>1. at' = at /\ pageOrder' = pageOrder
    BY <1>5 DEF vars
  <2>2. QED
    BY <1>1, <2>1 DEF ClosingAlone
<1>6. QED
  BY <1>2, <1>3, <1>4, <1>5 DEF Next

TabsInv == ScriptsInv /\ OrderInv

LEMMA TabsInvariant == Spec => []TabsInv
<1>1. Init => OrderInv
  <2>1. Init => live = <<1>> /\ \A h \in Handlers : at[h] = Idle
    BY DEF Init
  <2>2. IsInjective(<<1>>)
    BY DEF IsInjective
  <2>3. QED
    BY <2>1, <2>2, IdleFields DEF OrderInv, ClosingAlone
<1>2. ScriptsInv /\ OrderInv /\ [Next]_vars => OrderInv'
  BY StepLive, StepClosing DEF ScriptsInv, OrderInv
<1>3. QED
  BY <1>1, <1>2, InitScripts, StepScripts, PTL DEF Spec, TabsInv

(* The pages, scripts and counts of a state are what they are taken for,   *)
(* and the browser lists a page once.                                      *)
THEOREM TypeCorrect == Spec => []TypeOK
<1>1. TabsInv => TypeOK
  <2> SUFFICES ASSUME TabsInv PROVE TypeOK
    OBVIOUS
  <2>1. Shape /\ Base /\ IsInjective(live)
    BY DEF TabsInv, ScriptsInv, OrderInv
  <2>2. /\ ToSet(live) \subseteq 1 .. opened /\ opened <= MaxPages
        /\ ToSet(pageOrder) \subseteq Pages /\ doc \in [Pages -> 0 .. MaxPages]
    <3>1. doc \in [Pages -> Pages] /\ pageOrder \in Seq(Pages) /\ opened \in 1 .. MaxPages
      BY <2>1 DEF Shape, PageTypes
    <3>2. QED
      BY <2>1, <3>1, Known, ToSetFacts, PageNumbers, Bounds
  <2>3. activePg \in 0 .. MaxPages /\ ctx \in [page : 0 .. MaxPages, on : BOOLEAN] /\ ops \in 0 .. MaxOps
    BY <2>1 DEF Shape, PageTypes
  <2>4. /\ global \subseteq Scripts /\ perTab \subseteq Pages \X Scripts
        /\ ids \subseteq Scripts \X Pages \X Nat /\ reg \subseteq Scripts \X Pages \X Nat
        /\ added \in 0 .. MaxScripts /\ mu \in Handlers \cup {"free"}
    BY <2>1 DEF Shape, ScriptTypes, Regs
  <2>5. QED
    BY <2>1, <2>2, <2>3, <2>4 DEF TypeOK
<1>2. QED
  BY <1>1, TabsInvariant, PTL

(* A tab whose entry is not removed keeps one, behind what stood before it *)
(* already.                                                                *)
LEMMA OrderKeeps ==
  ASSUME Shape, ClosingAlone, [Next]_vars, NEW p \in Pages, NEW j \in DOMAIN pageOrder, pageOrder[j] = p,
         ~\E h \in Handlers : Resets(h) \/ Removes(h, p)
  PROVE  Keeps(pageOrder, j, pageOrder')
<1>1. pageOrder \in Seq(Pages)
  BY DEF Shape, PageTypes
<1>2. CASE pageOrder' = pageOrder
  BY <1>1, <1>2, Appending
<1>3. ASSUME NEW h \in Handlers, TrackAppend(h)
      PROVE  Keeps(pageOrder, j, pageOrder')
  <2>1. at[h].page \in Pages
    <3>1. at[h] \in Locals /\ at[h].step = "append"
      BY <1>3 DEF Shape, TrackAppend
    <3>2. QED
      BY <3>1, Bounds DEF Locals, Fields, Pages
  <2>2. pageOrder' = pageOrder \/ pageOrder' = Append(pageOrder, at[h].page)
    BY <1>3 DEF TrackAppend, Appended
  <2>3. QED
    BY <1>1, <2>1, <2>2, Appending
<1>4. ASSUME NEW h \in Handlers, UntrackRemove(h), pageOrder' # pageOrder
      PROVE  Keeps(pageOrder, j, pageOrder')
  <2>1. at[h].step = "remove" /\ at[h].n \in DOMAIN pageOrder
    BY <1>4 DEF UntrackRemove
  <2>2. pageOrder' = Without(pageOrder, at[h].n) \/ pageOrder' = MovedDown(pageOrder, at[h].n)
    BY <1>4 DEF UntrackRemove, Removed
  <2>3. at[h].alone => pageOrder[at[h].n] = at[h].page
    BY <2>1 DEF ClosingAlone
  <2>4. pageOrder[at[h].n] # p
    <3>1. SUFFICES ASSUME pageOrder[at[h].n] = p PROVE Removes(h, p)
      OBVIOUS
    <3>2. at[h].page = p \/ ~at[h].alone
      BY <2>3, <3>1
    <3>3. QED
      BY <1>4, <2>1, <3>1, <3>2 DEF Removes
  <2>5. QED
    BY <1>1, <2>1, <2>2, <2>4, Removing
<1>5. QED
  BY <1>2, <1>3, <1>4, StepOrder

LEMMA IndexStep ==
  ASSUME Shape, Shape', Base, ClosingAlone, [Next]_vars,
         NEW p \in Pages, p \in ToSet(pageOrder), p \in ToSet(live), p \in ToSet(live'),
         ~\E h \in Handlers : Resets(h) \/ Removes(h, p)
  PROVE  p \in ToSet(pageOrder') /\ Index(p)' <= Index(p)
<1>1. /\ pageOrder \in Seq(Pages) /\ pageOrder' \in Seq(Pages)
      /\ live \in Seq(Pages) /\ live' \in Seq(Pages)
  BY DEF Shape, PageTypes
<1>2. PICK j \in Firsts(pageOrder, ToSet(live)) : pageOrder[j] = p
  <2>1. PICK i \in DOMAIN pageOrder : pageOrder[i] = p
    BY DEF ToSet
  <2>2. QED
    BY <1>1, <2>1, Earliest
<1>3. j \in DOMAIN pageOrder
  BY DEF Firsts
<1>4. PICK x \in DOMAIN pageOrder' :
          /\ pageOrder'[x] = p
          /\ \A i \in DOMAIN pageOrder' : i <= x =>
                \E m \in DOMAIN pageOrder : m <= j /\ pageOrder[m] = pageOrder'[i]
  <2>1. Keeps(pageOrder, j, pageOrder')
    BY <1>2, <1>3, OrderKeeps
  <2>2. QED
    BY <1>2, <2>1 DEF Keeps
<1>5. PICK k \in Firsts(pageOrder', ToSet(live')) : k <= x /\ pageOrder'[k] = p
  BY <1>1, <1>4, Earliest
<1>6. k \in DOMAIN pageOrder' /\ k \in Nat /\ x \in Nat
  BY <1>1, <1>4 DEF Firsts
<1>7. Index(p) = At(pageOrder, ToSet(live), j)
  <2>1. (CHOOSE i \in 1 .. Len(orderedPages) : orderedPages[i] = p) = At(pageOrder, ToSet(live), j)
    BY <1>1, <1>2, IndexIs DEF orderedPages
  <2>2. QED
    BY <2>1 DEF Index
<1>8. Index(p)' = At(pageOrder', ToSet(live'), k)
  <2>1. (CHOOSE i \in 1 .. Len(orderedPages') : orderedPages'[i] = p) = At(pageOrder', ToSet(live'), k)
    BY <1>1, <1>5, IndexIs DEF orderedPages
  <2>2. QED
    BY <2>1 DEF Index
<1>9. ToSet(pageOrder) \cap ToSet(live') \subseteq ToSet(live)
  <2>1. ToSet(live') \subseteq ToSet(live) \cup (opened + 1 .. opened')
    BY StepsPlain DEF PlainStep, PlainPages, ScriptStep, TrackAppend, ApplyRegister, AddRegister,
       AddFinish, AddStart, ClearAll, ClearTab, tabVars
  <2>2. QED
    BY <2>1, Known
<1>10. ASSUME NEW i \in DOMAIN pageOrder', i <= k, pageOrder'[i] \in ToSet(live')
       PROVE  \E m \in DOMAIN pageOrder : m <= j /\ pageOrder[m] = pageOrder'[i] /\ pageOrder[m] \in ToSet(live)
  <2>1. i \in Nat
    BY <1>1
  <2>2. i <= x
    BY <1>5, <1>6, <1>10, <2>1
  <2>3. PICK m \in DOMAIN pageOrder : m <= j /\ pageOrder[m] = pageOrder'[i]
    BY <1>4, <2>2
  <2>4. pageOrder[m] \in ToSet(pageOrder)
    BY DEF ToSet
  <2>5. QED
    BY <1>9, <1>10, <2>3, <2>4
<1>11. At(pageOrder', ToSet(live'), k) <= At(pageOrder, ToSet(live), j)
  BY <1>1, <1>3, <1>6, <1>10, IndexShrinks
<1>12. p \in ToSet(pageOrder')
  BY <1>4 DEF ToSet
<1>13. QED
  BY <1>7, <1>8, <1>11, <1>12

(* Whatever the handlers that share the order do to it at once, the index  *)
(* of a tracked tab grows, or its place is lost, only when a session resets *)
(* the order or the tab's own entry is removed (page_management.go:137,    *)
(* tabscope.go:13-15).                                                     *)
THEOREM TabIndexStableHolds == Spec => TabIndexStable
<1>1. TabsInv /\ TabsInv' /\ [Next]_vars =>
        [\A p \in Pages : Stays(p) /\ IsLive(p)' =>
            \/ Stays(p)' /\ Index(p)' <= Index(p)
            \/ \E h \in Handlers : Resets(h) \/ Removes(h, p)]_vars
  <2>1. SUFFICES ASSUME TabsInv, TabsInv', [Next]_vars, NEW p \in Pages, Stays(p), IsLive(p)',
                        ~\E h \in Handlers : Resets(h) \/ Removes(h, p)
                 PROVE  Stays(p)' /\ Index(p)' <= Index(p)
    OBVIOUS
  <2>2. Shape /\ Base /\ ClosingAlone /\ Shape'
    BY <2>1 DEF TabsInv, ScriptsInv, OrderInv
  <2>3. p \in ToSet(pageOrder) /\ p \in ToSet(live) /\ p \in ToSet(live')
    BY <2>1 DEF Stays, IsLive
  <2>4. p \in ToSet(pageOrder') /\ Index(p)' <= Index(p)
    BY <2>1, <2>2, <2>3, IndexStep
  <2>5. QED
    BY <2>3, <2>4 DEF Stays, IsLive
<1>2. QED
  BY <1>1, TabsInvariant, PTL DEF Spec, TabIndexStable

-----------------------------------------------------------------------------
(* Resuming a session.                                                     *)

(* A handler that steps on while the others stand still.                   *)
LEMMA ResumesOn ==
  ASSUME ResumeInv, NEW h \in Handlers, at[h].step # "idle", saved' = saved \/ Names(saved'),
         \A g \in Handlers \ {h} : at'[g] = at[g],
         Unhindered(h)' => Restored(h)',
         at'[h].step \in {"closeOthers", "reset"} => at'[h].then # "opened",
         at'[h].step = "save" => Names(at'[h].file)
  PROVE  ResumeInv'
<1>1. ASSUME NEW g \in Handlers \ {h} PROVE ~Unhindered(g)'
  <2>1. Unhindered(g)' => Unhindered(g)
    BY Zenon DEF Unhindered, Resuming
  <2>2. Unhindered(g) => at[h].step = "idle"
    BY DEF ResumeInv, Restored
  <2>3. QED
    BY <2>1, <2>2
<1>2. Names(saved')
  BY DEF ResumeInv
<1>3. \A g \in Handlers : at'[g].step \in {"closeOthers", "reset"} => at'[g].then # "opened"
  BY DEF ResumeInv
<1>4. \A g \in Handlers : at'[g].step = "save" => Names(at'[g].file)
  BY DEF ResumeInv, Saving
<1>5. QED
  BY <1>1, <1>2, <1>3, <1>4 DEF ResumeInv, Names, Saving

(* A request that does not resume ends the others' being alone.            *)
LEMMA NotResumed ==
  ASSUME ResumeInv, NEW h \in Handlers, Names(saved'), OthersSame(h),
         \A g \in Handlers : at'[g].alone = FALSE \/ ~Resuming(g)',
         at'[h].step \in {"closeOthers", "reset"} => at'[h].then # "opened",
         at'[h].step = "save" => Names(at'[h].file)
  PROVE  ResumeInv'
<1>1. \A g \in Handlers : ~Unhindered(g)'
  BY Zenon DEF Unhindered
<1>2. \A g \in Handlers : at'[g].step \in {"closeOthers", "reset"} => at'[g].then # "opened"
  BY DEF ResumeInv, OthersSame, Same
<1>3. \A g \in Handlers : at'[g].step = "save" => Names(at'[g].file)
  BY DEF ResumeInv, OthersSame, Same, Saving
<1>4. QED
  BY <1>1, <1>2, <1>3 DEF ResumeInv, Names, Saving

(* Serving a request, or something outside, where nothing is set up.       *)
LEMMA NoneResumed ==
  ASSUME ResumeInv, Names(saved'), \A g \in Handlers : Same(g) /\ at'[g].alone = FALSE
  PROVE  ResumeInv'
<1>1. \A g \in Handlers : ~Unhindered(g)'
  BY Zenon DEF Unhindered
<1>2. \A g \in Handlers : at'[g].step \in {"closeOthers", "reset"} => at'[g].then # "opened"
  BY DEF ResumeInv, Same
<1>3. \A g \in Handlers : at'[g].step = "save" => Names(at'[g].file)
  BY DEF ResumeInv, Same, Saving
<1>4. QED
  BY <1>1, <1>2, <1>3 DEF ResumeInv, Names, Saving

LEMMA RequestResume ==
  ASSUME Shape, Base, ResumeInv, NEW h \in Handlers, Request(h)
  PROVE  ResumeInv'
<1>1. Names(saved)
  BY DEF ResumeInv
<1>2. ASSUME NEW fg \in BOOLEAN, NEW activate \in BOOLEAN, TabNew(h, fg, activate) PROVE ResumeInv'
  <2> DEFINE l == [step |-> "track", page |-> NewPage, fg |-> fg, then |-> "end"]
  <2>1. Start(h, l) /\ saved' = saved
    BY <1>2 DEF TabNew
  <2>2. DOMAIN l = {"step", "page", "fg", "then"} /\ l.step = "track"
    OBVIOUS
  <2> HIDE DEF l
  <2>3. at'[h] = With(Idle, l) /\ OthersSame(h) /\ \A g \in Handlers : at'[g].alone = FALSE
    BY <2>1, <2>2, StartGives, StartedAlone
  <2>4. at'[h].step = "track"
    BY <2>2, <2>3, IdleLocal, WithFields
  <2>5. QED
    BY <1>1, <2>1, <2>3, <2>4, NotResumed
<1>3. ASSUME NEW p \in ToSet(live), TabCloseStart(h, p) PROVE ResumeInv'
  <2>1. /\ at'[h] = With(Idle, [step |-> "untrack", page |-> p, alone |-> Quiet]) /\ OthersSame(h)
        /\ \A g \in Handlers \ {h} : at'[g].alone = FALSE
    BY <1>3, StartGives DEF TabCloseStart
  <2>2. at'[h].step = "untrack"
    BY <2>1, IdleLocal DEF With, Locals, Fields
  <2>3. ~Resuming(h)'
    BY <2>2 DEF Resuming
  <2>4. saved' = saved
    BY <1>3 DEF TabCloseStart
  <2>5. QED
    BY <1>1, <2>1, <2>2, <2>3, <2>4, NotResumed
<1>4. ASSUME NEW p \in ToSet(live), TabSwitch(h, p) PROVE ResumeInv'
  BY <1>1, <1>4, ServeDoes, NoneResumed DEF TabSwitch
<1>5. CASE ContextCreate(h)
  BY <1>1, <1>5, ServeDoes, NoneResumed DEF ContextCreate
<1>6. ASSUME NEW on \in BOOLEAN, ContextSwitch(h, on) PROVE ResumeInv'
  BY <1>1, <1>6, ServeDoes, NoneResumed DEF ContextSwitch
<1>7. CASE SessionSave(h)
  <2>1. /\ OthersSame(h) /\ at'[h].step = "save" /\ at'[h].file.shown = 0
        /\ \A g \in Handlers : at'[g].alone = FALSE
        /\ saved' = saved
    BY <1>7, SessionSaveDoes
  <2>2. Names(at'[h].file)
    BY <2>1 DEF Names
  <2>3. QED
    BY <1>1, <2>1, <2>2, NotResumed
<1>8. CASE SessionDelete(h)
  <2>1. Names(saved') /\ Serve(h)
    BY <1>8 DEF SessionDelete, Names, NoFile
  <2>2. QED
    BY <2>1, ServeDoes, NoneResumed
<1>9. CASE SessionNewOpen(h)
  <2> DEFINE l == [step |-> "closeOthers", page |-> NewPage, fg |-> FALSE, then |-> "setActive"]
  <2>1. Start(h, l) /\ saved' = saved
    BY <1>9 DEF SessionNewOpen
  <2>2. DOMAIN l = {"step", "page", "fg", "then"} /\ l.then = "setActive" /\ l.step = "closeOthers"
    OBVIOUS
  <2> HIDE DEF l
  <2>3. at'[h] = With(Idle, l) /\ OthersSame(h) /\ \A g \in Handlers : at'[g].alone = FALSE
    BY <2>1, <2>2, StartGives, StartedAlone
  <2>4. at'[h].then = "setActive" /\ at'[h].step = "closeOthers"
    BY <2>2, <2>3, IdleLocal, WithFields
  <2>5. QED
    BY <1>1, <2>1, <2>3, <2>4, NotResumed
<1>10. CASE ResumeStart(h)
  <2>1. /\ OthersSame(h) /\ \A g \in Handlers \ {h} : at'[g].alone = FALSE
        /\ at'[h].step = "nextTab" /\ at'[h].file = saved /\ at'[h].n = 0
        /\ at'[h].alone = Quiet
    BY <1>10, ResumeStartDoes
  <2>2. saved' = saved /\ saved \in Files
    BY <1>10 DEF ResumeStart, Shape
  <2>3. ASSUME NEW g \in Handlers \ {h} PROVE ~Unhindered(g)'
    BY <2>1, Zenon DEF Unhindered
  <2>4. Unhindered(h)' => Quiet
    BY <2>1, Zenon DEF Unhindered
  <2>5. ASSUME Quiet PROVE Restored(h)'
    <3>1. \A g \in Handlers : g # h => at'[g].step = "idle"
      BY <2>1, <2>5 DEF Quiet, Busy, OthersSame, Same
    <3>2. Background(h)'
      <4> DEFINE l == [step |-> "nextTab", page |-> 0, fg |-> FALSE, then |-> "opened",
                       pages |-> live, file |-> saved, n |-> 0, alone |-> Quiet]
      <4>1. Start(h, l)
        BY <1>10 DEF ResumeStart
      <4>2. "fg" \in DOMAIN l /\ l.fg = FALSE
        OBVIOUS
      <4> HIDE DEF l
      <4>3. at'[h] = With(Idle, l)
        BY <4>1, StartGives
      <4>4. at'[h].fg = FALSE
        BY <4>2, <4>3, IdleLocal, WithFields
      <4>5. QED
        BY <4>4, Zenon DEF Background
    <3>3. Names(at'[h].file)
      BY <1>1, <2>1
    <3>4. at'[h].n <= Len(at'[h].file.tabs)
      BY <2>1, <2>2 DEF Files
    <3>5. saved.shown # 0 => 1 <= saved.active
      BY <1>1, <2>2 DEF Names, Files
    <3>6. at'[h].n >= at'[h].file.active => Shows(h)'
      BY <2>1, <2>2, <3>5 DEF Shows, Files
    <3>7. QED
      BY <2>1, <3>1, <3>2, <3>3, <3>4, <3>6 DEF Restored, Names
  <2>6. \A g \in Handlers : at'[g].step \in {"closeOthers", "reset"} => at'[g].then # "opened"
    BY <2>1 DEF ResumeInv, OthersSame, Same
  <2>7. \A g \in Handlers : at'[g].step = "save" => Names(at'[g].file)
    BY <2>1 DEF ResumeInv, OthersSame, Same, Saving
  <2>8. QED
    BY <1>1, <2>2, <2>3, <2>4, <2>5, <2>6, <2>7 DEF ResumeInv, Names, Saving
<1>11. CASE ClearAll(h)
  BY <1>1, <1>11, ServeDoes, NoneResumed DEF ClearAll
<1>12. ASSUME NEW a \in Aliases, ClearTab(h, a) PROVE ResumeInv'
  BY <1>1, <1>12, ServeDoes, NoneResumed DEF ClearTab
<1>13. ASSUME NEW a \in Aliases, AddStart(h, a) PROVE ResumeInv'
  <2>1. OthersSame(h) /\ at'[h].step = "add" /\ \A g \in Handlers \ {h} : at'[g].alone = FALSE
    BY <1>13, AddStartDoes
  <2>2. ~Resuming(h)' /\ saved' = saved
    BY <1>13, <2>1 DEF Resuming, AddStart
  <2>3. QED
    BY <1>1, <2>1, <2>2, NotResumed
<1>14. QED
  BY <1>2, <1>3, <1>4, <1>5, <1>6, <1>7, <1>8, <1>9, <1>10, <1>11, <1>12, <1>13
     DEF Request, NavigateOpens

LEMMA Carried ==
  ASSUME NEW h, Unhindered(h)', at'[h].alone = at[h].alone, Resuming(h)
  PROVE  Unhindered(h)
BY Zenon DEF Unhindered

LEMMA ResumingThen ==
  ASSUME NEW h, at'[h].then = at[h].then, Resuming(h)', at'[h].step # "nextTab", at'[h].step # "opened",
         at[h].step \in {"track", "append", "copy", "register"}
  PROVE  Resuming(h)
BY DEF Resuming

LEMMA GroundStays ==
  ASSUME NEW h, Background(h), at'[h].fg = at[h].fg
  PROVE  Background(h)'
BY Zenon DEF Background

(* A resume goes on with its tab: from one step of the tracking to the     *)
(* next, and from the last one to where trackPage was called.              *)
LEMMA Continues ==
  ASSUME Shape, ResumeInv, NEW h \in Handlers,
         \A g \in Handlers \ {h} : at'[g] = at[g],
         saved' = saved, doc' = doc, activePg' = activePg,
         at[h].step \in {"track", "append", "copy", "register"},
         at'[h] # Idle =>
            /\ at'[h].step \in {"append", "copy", "register"} \/ at'[h].step = at[h].then
            /\ at'[h].fg = at[h].fg /\ at'[h].then = at[h].then /\ at'[h].n = at[h].n
            /\ at'[h].file = at[h].file /\ at'[h].alone = at[h].alone,
         at'[h] # Idle => at'[h].page = at[h].page \/ ~Background(h)
  PROVE  ResumeInv'
<1>1. at[h].step # "idle"
  OBVIOUS
<1>2. at[h].then \in {"end", "setActive", "opened"}
  BY DEF Shape, Locals, Fields
<1>3. CASE at'[h] = Idle
  <2>1. at'[h].step = "idle"
    BY <1>3, IdleFields
  <2>2. ~Unhindered(h)'
    BY <2>1 DEF Unhindered, Resuming
  <2>3. QED
    BY <1>1, <2>1, <2>2, ResumesOn
<1>4. CASE at'[h] # Idle
  <2>1. /\ at'[h].step \in {"append", "copy", "register"} \/ at'[h].step = at[h].then
        /\ at'[h].fg = at[h].fg /\ at'[h].then = at[h].then /\ at'[h].n = at[h].n
        /\ at'[h].file = at[h].file /\ at'[h].alone = at[h].alone
    BY <1>4
  <2>2. Resuming(h)' => Resuming(h)
    BY <1>2, <2>1 DEF Resuming
  <2>3. ASSUME Unhindered(h)' PROVE Restored(h)'
    <3>1. Resuming(h)'
      BY <2>3 DEF Unhindered
    <3>2. Unhindered(h)
      BY <2>1, <2>2, <2>3, <3>1, Carried
    <3>3. Restored(h)
      BY <3>2 DEF ResumeInv
    <3>4. at'[h].page = at[h].page
      BY <1>4, <3>3 DEF Restored
    <3>5. Background(h)'
      BY <2>1, <3>3, GroundStays DEF Restored
    <3>6. at'[h].step # "nextTab"
      BY <1>2, <2>1
    <3>7. /\ \A g \in Handlers : g # h => at[g].step = "idle"
          /\ Names(at[h].file) /\ at[h].n <= Len(at[h].file.tabs)
          /\ at[h].n >= 1 /\ at[h].page # 0 /\ doc[at[h].page] = at[h].file.tabs[at[h].n]
          /\ at[h].n > at[h].file.active => Shows(h)
      BY <3>3 DEF Restored
    <3>8. Shows(h) => Shows(h)'
      BY <2>1 DEF Shows
    <3>9. QED
      BY <2>1, <3>4, <3>5, <3>6, <3>7, <3>8 DEF Restored, Names
  <2>4. at'[h].step \notin {"closeOthers", "reset", "save"}
    BY <1>2, <2>1
  <2>5. QED
    BY <1>1, <2>3, <2>4, ResumesOn
<1>5. QED
  BY <1>3, <1>4

(* The steps that are no part of a resume.                                 *)
LEMMA Elsewhere ==
  ASSUME ResumeInv, NEW h \in Handlers, at[h].step # "idle",
         \A g \in Handlers \ {h} : at'[g] = at[g], saved' = saved,
         ~Resuming(h)', at'[h].step \in {"closeOthers", "reset"} => at'[h].then # "opened",
         at'[h].step = "save" => Names(at'[h].file)
  PROVE  ResumeInv'
BY ResumesOn DEF Unhindered

LEMMA EndsElsewhere ==
  ASSUME Shape, ResumeInv, NEW h \in Handlers, at[h].step # "idle", End(h), saved' = saved
  PROVE  ResumeInv'
<1>1. at'[h] = Idle /\ \A g \in Handlers \ {h} : at'[g] = at[g]
  BY EndGives
<1>2. at'[h].step = "idle"
  BY <1>1, IdleFields
<1>3. QED
  BY <1>1, <1>2, Elsewhere DEF Resuming

LEMMA AfterContinues ==
  ASSUME Shape, NEW h \in Handlers, After(h)
  PROVE  /\ \A g \in Handlers \ {h} : at'[g] = at[g]
         /\ at'[h] # Idle =>
              /\ at'[h].step = at[h].then
              /\ at'[h].fg = at[h].fg /\ at'[h].then = at[h].then /\ at'[h].n = at[h].n
              /\ at'[h].file = at[h].file /\ at'[h].alone = at[h].alone /\ at'[h].page = at[h].page
<1>1. /\ \A g \in Handlers \ {h} : at'[g] = at[g]
      /\ at'[h] # Idle => at'[h] = With(at[h], [step |-> at[h].then])
  BY AfterDoes DEF Shape
<1>2. at[h] \in Locals
  BY DEF Shape
<1>3. QED
  BY <1>1, <1>2, WithFields

LEMMA TrackingResume ==
  ASSUME Shape, Base, ResumeInv, NEW h \in Handlers,
         TrackLookup(h) \/ TrackAppend(h) \/ ApplyCopy(h) \/ ApplyRegister(h) \/ ApplyDone(h)
  PROVE  ResumeInv'
<1>1. at[h] \in Locals
  BY DEF Shape
<1>2. CASE TrackLookup(h)
  <2> DEFINE p == IF at[h].fg THEN activePg ELSE at[h].page
             l == [step |-> "append", page |-> p]
  <2>1. at[h].step = "track" /\ saved' = saved /\ doc' = doc /\ activePg' = activePg
    BY <1>2 DEF TrackLookup, tabVars
  <2>2. End(h) \/ After(h) \/ Goto(h, l)
    BY <1>2 DEF TrackLookup
  <2>3. Background(h) => p = at[h].page
    BY Zenon DEF Background
  <2>4. DOMAIN l = {"step", "page"} /\ l.step = "append" /\ l.page = p
    OBVIOUS
  <2> HIDE DEF p, l
  <2>5. CASE End(h)
    BY <2>1, <2>5, EndsElsewhere
  <2>6. CASE After(h)
    BY <2>1, <2>6, AfterContinues, Continues
  <2>7. CASE Goto(h, l)
    <3>1. at'[h] = With(at[h], l) /\ \A g \in Handlers \ {h} : at'[g] = at[g]
      BY <2>7, GotoGives
    <3>2. /\ at'[h].step = "append" /\ at'[h].page = p
          /\ at'[h].fg = at[h].fg /\ at'[h].then = at[h].then /\ at'[h].n = at[h].n
          /\ at'[h].file = at[h].file /\ at'[h].alone = at[h].alone
      BY <1>1, <2>4, <3>1, WithFields
    <3>3. QED
      BY <2>1, <2>3, <3>1, <3>2, Continues
  <2>8. QED
    BY <2>2, <2>5, <2>6, <2>7
<1>3. CASE ApplyDone(h)
  <2>1. at[h].step = "register" /\ saved' = saved /\ doc' = doc /\ activePg' = activePg /\ After(h)
    BY <1>3 DEF ApplyDone, tabVars
  <2>2. QED
    BY <2>1, AfterContinues, Continues
<1>4. ASSUME NEW l, Goto(h, l),
             "page" \notin DOMAIN l, "fg" \notin DOMAIN l, "then" \notin DOMAIN l, "n" \notin DOMAIN l,
             "file" \notin DOMAIN l, "alone" \notin DOMAIN l,
             ("step" \in DOMAIN l /\ l.step \in {"copy", "register"})
               \/ ("step" \notin DOMAIN l /\ at[h].step = "register"),
             at[h].step \in {"append", "copy", "register"},
             saved' = saved, doc' = doc, activePg' = activePg
      PROVE  ResumeInv'
  <2>1. at'[h] = With(at[h], l) /\ \A g \in Handlers \ {h} : at'[g] = at[g]
    BY <1>4, GotoGives
  <2>2. /\ at'[h].step \in {"copy", "register"} /\ at'[h].page = at[h].page
        /\ at'[h].fg = at[h].fg /\ at'[h].then = at[h].then /\ at'[h].n = at[h].n
        /\ at'[h].file = at[h].file /\ at'[h].alone = at[h].alone
    BY <1>1, <1>4, <2>1, WithFields
  <2>3. QED
    BY <1>4, <2>1, <2>2, Continues
<1>5. CASE TrackAppend(h)
  <2> DEFINE l == [step |-> "copy"]
  <2>1. Goto(h, l) /\ at[h].step = "append" /\ saved' = saved /\ doc' = doc /\ activePg' = activePg
    BY <1>5 DEF TrackAppend
  <2>2. DOMAIN l = {"step"} /\ l.step = "copy"
    OBVIOUS
  <2> HIDE DEF l
  <2>3. QED
    BY <1>4, <2>1, <2>2
<1>6. CASE ApplyCopy(h)
  <2> DEFINE l == [step |-> "register", todo |-> global]
  <2>1. Goto(h, l) /\ at[h].step = "copy" /\ saved' = saved /\ doc' = doc /\ activePg' = activePg
    BY <1>6 DEF ApplyCopy, tabVars
  <2>2. DOMAIN l = {"step", "todo"} /\ l.step = "register"
    OBVIOUS
  <2> HIDE DEF l
  <2>3. QED
    BY <1>4, <2>1, <2>2
<1>7. CASE ApplyRegister(h)
  <2>1. /\ \E S : Goto(h, [todo |-> S])
        /\ at[h].step = "register" /\ saved' = saved /\ doc' = doc /\ activePg' = activePg
    BY <1>7 DEF ApplyRegister, tabVars
  <2>2. PICK S : Goto(h, [todo |-> S])
    BY <2>1
  <2> DEFINE l == [todo |-> S]
  <2>3. DOMAIN l = {"todo"} /\ Goto(h, l)
    BY <2>2
  <2> HIDE DEF l
  <2>4. QED
    BY <1>4, <2>1, <2>3
<1>8. QED
  BY <1>2, <1>3, <1>5, <1>6, <1>7

LEMMA ResumeOpenResume ==
  ASSUME Shape, Base, ResumeInv, NEW h \in Handlers, ResumeOpen(h)
  PROVE  ResumeInv'
<1> DEFINE d == at[h].file.tabs[at[h].n + 1]
           l == [step |-> "track", page |-> NewPage, n |-> at[h].n + 1]
<1>1. /\ at[h] \in Locals /\ at[h].n \in Nat /\ at[h].file.tabs \in Seq(Pages) /\ at[h].file.active \in Nat
  BY DEF Shape, Locals, Fields, Files
<1>2. /\ at[h].step = "nextTab" /\ at[h].n < Len(at[h].file.tabs) /\ Open(d) /\ Goto(h, l)
      /\ saved' = saved /\ activePg' = activePg
  BY DEF ResumeOpen
<1>3. d \in Pages
  BY <1>1, <1>2
<1>4. DOMAIN l = {"step", "page", "n"} /\ l.step = "track" /\ l.page = NewPage /\ l.n = at[h].n + 1
  OBVIOUS
<1> HIDE DEF l
<1>5. at'[h] = With(at[h], l) /\ \A g \in Handlers \ {h} : at'[g] = at[g]
  BY <1>2, GotoGives
<1>6. /\ at'[h].step = "track" /\ at'[h].page = NewPage /\ at'[h].n = at[h].n + 1
      /\ at'[h].fg = at[h].fg /\ at'[h].file = at[h].file /\ at'[h].alone = at[h].alone
  BY <1>1, <1>4, <1>5, WithFields
<1>7. ASSUME Unhindered(h)' PROVE Restored(h)'
  <2>1. Unhindered(h)
    BY <1>2, <1>6, <1>7, Carried DEF Resuming
  <2>2. Restored(h)
    BY <2>1 DEF ResumeInv
  <2>3. /\ \A g \in Handlers : g # h => at[g].step = "idle"
        /\ Names(at[h].file) /\ at[h].n >= at[h].file.active => Shows(h)
    BY <1>2, <2>2 DEF Restored
  <2>4. /\ NewPage \in Pages /\ NewPage = opened + 1 /\ doc'[NewPage] = d
        /\ \A p \in Pages : p # NewPage => doc'[p] = doc[p]
    BY <1>2, <1>3, OpenDoes DEF Shape
  <2>5. Shows(h) => Shows(h)'
    <3>1. activePg # 0 => activePg \in Pages /\ activePg # NewPage
      BY <2>4, Known, Bounds DEF Shape, PageTypes, Pages
    <3>2. QED
      BY <1>2, <1>6, <2>4, <3>1 DEF Shows
  <2>6. Background(h)'
    BY <1>6, <2>2, GroundStays DEF Restored
  <2>7. NewPage # 0
    BY <2>4, Known
  <2>8. /\ at'[h].n <= Len(at'[h].file.tabs) /\ at'[h].n >= 1
        /\ doc'[at'[h].page] = at'[h].file.tabs[at'[h].n]
    BY <1>1, <1>2, <1>6, <2>4
  <2>9. at'[h].n > at'[h].file.active => Shows(h)'
    BY <1>1, <1>6, <2>2, <2>5, <1>2 DEF Restored
  <2>10. \A g \in Handlers : g # h => at'[g].step = "idle"
    BY <1>5, <2>3
  <2>11. Names(at'[h].file)
    BY <1>6, <2>2 DEF Restored
  <2>12. QED
    BY <1>6, <2>6, <2>7, <2>8, <2>9, <2>10, <2>11 DEF Restored, Names
<1>8. QED
  BY <1>2, <1>5, <1>6, <1>7, ResumesOn

LEMMA ResumeOpenedResume ==
  ASSUME Shape, Base, ResumeInv, NEW h \in Handlers, ResumeOpened(h)
  PROVE  ResumeInv'
<1> DEFINE l == [step |-> "nextTab"]
<1>1. /\ at[h] \in Locals /\ at[h].n \in Nat /\ at[h].file.active \in Nat
  BY DEF Shape, Locals, Fields, Files
<1>2. /\ at[h].step = "opened" /\ Goto(h, l) /\ saved' = saved /\ doc' = doc
      /\ activePg' = IF at[h].n = at[h].file.active THEN at[h].page ELSE activePg
  BY DEF ResumeOpened
<1>3. DOMAIN l = {"step"} /\ l.step = "nextTab"
  OBVIOUS
<1> HIDE DEF l
<1>4. at'[h] = With(at[h], l) /\ \A g \in Handlers \ {h} : at'[g] = at[g]
  BY <1>2, GotoGives
<1>5. /\ at'[h].step = "nextTab" /\ at'[h].page = at[h].page /\ at'[h].n = at[h].n
      /\ at'[h].fg = at[h].fg /\ at'[h].file = at[h].file /\ at'[h].alone = at[h].alone
  BY <1>1, <1>3, <1>4, WithFields
<1>6. ASSUME Unhindered(h)' PROVE Restored(h)'
  <2>1. Unhindered(h)
    BY <1>2, <1>5, <1>6, Carried DEF Resuming
  <2>2. Restored(h)
    BY <2>1 DEF ResumeInv
  <2>3. /\ \A g \in Handlers : g # h => at[g].step = "idle"
        /\ Names(at[h].file) /\ at[h].n <= Len(at[h].file.tabs)
        /\ at[h].n >= 1 /\ at[h].page # 0 /\ doc[at[h].page] = at[h].file.tabs[at[h].n]
    BY <1>2, <2>2 DEF Restored
  <2>4. at[h].n > at[h].file.active => Shows(h)
    BY <1>2, <2>2 DEF Restored
  <2>5. Background(h)'
    BY <1>5, <2>2, GroundStays DEF Restored
  <2>6. at[h].n >= at[h].file.active => Shows(h)'
    <3>1. CASE at[h].n = at[h].file.active
      BY <1>2, <1>5, <2>3, <3>1 DEF Shows, Names
    <3>2. CASE at[h].n > at[h].file.active
      BY <1>1, <1>2, <1>5, <2>4, <3>2 DEF Shows
    <3>3. QED
      BY <1>1, <3>1, <3>2
  <2>7. QED
    BY <1>4, <1>5, <2>3, <2>5, <2>6 DEF Restored, Names
<1>7. QED
  BY <1>2, <1>4, <1>5, <1>6, ResumesOn

LEMMA StepResume ==
  ASSUME Shape, Base, ResumeInv, [Next]_vars
  PROVE  ResumeInv'
<1>1. ASSUME NEW h \in Handlers, Request(h) PROVE ResumeInv'
  BY <1>1, RequestResume
<1>2. ASSUME NEW h \in Handlers, HandlerStep(h) PROVE ResumeInv'
  <2>1. at[h] \in Locals
    BY DEF Shape
  <2>2. CASE TrackLookup(h) \/ TrackAppend(h) \/ ApplyCopy(h) \/ ApplyRegister(h) \/ ApplyDone(h)
    BY <2>2, TrackingResume
  <2>3. ASSUME NEW s, Goto(h, [step |-> s]), s \in {"close", "forget", "reset", "track"},
               s \in {"reset", "track"} => at[h].step \in {"closeOthers", "reset"},
               at[h].step # "idle", saved' = saved
        PROVE  ResumeInv'
    <3>1. at'[h] = With(at[h], [step |-> s]) /\ \A g \in Handlers \ {h} : at'[g] = at[g]
      BY <2>3, GotoGives
    <3>2. at'[h].step = s /\ at'[h].then = at[h].then
      BY <2>1, <3>1, WithFields
    <3>3. at[h].step \in {"closeOthers", "reset"} => at[h].then # "opened"
      BY DEF ResumeInv
    <3>4. ~Resuming(h)'
      BY <2>3, <3>2, <3>3 DEF Resuming
    <3>5. QED
      BY <2>3, <3>1, <3>2, <3>3, <3>4, Elsewhere
  <2>4. CASE UntrackLookup(h) \/ UntrackRemove(h)
    <3>1. ASSUME NEW l, Goto(h, l), "step" \in DOMAIN l, l.step \in {"close", "remove"},
                 at[h].step # "idle", saved' = saved
          PROVE  ResumeInv'
      <4>1. at'[h] = With(at[h], l) /\ \A g \in Handlers \ {h} : at'[g] = at[g]
        BY <3>1, GotoGives
      <4>2. at'[h].step = l.step
        BY <2>1, <3>1, <4>1, WithFields
      <4>3. ~Resuming(h)'
        BY <3>1, <4>2 DEF Resuming
      <4>4. QED
        BY <3>1, <4>1, <4>2, <4>3, Elsewhere
    <3> DEFINE l1 == [step |-> "close"]
               l2(i) == [step |-> "remove", n |-> i]
               l3 == [step |-> "close", n |-> 0]
    <3>2. /\ "step" \in DOMAIN l1 /\ l1.step = "close" /\ "step" \in DOMAIN l3 /\ l3.step = "close"
          /\ \A i : "step" \in DOMAIN l2(i) /\ l2(i).step = "remove"
      OBVIOUS
    <3>3. /\ at[h].step # "idle" /\ saved' = saved
          /\ Goto(h, l1) \/ Goto(h, l3) \/ End(h) \/ \E i \in First(pageOrder, at[h].page) : Goto(h, l2(i))
      BY <2>4 DEF UntrackLookup, UntrackRemove
    <3> HIDE DEF l1, l2, l3
    <3>4. CASE \E i \in First(pageOrder, at[h].page) : Goto(h, l2(i))
      <4>1. PICK i \in First(pageOrder, at[h].page) : Goto(h, l2(i))
        BY <3>4
      <4>2. QED
        BY <3>1, <3>2, <3>3, <4>1
    <3>5. QED
      BY <3>1, <3>2, <3>3, <3>4, EndsElsewhere
  <2>5. CASE TabCloseClose(h)
    BY <2>3, <2>5, EndsElsewhere DEF TabCloseClose
  <2>6. CASE SessionNewClose(h) \/ SessionNewReset(h)
    BY <2>3, <2>6 DEF SessionNewClose, SessionNewReset
  <2>7. CASE TabCloseForget(h) \/ SessionNewActive(h) \/ ResumeClose(h) \/ AddFinish(h)
    BY <2>7, EndsElsewhere DEF TabCloseForget, SessionNewActive, ResumeClose, AddFinish
  <2>8. CASE ResumeOpen(h) \/ ResumeOpened(h)
    BY <2>8, ResumeOpenResume, ResumeOpenedResume
  <2>9. CASE AddRegister(h)
    <3>1. /\ at[h].step = "add" /\ (\A g \in Handlers \ {h} : at'[g] = at[g])
          /\ at'[h].step \in {"add", "idle"} /\ saved' = saved
      BY <2>9, AddRegisterDoes, IdleFields
    <3>2. QED
      BY <3>1, Elsewhere DEF Resuming
  <2>10. CASE SavePage(h)
    <3>1. /\ at[h].step = "save" /\ \A g \in Handlers \ {h} : at'[g] = at[g]
          /\ \/ at'[h] = Idle
             \/ at'[h].step = "save" /\ Names(at[h].file) => Names(at'[h].file)
          /\ at'[h] = Idle \/ at'[h].step = "save"
          /\ saved' = saved
      BY <2>10, SavePageDoes
    <3>2. Names(at[h].file)
      BY <3>1 DEF ResumeInv, Saving
    <3>3. at'[h].step \in {"idle", "save"}
      BY <3>1, IdleFields
    <3>4. at'[h].step = "save" => Names(at'[h].file)
      BY <3>1, <3>2, IdleFields
    <3>5. ~Resuming(h)'
      BY <3>3 DEF Resuming
    <3>6. QED
      BY <3>1, <3>3, <3>4, <3>5, Elsewhere
  <2>11. CASE SaveWrite(h)
    <3>1. at[h].step = "save" /\ saved' = at[h].file /\ End(h)
      BY <2>11 DEF SaveWrite
    <3>2. at'[h].step = "idle" /\ \A g \in Handlers \ {h} : at'[g] = at[g]
      BY <3>1, EndGives, IdleFields
    <3>3. Names(saved')
      BY <3>1 DEF ResumeInv, Saving
    <3>4. ~Unhindered(h)'
      BY <3>2 DEF Unhindered, Resuming
    <3>5. QED
      BY <3>1, <3>2, <3>3, <3>4, ResumesOn
  <2>12. QED
    BY <1>2, <2>2, <2>4, <2>5, <2>6, <2>7, <2>8, <2>9, <2>10, <2>11 DEF HandlerStep
<1>3. CASE Popup \/ \E p \in ToSet(live) : UserCloses(p)
  <2>1. saved' = saved /\ \A g \in Handlers : Same(g) /\ at'[g].alone = FALSE
    BY <1>3, OutsideDoes DEF Popup, UserCloses
  <2>2. QED
    BY <2>1, NoneResumed DEF ResumeInv
<1>4. CASE UNCHANGED vars
  BY <1>4, Zenon DEF vars, tabVars, ResumeInv, Saving, Names, Unhindered, Resuming, Restored, Background, Shows
<1>5. QED
  BY <1>1, <1>2, <1>3, <1>4 DEF Next

(* A session that is resumed while nothing else happens shows the document *)
(* that was active when it was saved, unless a page left out of the file   *)
(* or an active context came between (routes_session.go:36-49, 167-171).   *)
THEOREM ResumeRestoresActiveHolds == Spec => ResumeRestoresActive
<1>1. Init => ResumeInv
  <2>1. SUFFICES ASSUME Init PROVE ResumeInv
    OBVIOUS
  <2>2. \A h \in Handlers : at[h].step = "idle"
    BY <2>1, IdleFields DEF Init
  <2>3. \A h \in Handlers : ~Unhindered(h) /\ ~Saving(h)
    BY <2>2 DEF Unhindered, Resuming, Saving
  <2>4. Names(saved)
    BY <2>1 DEF Init, NoFile, Names
  <2>5. QED
    BY <2>2, <2>3, <2>4 DEF ResumeInv
<1>2. TabsInv /\ ResumeInv /\ [Next]_vars => ResumeInv'
  BY StepResume DEF TabsInv, ScriptsInv
<1>3. TabsInv /\ ResumeInv /\ [Next]_vars =>
        [\A h \in Handlers : ResumeClose(h) /\ at[h].alone /\ at[h].file.shown # 0 /\ ~ctx.on
            => activePage' # 0 /\ doc[activePage'] = at[h].file.shown]_vars
  <2>1. SUFFICES ASSUME TabsInv, ResumeInv, NEW h \in Handlers, ResumeClose(h), at[h].alone,
                        at[h].file.shown # 0, ~ctx.on
                 PROVE  activePage' # 0 /\ doc[activePage'] = at[h].file.shown
    OBVIOUS
  <2>2. /\ at[h].step = "nextTab" /\ at[h].n = Len(at[h].file.tabs)
        /\ activePg' = activePg /\ ctx' = ctx
    BY <2>1 DEF ResumeClose
  <2>3. Unhindered(h)
    <3>1. Resuming(h)
      BY <2>2 DEF Resuming
    <3>2. QED
      BY <2>1, <3>1, Zenon DEF Unhindered
  <2>4. Restored(h)
    BY <2>1, <2>3 DEF ResumeInv
  <2>5. at[h].n >= at[h].file.active
    <3>1. at[h].file.tabs \in Seq(Pages) /\ at[h].file.active \in Nat
      BY <2>1 DEF TabsInv, ScriptsInv, Shape, Locals, Fields, Files
    <3>2. QED
      BY <2>1, <2>2, <2>4, <3>1 DEF Restored, Names
  <2>6. activePg # 0 /\ doc[activePg] = at[h].file.shown
    BY <2>1, <2>2, <2>4, <2>5 DEF Restored, Shows
  <2>7. activePage' = activePg
    <3>1. ~ctx'.on /\ activePg' # 0
      BY <2>1, <2>2, <2>6
    <3>2. activePage' = activePg'
      BY <3>1, Zenon DEF activePage
    <3>3. QED
      BY <2>2, <3>2
  <2>8. QED
    BY <2>6, <2>7
<1>4. QED
  BY <1>1, <1>2, <1>3, TabsInvariant, PTL DEF Spec, ResumeRestoresActive
=============================================================================
