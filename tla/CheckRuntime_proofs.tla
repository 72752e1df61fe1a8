------------------------- MODULE CheckRuntime_proofs -------------------------
(***************************************************************************)
(* The lock discipline of the programs of CheckRuntime, and what follows   *)
(* from it for any set of goroutines: Xray is never restarted under a      *)
(* probe, diagnoses exclude each other, and automatic ones yield.          *)
(***************************************************************************)
EXTENDS CheckRuntime, SequenceTheorems, FiniteSets, FiniteSetTheorems,
        TLAPS

OpNames ==
  {"lock", "unlock", "rlock", "runlock", "try", "request", "deliver",
   "reload", "pause", "resume", "cancelAutomatic", "begin", "end"}
Steps == [op : OpNames, on : Locks \cup {Nobody}]

-----------------------------------------------------------------------------
(* Sequences.                                                              *)

(* An element of a concatenation is one of the first or of the second.     *)
LEMMA Concat ==
  ASSUME NEW S, NEW s \in Seq(S), NEW t \in Seq(S)
  PROVE  /\ s \o t \in Seq(S)
         /\ Len(s \o t) = Len(s) + Len(t)
         /\ DOMAIN (s \o t) = 1..(Len(s) + Len(t))
         /\ \A i \in 1..Len(s) : (s \o t)[i] = s[i]
         /\ \A i \in 1..Len(t) : (s \o t)[Len(s) + i] = t[i]
PROOF
<1>1. /\ s \o t \in Seq(S)
      /\ Len(s \o t) = Len(s) + Len(t)
      /\ \A i \in 1..(Len(s) + Len(t)) : (s \o t)[i] =
           IF i <= Len(s) THEN s[i] ELSE t[i - Len(s)]
  BY ConcatProperties
<1>2. Len(s) \in Nat /\ Len(t) \in Nat
  BY LenProperties
<1>3. DOMAIN (s \o t) = 1..(Len(s) + Len(t))
  BY <1>1, LenProperties
<1>4. \A i \in 1..Len(s) : (s \o t)[i] = s[i]
  BY <1>1, <1>2
<1>5. ASSUME NEW i \in 1..Len(t)
      PROVE  (s \o t)[Len(s) + i] = t[i]
  <2>1. /\ Len(s) + i \in 1..(Len(s) + Len(t))
        /\ ~(Len(s) + i <= Len(s))
        /\ Len(s) + i - Len(s) = i
    BY <1>2
  <2>. QED
    BY <1>1, <2>1
<1>. QED
  BY <1>1, <1>3, <1>4, <1>5

LEMMA Single ==
  ASSUME NEW S, NEW x \in S
  PROVE  <<x>> \in Seq(S) /\ Len(<<x>>) = 1 /\ <<x>>[1] = x
OBVIOUS

(* A sequence between two more elements.                                   *)
LEMMA Bracket ==
  ASSUME NEW S, NEW x \in S, NEW y \in S, NEW body \in Seq(S)
  PROVE  LET s == <<x>> \o body \o <<y>>
         IN /\ s \in Seq(S)
            /\ Len(s) = Len(body) + 2
            /\ s[1] = x
            /\ s[Len(body) + 2] = y
            /\ \A i \in 1..Len(body) : s[i + 1] = body[i]
PROOF
<1>. DEFINE first == <<x>> \o body
            s == first \o <<y>>
<1>1. /\ <<x>> \in Seq(S) /\ Len(<<x>>) = 1 /\ <<x>>[1] = x
      /\ <<y>> \in Seq(S) /\ Len(<<y>>) = 1 /\ <<y>>[1] = y
  BY Single
<1>2. Len(body) \in Nat
  BY LenProperties
<1>3. /\ first \in Seq(S)
      /\ Len(first) = 1 + Len(body)
      /\ \A i \in 1..1 : first[i] = <<x>>[i]
      /\ \A i \in 1..Len(body) : first[1 + i] = body[i]
  BY <1>1, Concat
<1>. HIDE DEF first
<1>4. /\ s \in Seq(S)
      /\ Len(s) = Len(first) + 1
      /\ \A i \in 1..Len(first) : s[i] = first[i]
      /\ \A i \in 1..1 : s[Len(first) + i] = <<y>>[i]
  BY <1>1, <1>3, Concat
<1>. HIDE DEF s
<1>5. s[1] = x
  BY <1>1, <1>2, <1>3, <1>4
<1>6. s[Len(body) + 2] = y
  BY <1>1, <1>2, <1>3, <1>4
<1>7. \A i \in 1..Len(body) : s[i + 1] = body[i]
  BY <1>2, <1>3, <1>4
<1>. QED
  BY <1>2, <1>3, <1>4, <1>5, <1>6, <1>7 DEF s, first

LEMMA BracketIs ==
  ASSUME NEW S, NEW x \in S, NEW y \in S, NEW body \in Seq(S),
         NEW s, s = <<x>> \o body \o <<y>>
  PROVE  /\ s \in Seq(S)
         /\ Len(s) = Len(body) + 2
         /\ s[1] = x
         /\ s[Len(body) + 2] = y
         /\ \A i \in 1..Len(body) : s[i + 1] = body[i]
BY Bracket

(* What is left after the next step.                                       *)
LEMMA Rest ==
  ASSUME NEW S, NEW s \in Seq(S), s # <<>>
  PROVE  /\ Head(s) = s[1]
         /\ Len(s) \in Nat \ {0}
         /\ Tail(s) \in Seq(S)
         /\ Len(Tail(s)) = Len(s) - 1
         /\ \A i \in 1..(Len(s) - 1) : Tail(s)[i] = s[i + 1]
PROOF
<1>1. /\ Tail(s) \in Seq(S)
      /\ Len(Tail(s)) = Len(s) - 1
      /\ \A i \in 1..Len(Tail(s)) : Tail(s)[i] = s[i + 1]
  BY HeadTailProperties
<1>2. Len(s) \in Nat \ {0}
  BY EmptySeq
<1>3. Head(s) = s[1]
  OBVIOUS
<1>. QED
  BY <1>1, <1>2, <1>3

-----------------------------------------------------------------------------
(* What holds of every program, and of every rest of it.  A lock that is    *)
(* held is named by the step that has still to give it back.                *)

Releases == {r \in Steps : r.op \in {"unlock", "runlock"} /\ r.on \in Locks}

Takes(step, r) ==
  \/ step.op \in {"lock", "try"} /\ r = On("unlock", step.on)
  \/ step.op = "rlock" /\ r = On("runlock", step.on)

(* Before step i of t the lock of r is held, when those in held were before *)
(* the first: it is taken on the way, or kept.                              *)
Held(t, i, r, held) ==
  \/ r \in held /\ \A k \in 1..(i - 1) : t[k] # r
  \/ \E j \in 1..(i - 1) :
       /\ Takes(t[j], r)
       /\ \A k \in (j + 1)..(i - 1) : t[k] # r

Needs(step, r) ==
  \/ step = r
  \/ step.op = "reload" /\ r = On("unlock", "runtimeMu")
  \/ step.op = "request" /\ r = On("runlock", "runtimeMu")

(* Only what is held is given back; Xray is reloaded under runtimeMu, and   *)
(* asked by who reads it.                                                   *)
Guarded(t, held) ==
  \A i \in 1..Len(t), r \in Releases :
    Needs(t[i], r) => Held(t, i, r, held)

(* New work is refused before what runs is cancelled.                      *)
PausePaired(t) ==
  \A i \in 1..Len(t) : t[i].op = "pause" =>
    i < Len(t) /\ t[i + 1].op = "cancelAutomatic"

Change(step) ==
  IF step.op = "pause" THEN 1 ELSE IF step.op = "resume" THEN -1 ELSE 0

(* depth[i] is how many of the pauses in force before step i are those of  *)
(* this program.                                                           *)
Fits(t, depth) ==
  /\ depth \in [1..(Len(t) + 1) -> Nat]
  /\ depth[Len(t) + 1] = 0
  /\ \A i \in 1..Len(t) : depth[i + 1] = depth[i] + Change(t[i])
  /\ \A i, j \in 1..Len(t) :
       /\ i <= j /\ t[j].op = "resume"
       /\ \A k \in i..j : t[k].op # "pause"
       => depth[i] >= 1

Nested(t, d) == \E depth : Fits(t, depth) /\ depth[1] = d

(* The steps of everybody but the diagnoses, with the locks they free.      *)
StepsUpTo(locks) ==
  {s \in Steps : /\ s.op \notin {"begin", "end", "try"}
                 /\ s.op \in {"unlock", "runlock"} => s.on \in locks}

(* A sequence that counts on what is held around it, and one that does not. *)
RegularIn(t, locks, held) ==
  /\ t \in Seq(StepsUpTo(locks))
  /\ Guarded(t, held)
  /\ PausePaired(t)
  /\ Nested(t, 0)

Regular(t, locks) == RegularIn(t, locks, {})

LEMMA StepsOp ==
  /\ \A name \in OpNames : Op(name) \in Steps
  /\ \A name \in OpNames, l \in Locks : On(name, l) \in Steps
BY DEF Steps, Op, On

LEMMA ReleasesAre ==
  /\ \A l \in Locks : On("unlock", l) \in Releases /\ On("runlock", l) \in Releases
  /\ \A r \in Releases : /\ r.on \in Locks
                         /\ r.op \in {"unlock", "runlock"}
                         /\ r = On(r.op, r.on)
BY StepsOp DEF Releases, Steps, OpNames, On

LEMMA GuardedMonotonic ==
  ASSUME NEW t, NEW held, NEW more, Guarded(t, held), held \subseteq more
  PROVE  Guarded(t, more)
BY DEF Guarded, Held

LEMMA RegularMonotonic ==
  ASSUME NEW t, NEW locks, NEW more, NEW held, RegularIn(t, locks, held),
         locks \subseteq more
  PROVE  RegularIn(t, more, held)
PROOF
<1>1. StepsUpTo(locks) \subseteq StepsUpTo(more)
  BY DEF StepsUpTo
<1>2. t \in Seq(StepsUpTo(more))
  BY <1>1, SeqMonotonic DEF RegularIn
<1>. QED
  BY <1>2 DEF RegularIn

(* A sequence in which nothing is paused or resumed.                       *)
LEMMA FlatNested ==
  ASSUME NEW S, NEW t \in Seq(S),
         \A i \in 1..Len(t) : t[i].op \notin {"pause", "resume"}
  PROVE  Nested(t, 0)
PROOF
<1>. DEFINE depth == [i \in 1..(Len(t) + 1) |-> 0]
<1>1. Len(t) \in Nat
  BY LenProperties
<1>2. Fits(t, depth)
  BY <1>1 DEF Fits, Change
<1>3. depth[1] = 0
  BY <1>1
<1>. QED
  BY <1>2, <1>3 DEF Nested

(* What locks are held, seen in one part of a sequence.                    *)
LEMMA GuardedConcat ==
  ASSUME NEW S, NEW s \in Seq(S), NEW t \in Seq(S),
         Guarded(s, {}), Guarded(t, {})
  PROVE  Guarded(s \o t, {})
PROOF
<1>. DEFINE st == s \o t
<1>1. /\ Len(st) = Len(s) + Len(t)
      /\ \A i \in 1..Len(s) : st[i] = s[i]
      /\ \A i \in 1..Len(t) : st[Len(s) + i] = t[i]
  BY Concat
<1>2. Len(s) \in Nat /\ Len(t) \in Nat
  BY LenProperties
<1>. HIDE DEF st
<1>. SUFFICES ASSUME NEW i \in 1..Len(st), NEW r \in Releases, Needs(st[i], r)
              PROVE  Held(st, i, r, {})
  BY DEF Guarded, st
<1>3. CASE i <= Len(s)
  <2>1. Held(s, i, r, {})
    BY <1>1, <1>2, <1>3 DEF Guarded
  <2>2. PICK j \in 1..(i - 1) :
          /\ Takes(s[j], r)
          /\ \A k \in (j + 1)..(i - 1) : s[k] # r
    BY <2>1 DEF Held
  <2>3. /\ j \in 1..Len(s)
        /\ \A k \in (j + 1)..(i - 1) : k \in 1..Len(s)
    BY <1>2, <1>3
  <2>. QED
    BY <1>1, <2>2, <2>3 DEF Held
<1>4. CASE i > Len(s)
  <2>. DEFINE m == i - Len(s)
  <2>1. m \in 1..Len(t) /\ i = Len(s) + m
    BY <1>1, <1>2, <1>4
  <2>. HIDE DEF m
  <2>2. Held(t, m, r, {})
    BY <1>1, <2>1 DEF Guarded
  <2>3. PICK j \in 1..(m - 1) :
          /\ Takes(t[j], r)
          /\ \A k \in (j + 1)..(m - 1) : t[k] # r
    BY <2>2 DEF Held
  <2>4. Len(s) + j \in 1..(i - 1) /\ j \in 1..Len(t)
    BY <1>2, <2>1
  <2>5. st[Len(s) + j] = t[j]
    BY <1>1, <2>4
  <2>6. ASSUME NEW k \in (Len(s) + j + 1)..(i - 1)
        PROVE  st[k] # r
    <3>1. /\ k - Len(s) \in (j + 1)..(m - 1)
          /\ k - Len(s) \in 1..Len(t)
          /\ k = Len(s) + (k - Len(s))
      BY <1>2, <2>1
    <3>. QED
      BY <1>1, <2>3, <3>1
  <2>. QED
    BY <2>3, <2>4, <2>5, <2>6 DEF Held
<1>. QED
  BY <1>1, <1>2, <1>3, <1>4

LEMMA PairedConcat ==
  ASSUME NEW S, NEW s \in Seq(S), NEW t \in Seq(S),
         PausePaired(s), PausePaired(t)
  PROVE  PausePaired(s \o t)
PROOF
<1>. DEFINE st == s \o t
<1>1. /\ Len(st) = Len(s) + Len(t)
      /\ \A i \in 1..Len(s) : st[i] = s[i]
      /\ \A i \in 1..Len(t) : st[Len(s) + i] = t[i]
  BY Concat
<1>2. Len(s) \in Nat /\ Len(t) \in Nat
  BY LenProperties
<1>. HIDE DEF st
<1>. SUFFICES ASSUME NEW i \in 1..Len(st), st[i].op = "pause"
              PROVE  i < Len(st) /\ st[i + 1].op = "cancelAutomatic"
  BY DEF PausePaired, st
<1>3. CASE i <= Len(s)
  <2>1. i < Len(s) /\ s[i + 1].op = "cancelAutomatic"
    BY <1>1, <1>2, <1>3 DEF PausePaired
  <2>. QED
    BY <1>1, <1>2, <1>3, <2>1
<1>4. CASE i > Len(s)
  <2>1. /\ i - Len(s) \in 1..Len(t)
        /\ i = Len(s) + (i - Len(s))
        /\ i + 1 = Len(s) + (i - Len(s) + 1)
    BY <1>1, <1>2, <1>4
  <2>2. i - Len(s) < Len(t) /\ t[i - Len(s) + 1].op = "cancelAutomatic"
    BY <1>1, <2>1 DEF PausePaired
  <2>3. i - Len(s) + 1 \in 1..Len(t)
    BY <1>2, <2>1, <2>2
  <2>. QED
    BY <1>1, <1>2, <2>1, <2>2, <2>3
<1>. QED
  BY <1>1, <1>2, <1>3, <1>4

LEMMA NestedConcat ==
  ASSUME NEW S, NEW s \in Seq(S), NEW t \in Seq(S), Nested(s, 0), Nested(t, 0)
  PROVE  Nested(s \o t, 0)
PROOF
<1>. DEFINE st == s \o t
<1>1. /\ Len(st) = Len(s) + Len(t)
      /\ \A i \in 1..Len(s) : st[i] = s[i]
      /\ \A i \in 1..Len(t) : st[Len(s) + i] = t[i]
  BY Concat
<1>2. Len(s) \in Nat /\ Len(t) \in Nat
  BY LenProperties
<1>3. PICK ds : Fits(s, ds) /\ ds[1] = 0
  BY DEF Nested
<1>4. PICK dt : Fits(t, dt) /\ dt[1] = 0
  BY DEF Nested
<1>. DEFINE depth == [i \in 1..(Len(st) + 1) |->
                        IF i <= Len(s) THEN ds[i] ELSE dt[i - Len(s)]]
<1>. HIDE DEF st
<1>5. depth \in [1..(Len(st) + 1) -> Nat]
  <2>. SUFFICES ASSUME NEW i \in 1..(Len(st) + 1)
                PROVE  (IF i <= Len(s) THEN ds[i] ELSE dt[i - Len(s)]) \in Nat
    OBVIOUS
  <2>1. CASE i <= Len(s)
    BY <1>2, <1>3, <2>1 DEF Fits
  <2>2. CASE ~(i <= Len(s))
    <3>1. i - Len(s) \in 1..(Len(t) + 1)
      BY <1>1, <1>2, <2>2
    <3>. QED
      BY <1>4, <2>2, <3>1 DEF Fits
  <2>. QED
    BY <2>1, <2>2
<1>6. depth[Len(st) + 1] = 0
  BY <1>1, <1>2, <1>4 DEF Fits
<1>7. ASSUME NEW i \in 1..Len(st)
      PROVE  depth[i + 1] = depth[i] + Change(st[i])
  <2>1. CASE i < Len(s)
    BY <1>1, <1>2, <1>3, <2>1 DEF Fits
  <2>2. CASE i = Len(s)
    <3>1. ds[i + 1] = ds[i] + Change(s[i]) /\ ds[i + 1] = 0
      BY <1>2, <1>3, <2>2 DEF Fits
    <3>2. /\ i + 1 \in 1..(Len(st) + 1) /\ ~(i + 1 <= Len(s))
          /\ i + 1 - Len(s) = 1
      BY <1>1, <1>2, <2>2
    <3>3. depth[i + 1] = dt[1]
      BY <3>2
    <3>4. depth[i] = ds[i] /\ st[i] = s[i]
      BY <1>1, <1>2, <2>2
    <3>. HIDE DEF depth
    <3>. QED
      BY <1>4, <3>1, <3>3, <3>4
  <2>3. CASE i > Len(s)
    <3>. DEFINE m == i - Len(s)
    <3>1. m \in 1..Len(t) /\ i = Len(s) + m
      BY <1>1, <1>2, <2>3
    <3>2. /\ i + 1 \in 1..(Len(st) + 1) /\ ~(i + 1 <= Len(s))
          /\ i + 1 - Len(s) = m + 1
      BY <1>1, <1>2, <2>3
    <3>3. depth[i + 1] = dt[m + 1]
      BY <3>2
    <3>4. depth[i] = dt[m] /\ st[i] = t[m]
      BY <1>1, <1>2, <2>3, <3>1
    <3>. HIDE DEF m, depth
    <3>. QED
      BY <1>4, <3>1, <3>3, <3>4 DEF Fits
  <2>. QED
    BY <1>1, <1>2, <2>1, <2>2, <2>3
<1>8. ASSUME NEW i \in 1..Len(st), NEW j \in 1..Len(st), i <= j,
             st[j].op = "resume", \A k \in i..j : st[k].op # "pause"
      PROVE  depth[i] >= 1
  <2>1. CASE j <= Len(s)
    <3>1. i \in 1..Len(s) /\ j \in 1..Len(s) /\ depth[i] = ds[i]
      BY <1>1, <1>2, <1>8, <2>1
    <3>2. s[j].op = "resume"
      BY <1>1, <1>8, <3>1
    <3>3. ASSUME NEW k \in i..j
          PROVE  s[k].op # "pause"
      <4>1. k \in 1..Len(s)
        BY <1>2, <3>1
      <4>. QED
        BY <1>1, <1>8, <4>1
    <3>. HIDE DEF depth
    <3>. QED
      BY <1>3, <1>8, <3>1, <3>2, <3>3 DEF Fits
  <2>2. CASE j > Len(s)
    <3>. DEFINE m == j - Len(s)
    <3>1. m \in 1..Len(t) /\ j = Len(s) + m /\ t[m].op = "resume"
      BY <1>1, <1>2, <1>8, <2>2
    <3>2. CASE i <= Len(s)
      <4>1. ASSUME NEW k \in 1..m
            PROVE  t[k].op # "pause"
        <5>1. Len(s) + k \in i..j /\ k \in 1..Len(t)
          BY <1>2, <3>1, <3>2
        <5>. QED
          BY <1>1, <1>8, <5>1
      <4>2. 1 \in 1..Len(t) /\ 1 <= m
        BY <1>2, <3>1
      <4>3. dt[1] >= 1
        <5>. HIDE DEF m
        <5>. QED
          BY <1>4, <3>1, <4>1, <4>2 DEF Fits
      <4>. QED
        BY <1>4, <4>3
    <3>3. CASE i > Len(s)
      <4>. DEFINE n == i - Len(s)
      <4>1. /\ n \in 1..Len(t) /\ i = Len(s) + n /\ n <= m
            /\ depth[i] = dt[n]
        BY <1>1, <1>2, <1>8, <3>1, <3>3
      <4>2. ASSUME NEW k \in n..m
            PROVE  t[k].op # "pause"
        <5>1. Len(s) + k \in i..j /\ k \in 1..Len(t)
          BY <1>2, <3>1, <4>1
        <5>. QED
          BY <1>1, <1>8, <5>1
      <4>. HIDE DEF m, n, depth
      <4>. QED
        BY <1>4, <3>1, <4>1, <4>2 DEF Fits
    <3>. QED
      BY <1>1, <1>2, <3>2, <3>3
  <2>. QED
    BY <1>1, <1>2, <2>1, <2>2
<1>9. depth[1] = 0
  BY <1>1, <1>2, <1>3, <1>4
<1>. HIDE DEF depth
<1>10. Fits(st, depth)
  BY <1>5, <1>6, <1>7, <1>8 DEF Fits
<1>. QED
  BY <1>9, <1>10 DEF Nested, st

LEMMA RegularConcat ==
  ASSUME NEW locks, NEW s, NEW t, Regular(s, locks), Regular(t, locks)
  PROVE  Regular(s \o t, locks)
PROOF
<1>1. s \in Seq(StepsUpTo(locks)) /\ t \in Seq(StepsUpTo(locks))
  BY DEF Regular, RegularIn
<1>2. s \o t \in Seq(StepsUpTo(locks))
  BY <1>1, Concat
<1>3. Guarded(s \o t, {}) /\ PausePaired(s \o t) /\ Nested(s \o t, 0)
  BY <1>1, GuardedConcat, PairedConcat, NestedConcat DEF Regular, RegularIn
<1>. QED
  BY <1>2, <1>3 DEF Regular, RegularIn

-----------------------------------------------------------------------------
(* The ways programs are built.                                            *)

LEMMA EmptyRegular ==
  ASSUME NEW locks
  PROVE  Regular(<<>>, locks)
PROOF
<1>1. <<>> \in Seq(StepsUpTo(locks)) /\ Len(<<>>) = 0
  BY EmptySeq
<1>2. Nested(<<>>, 0)
  <2>1. \A i \in 1..Len(<<>>) : <<>>[i].op \notin {"pause", "resume"}
    BY <1>1
  <2>. QED
    BY <1>1, <2>1, FlatNested
<1>. QED
  BY <1>1, <1>2 DEF Regular, RegularIn, Guarded, PausePaired

(* One step that is about no lock and no pause, what it needs being held.  *)
LEMMA SingleRegular ==
  ASSUME NEW locks, NEW x \in StepsUpTo(locks), NEW held,
         x.op \notin {"unlock", "runlock", "pause", "resume"},
         \A r \in Releases : Needs(x, r) => r \in held
  PROVE  RegularIn(<<x>>, locks, held)
PROOF
<1>1. <<x>> \in Seq(StepsUpTo(locks)) /\ Len(<<x>>) = 1 /\ <<x>>[1] = x
  BY Single
<1>2. \A i \in 1..Len(<<x>>) : i = 1 /\ <<x>>[i] = x
  BY <1>1
<1>3. Guarded(<<x>>, held)
  <2>1. \A r \in Releases : Needs(x, r) => Held(<<x>>, 1, r, held)
    BY DEF Held
  <2>. QED
    BY <1>2, <2>1 DEF Guarded
<1>4. PausePaired(<<x>>)
  BY <1>2 DEF PausePaired
<1>5. Nested(<<x>>, 0)
  BY <1>1, <1>2, FlatNested
<1>. QED
  BY <1>1, <1>3, <1>4, <1>5 DEF RegularIn

(* A sequence that counts on a lock, between the steps that take it and    *)
(* give it back.                                                           *)
LEMMA GuardedBracket ==
  ASSUME NEW S, NEW take \in S, NEW give \in S, NEW body \in Seq(S), NEW held,
         take.op \in {"lock", "rlock"}, give \in Releases, Takes(take, give),
         Guarded(body, held \cup {give}),
         \A i \in 1..Len(body) : body[i] # give
  PROVE  Guarded(<<take>> \o body \o <<give>>, held)
PROOF
<1>. DEFINE s == <<take>> \o body \o <<give>>
            n == Len(body)
<1>1. /\ Len(s) = n + 2
      /\ s[1] = take
      /\ s[n + 2] = give
      /\ \A i \in 1..n : s[i + 1] = body[i]
  BY Bracket
<1>2. n \in Nat
  BY LenProperties
<1>. HIDE DEF s
<1>. SUFFICES ASSUME NEW i \in 1..Len(s), NEW r \in Releases, Needs(s[i], r)
              PROVE  Held(s, i, r, held)
  BY DEF Guarded, s
<1>3. i # 1
  <2>1. take \notin Releases
    BY DEF Releases
  <2>. QED
    BY <1>1, <2>1 DEF Needs
<1>4. \A k \in 1..(n + 1) : s[k] # give
  <2>. SUFFICES ASSUME NEW k \in 1..(n + 1)
                PROVE  s[k] # give
    OBVIOUS
  <2>1. CASE k = 1
    BY <1>1, <2>1 DEF Releases
  <2>2. CASE k # 1
    <3>1. k - 1 \in 1..n /\ k - 1 + 1 = k
      BY <1>2, <2>2
    <3>. QED
      BY <1>1, <3>1
  <2>. QED
    BY <2>1, <2>2
<1>. HIDE DEF n
<1>5. CASE r = give
  <2>1. \A k \in 2..(i - 1) : s[k] # give
    BY <1>1, <1>2, <1>4
  <2>2. 1 \in 1..(i - 1) /\ Takes(s[1], give)
    BY <1>1, <1>2, <1>3
  <2>. QED
    BY <1>5, <2>1, <2>2 DEF Held
<1>6. CASE r # give
  <2>1. i # n + 2
    BY <1>1, <1>6 DEF Needs, Releases
  <2>2. i - 1 \in 1..n /\ i - 1 + 1 = i
    BY <1>1, <1>2, <1>3, <2>1
  <2>3. Needs(body[i - 1], r)
    BY <1>1, <2>2
  <2>4. Held(body, i - 1, r, held \cup {give})
    BY <2>2, <2>3 DEF Guarded, n
  <2>5. CASE r \in held /\ \A k \in 1..(i - 1 - 1) : body[k] # r
    <3>1. ASSUME NEW k \in 1..(i - 1)
          PROVE  s[k] # r
      <4>1. CASE k = 1
        BY <1>1, <4>1 DEF Releases
      <4>2. CASE k # 1
        <5>1. k - 1 \in 1..(i - 1 - 1) /\ k - 1 \in 1..n /\ k - 1 + 1 = k
          BY <1>2, <2>2, <4>2
        <5>. QED
          BY <1>1, <2>5, <5>1
      <4>. QED
        BY <4>1, <4>2
    <3>. QED
      BY <2>5, <3>1 DEF Held
  <2>6. CASE \E j \in 1..(i - 1 - 1) :
               /\ Takes(body[j], r)
               /\ \A k \in (j + 1)..(i - 1 - 1) : body[k] # r
    <3>1. PICK j \in 1..(i - 1 - 1) :
            /\ Takes(body[j], r)
            /\ \A k \in (j + 1)..(i - 1 - 1) : body[k] # r
      BY <2>6
    <3>2. j + 1 \in 1..(i - 1) /\ j \in 1..n
      BY <1>2, <2>2
    <3>3. ASSUME NEW k \in (j + 1 + 1)..(i - 1)
          PROVE  s[k] # r
      <4>1. k - 1 \in (j + 1)..(i - 1 - 1) /\ k - 1 \in 1..n /\ k - 1 + 1 = k
        BY <1>2, <2>2
      <4>. QED
        BY <1>1, <3>1, <4>1
    <3>4. Takes(s[j + 1], r)
      BY <1>1, <3>1, <3>2
    <3>. QED
      BY <3>2, <3>3, <3>4 DEF Held
  <2>. QED
    BY <1>6, <2>4, <2>5, <2>6 DEF Held
<1>. QED
  BY <1>5, <1>6

LEMMA PairedBracket ==
  ASSUME NEW S, NEW x \in S, NEW y \in S, NEW body \in Seq(S),
         x.op # "pause", y.op # "pause", PausePaired(body)
  PROVE  PausePaired(<<x>> \o body \o <<y>>)
PROOF
<1>1. <<x>> \in Seq(S) /\ Len(<<x>>) = 1 /\ <<x>>[1] = x
  BY Single
<1>2. <<y>> \in Seq(S) /\ Len(<<y>>) = 1 /\ <<y>>[1] = y
  BY Single
<1>3. PausePaired(<<x>>) /\ PausePaired(<<y>>)
  BY <1>1, <1>2 DEF PausePaired
<1>4. <<x>> \o body \in Seq(S) /\ PausePaired(<<x>> \o body)
  BY <1>1, <1>3, Concat, PairedConcat
<1>. QED
  BY <1>2, <1>3, <1>4, PairedConcat

LEMMA NestedBracket ==
  ASSUME NEW S, NEW x \in S, NEW y \in S, NEW body \in Seq(S),
         x.op \notin {"pause", "resume"}, y.op \notin {"pause", "resume"},
         Nested(body, 0)
  PROVE  Nested(<<x>> \o body \o <<y>>, 0)
PROOF
<1>1. <<x>> \in Seq(S) /\ Len(<<x>>) = 1 /\ <<x>>[1] = x
  BY Single
<1>2. <<y>> \in Seq(S) /\ Len(<<y>>) = 1 /\ <<y>>[1] = y
  BY Single
<1>3. Nested(<<x>>, 0)
  <2>1. \A i \in 1..Len(<<x>>) : <<x>>[i].op \notin {"pause", "resume"}
    BY <1>1
  <2>. QED
    BY <1>1, <2>1, FlatNested
<1>4. Nested(<<y>>, 0)
  <2>1. \A i \in 1..Len(<<y>>) : <<y>>[i].op \notin {"pause", "resume"}
    BY <1>2
  <2>. QED
    BY <1>2, <2>1, FlatNested
<1>5. <<x>> \o body \in Seq(S) /\ Nested(<<x>> \o body, 0)
  BY <1>1, <1>3, Concat, NestedConcat
<1>. QED
  BY <1>2, <1>4, <1>5, NestedConcat

(* Between the steps that take and give back a lock that is not given back *)
(* within.                                                                 *)
LEMMA RegularBracket ==
  ASSUME NEW locks, NEW l \in Locks, l \notin locks, NEW held, NEW body,
         NEW take \in Steps, NEW give \in Steps,
         \/ take = On("lock", l) /\ give = On("unlock", l)
         \/ take = On("rlock", l) /\ give = On("runlock", l),
         RegularIn(body, locks, held \cup {give})
  PROVE  RegularIn(<<take>> \o body \o <<give>>, locks \cup {l}, held)
PROOF
<1>. DEFINE S == StepsUpTo(locks \cup {l})
<1>1. /\ take.op \in {"lock", "rlock"} /\ give.op \in {"unlock", "runlock"}
      /\ take.on = l /\ give.on = l
      /\ Takes(take, give)
  BY DEF On, Takes
<1>2. take \in S /\ give \in S /\ give \in Releases
  BY <1>1, ReleasesAre DEF StepsUpTo
<1>3. body \in Seq(S)
  <2>1. RegularIn(body, locks \cup {l}, held \cup {give})
    BY RegularMonotonic
  <2>. QED
    BY <2>1 DEF RegularIn
<1>4. \A i \in 1..Len(body) : body[i] # give
  <2>1. \A i \in 1..Len(body) : body[i] \in StepsUpTo(locks)
    BY ElementOfSeq DEF RegularIn
  <2>. QED
    BY <1>1, <2>1 DEF StepsUpTo
<1>. HIDE DEF S
<1>5. Guarded(<<take>> \o body \o <<give>>, held)
  BY <1>1, <1>2, <1>3, <1>4, GuardedBracket DEF RegularIn
<1>6. <<take>> \o body \o <<give>> \in Seq(S)
  BY <1>2, <1>3, Bracket
<1>7. /\ PausePaired(<<take>> \o body \o <<give>>)
      /\ Nested(<<take>> \o body \o <<give>>, 0)
  BY <1>1, <1>2, <1>3, PairedBracket, NestedBracket DEF RegularIn
<1>. QED
  BY <1>5, <1>6, <1>7 DEF RegularIn, S

LEMMA RegularLocked ==
  ASSUME NEW locks, NEW l \in Locks, l \notin locks, NEW held, NEW body,
         RegularIn(body, locks, held \cup {On("unlock", l)})
  PROVE  RegularIn(Locked(l, body), locks \cup {l}, held)
PROOF
<1>1. On("lock", l) \in Steps /\ On("unlock", l) \in Steps
  BY StepsOp DEF OpNames
<1>. QED
  BY <1>1, RegularBracket DEF Locked

LEMMA RegularRLocked ==
  ASSUME NEW locks, NEW l \in Locks, l \notin locks, NEW held, NEW body,
         RegularIn(body, locks, held \cup {On("runlock", l)})
  PROVE  RegularIn(RLocked(l, body), locks \cup {l}, held)
PROOF
<1>1. On("rlock", l) \in Steps /\ On("runlock", l) \in Steps
  BY StepsOp DEF OpNames
<1>. QED
  BY <1>1, RegularBracket DEF RLocked

(* What counts on less counts on no more.                                  *)
LEMMA RegularHolding ==
  ASSUME NEW t, NEW locks, NEW held, NEW more, RegularIn(t, locks, held),
         held \subseteq more
  PROVE  RegularIn(t, locks, more)
BY GuardedMonotonic DEF RegularIn

(* A sequence between pause and resume.                                    *)
LEMMA PausedNested ==
  ASSUME NEW S, NEW x \in S, NEW y \in S, NEW z \in S, NEW t \in Seq(S),
         x.op = "pause", y.op \notin {"pause", "resume"}, z.op = "resume",
         Nested(t, 0)
  PROVE  Nested(<<x, y>> \o t \o <<z>>, 0)
PROOF
<1>. DEFINE first == <<x, y>> \o t
            s == first \o <<z>>
            n == Len(t)
<1>1. n \in Nat
  BY LenProperties
<1>2. /\ <<x, y>> \in Seq(S) /\ Len(<<x, y>>) = 2
      /\ <<x, y>>[1] = x /\ <<x, y>>[2] = y
  OBVIOUS
<1>3. /\ first \in Seq(S)
      /\ Len(first) = 2 + n
      /\ \A i \in 1..2 : first[i] = <<x, y>>[i]
      /\ \A i \in 1..n : first[2 + i] = t[i]
  BY <1>2, Concat
<1>4. <<z>> \in Seq(S) /\ Len(<<z>>) = 1 /\ <<z>>[1] = z
  BY Single
<1>. HIDE DEF first
<1>5. /\ Len(s) = Len(first) + 1
      /\ \A i \in 1..Len(first) : s[i] = first[i]
      /\ \A i \in 1..1 : s[Len(first) + i] = <<z>>[i]
  BY <1>3, <1>4, Concat
<1>. HIDE DEF s, n
<1>6. /\ Len(s) = n + 3
      /\ s[1] = x
      /\ s[2] = y
      /\ s[n + 3] = z
  BY <1>1, <1>2, <1>3, <1>4, <1>5
<1>7. \A i \in 1..n : s[i + 2] = t[i]
  BY <1>1, <1>3, <1>5
<1>8. PICK d : Fits(t, d) /\ d[1] = 0
  BY DEF Nested
<1>9. /\ d \in [1..(n + 1) -> Nat]
      /\ d[n + 1] = 0
      /\ \A i \in 1..n : d[i + 1] = d[i] + Change(t[i])
  BY <1>8 DEF Fits, n
<1>. DEFINE depth == [i \in 1..(n + 4) |->
                        IF i \in {1, n + 4} THEN 0
                        ELSE IF i = 2 THEN 1 ELSE d[i - 2] + 1]
<1>10. \A i \in 3..(n + 3) : depth[i] = d[i - 2] + 1 /\ d[i - 2] \in Nat
  <2>. SUFFICES ASSUME NEW i \in 3..(n + 3)
                PROVE  depth[i] = d[i - 2] + 1 /\ d[i - 2] \in Nat
    OBVIOUS
  <2>1. i - 2 \in 1..(n + 1) /\ i \in 1..(n + 4) /\ i \notin {1, 2, n + 4}
    BY <1>1
  <2>. QED
    BY <1>9, <2>1
<1>11. depth[1] = 0 /\ depth[2] = 1 /\ depth[n + 4] = 0
  BY <1>1
<1>12. DOMAIN depth = 1..(n + 4)
  OBVIOUS
<1>13. depth = [i \in DOMAIN depth |-> depth[i]]
  OBVIOUS
<1>. HIDE DEF depth
<1>14. depth \in [1..(n + 4) -> Nat]
  <2>1. ASSUME NEW i \in 1..(n + 4)
        PROVE  depth[i] \in Nat
    <3>1. i \in 3..(n + 3) \/ i = 1 \/ i = 2 \/ i = n + 4
      BY <1>1
    <3>. QED
      BY <1>10, <1>11, <3>1
  <2>. QED
    BY <1>12, <1>13, <2>1
<1>15. ASSUME NEW i \in 1..(n + 3)
       PROVE  depth[i + 1] = depth[i] + Change(s[i])
  <2>1. CASE i = 1
    BY <1>6, <1>11, <2>1 DEF Change
  <2>2. CASE i = 2
    <3>1. depth[3] = d[1] + 1
      BY <1>1, <1>10
    <3>. QED
      BY <1>6, <1>8, <1>11, <2>2, <3>1 DEF Change
  <2>3. CASE i = n + 3
    <3>1. depth[n + 3] = d[n + 1] + 1
      BY <1>1, <1>10
    <3>2. depth[n + 3 + 1] = 0
      BY <1>1, <1>11
    <3>. QED
      BY <1>1, <1>6, <1>9, <2>3, <3>1, <3>2 DEF Change
  <2>4. CASE i \in 3..(n + 2)
    <3>. DEFINE m == i - 2
    <3>1. m \in 1..n /\ m + 2 = i /\ i + 1 - 2 = m + 1
          /\ i \in 3..(n + 3) /\ i + 1 \in 3..(n + 3)
      BY <1>1, <2>4
    <3>2. s[i] = t[m]
      BY <1>7, <3>1
    <3>3. d[m + 1] = d[m] + Change(t[m])
      BY <1>9, <3>1
    <3>4. depth[i] = d[m] + 1 /\ depth[i + 1] = d[m + 1] + 1
      BY <1>10, <3>1
    <3>5. d[m] \in Nat /\ Change(t[m]) \in {-1, 0, 1}
      BY <1>10, <3>1 DEF Change
    <3>. QED
      BY <3>2, <3>3, <3>4, <3>5
  <2>. QED
    BY <1>1, <2>1, <2>2, <2>3, <2>4
<1>16. ASSUME NEW i \in 1..(n + 3), NEW j \in 1..(n + 3), i <= j,
              \A k \in i..j : s[k].op # "pause"
       PROVE  depth[i] >= 1
  <2>1. i # 1
    BY <1>6, <1>16
  <2>2. CASE i = 2
    BY <1>11, <2>2
  <2>3. CASE i \in 3..(n + 3)
    BY <1>10, <2>3
  <2>. QED
    BY <1>1, <2>1, <2>2, <2>3
<1>17. Fits(s, depth)
  <2>1. Len(s) = n + 3 /\ Len(s) + 1 = n + 4
    BY <1>1, <1>6
  <2>2. depth \in [1..(Len(s) + 1) -> Nat] /\ depth[Len(s) + 1] = 0
    BY <1>11, <1>14, <2>1
  <2>3. \A i \in 1..Len(s) : depth[i + 1] = depth[i] + Change(s[i])
    BY <1>15, <2>1
  <2>4. \A i, j \in 1..Len(s) :
          /\ i <= j /\ s[j].op = "resume"
          /\ \A k \in i..j : s[k].op # "pause"
          => depth[i] >= 1
    BY <1>16, <2>1
  <2>. QED
    BY <2>2, <2>3, <2>4 DEF Fits
<1>. QED
  BY <1>11, <1>17 DEF Nested, s, first

LEMMA RegularPaused ==
  ASSUME NEW locks, NEW t, Regular(t, locks)
  PROVE  Regular(Preempt \o t \o <<Op("resume")>>, locks)
PROOF
<1>. DEFINE S == StepsUpTo(locks)
<1>1. /\ Op("pause") \in S /\ Op("cancelAutomatic") \in S
      /\ Op("resume") \in S
  BY StepsOp DEF StepsUpTo, OpNames, Op
<1>2. /\ Op("pause").op = "pause"
      /\ Op("cancelAutomatic").op = "cancelAutomatic"
      /\ Op("resume").op = "resume"
  BY DEF Op
<1>3. /\ Preempt \in Seq(S) /\ Len(Preempt) = 2
      /\ Preempt[1] = Op("pause") /\ Preempt[2] = Op("cancelAutomatic")
  BY <1>1 DEF Preempt
<1>4. /\ <<Op("resume")>> \in Seq(S) /\ Len(<<Op("resume")>>) = 1
      /\ <<Op("resume")>>[1] = Op("resume")
  BY <1>1, Single
<1>. HIDE DEF S
<1>5. Guarded(Preempt, {}) /\ PausePaired(Preempt)
  <2>1. \A i \in 1..Len(Preempt) :
          Preempt[i].op \notin {"unlock", "runlock", "reload", "request"}
    BY <1>2, <1>3
  <2>2. Guarded(Preempt, {})
    BY <2>1 DEF Guarded, Needs, Releases
  <2>3. PausePaired(Preempt)
    BY <1>2, <1>3 DEF PausePaired
  <2>. QED
    BY <2>2, <2>3
<1>6. Guarded(<<Op("resume")>>, {}) /\ PausePaired(<<Op("resume")>>)
  <2>1. \A i \in 1..Len(<<Op("resume")>>) :
          <<Op("resume")>>[i].op = "resume"
    BY <1>2, <1>4
  <2>2. Guarded(<<Op("resume")>>, {})
    BY <2>1 DEF Guarded, Needs, Releases
  <2>3. PausePaired(<<Op("resume")>>)
    BY <2>1 DEF PausePaired
  <2>. QED
    BY <2>2, <2>3
<1>7. t \in Seq(S) /\ Guarded(t, {}) /\ PausePaired(t) /\ Nested(t, 0)
  BY DEF Regular, RegularIn, S
<1>8. /\ Preempt \o t \in Seq(S)
      /\ Guarded(Preempt \o t, {}) /\ PausePaired(Preempt \o t)
  BY <1>3, <1>5, <1>7, Concat, GuardedConcat, PairedConcat
<1>9. /\ Preempt \o t \o <<Op("resume")>> \in Seq(S)
      /\ Guarded(Preempt \o t \o <<Op("resume")>>, {})
      /\ PausePaired(Preempt \o t \o <<Op("resume")>>)
  BY <1>4, <1>6, <1>8, Concat, GuardedConcat, PairedConcat
<1>10. Nested(Preempt \o t \o <<Op("resume")>>, 0)
  BY <1>1, <1>2, <1>7, PausedNested DEF Preempt
<1>. QED
  BY <1>9, <1>10 DEF Regular, RegularIn, S

-----------------------------------------------------------------------------
(* The programs.                                                           *)

LEMMA ReloadRegular ==
  Regular(WithChecksPaused(<<Op("reload")>>), {"checkCycleMu", "runtimeMu"})
PROOF
<1>. DEFINE body == <<Op("reload")>>
            inner == Locked("runtimeMu", body)
            freed == On("unlock", "runtimeMu")
<1>1. "runtimeMu" \in Locks /\ "checkCycleMu" \in Locks
  BY DEF Locks, RWLocks
<1>2. RegularIn(body, {}, {freed})
  <2>1. Op("reload") \in StepsUpTo({}) /\ Op("reload").op = "reload"
    BY StepsOp DEF StepsUpTo, OpNames, Op
  <2>2. \A r \in Releases : Needs(Op("reload"), r) => r \in {freed}
    BY <2>1 DEF Needs, Releases
  <2>. QED
    BY <2>1, <2>2, SingleRegular
<1>. HIDE DEF body, freed
<1>3. RegularIn(inner, {} \cup {"runtimeMu"}, {})
  <2>1. {} \cup {freed} = {freed} /\ "runtimeMu" \notin {}
    OBVIOUS
  <2>. QED
    BY <1>1, <1>2, <2>1, RegularLocked DEF freed
<1>. HIDE DEF inner
<1>4. RegularIn(Locked("checkCycleMu", inner), {"runtimeMu"} \cup {"checkCycleMu"}, {})
  <2>1. RegularIn(inner, {"runtimeMu"}, {} \cup {On("unlock", "checkCycleMu")})
    <3>1. {} \cup {"runtimeMu"} = {"runtimeMu"}
      OBVIOUS
    <3>. QED
      BY <1>3, <3>1, RegularHolding
  <2>. QED
    BY <1>1, <2>1, RegularLocked
<1>5. Regular(Locked("checkCycleMu", inner), {"checkCycleMu", "runtimeMu"})
  BY <1>4, RegularMonotonic DEF Regular
<1>6. Regular(Preempt \o Locked("checkCycleMu", inner) \o <<Op("resume")>>,
              {"checkCycleMu", "runtimeMu"})
  BY <1>5, RegularPaused
<1>. QED
  BY <1>6 DEF WithChecksPaused, inner, body

(* The locks below updater.mu, and those below manualPriorityMu.           *)
CycleLocks == {"checkCycleMu", "runtimeMu", "proxyCheckLock", "slot"}
UpdateLocks == CycleLocks \cup {"updater.mu"}
PinLocks == {"runtimeMu", "proxyCheckLock", "slot"}

LEMMA LocksAre ==
  /\ CycleLocks \subseteq UpdateLocks /\ UpdateLocks \subseteq Locks
  /\ PinLocks \subseteq CycleLocks /\ {"slot"} \subseteq Locks
  /\ "slot" \in Locks /\ "proxyCheckLock" \in Locks /\ "runtimeMu" \in Locks
  /\ "checkCycleMu" \in Locks /\ "updater.mu" \in Locks
  /\ "manualPriorityMu" \in Locks /\ "deliveryMu" \in Locks
BY DEF Locks, RWLocks, UpdateLocks, CycleLocks, PinLocks

(* A request through Xray counts on its runtime being pinned.              *)
LEMMA MeasureRegular ==
  /\ Regular(DirectProbe, {"slot"})
  /\ Regular(RLocked("runtimeMu", ProxyProbe), PinLocks)
  /\ Regular(CheckProxySetInRuntime, PinLocks)
  /\ Regular(CheckProxySet, CycleLocks)
PROOF
<1>. DEFINE pin == On("runlock", "runtimeMu")
<1>1. Regular(DirectProbe, {"slot"})
  <2>1. RegularIn(<<>>, {}, {} \cup {On("unlock", "slot")})
    BY EmptyRegular, RegularHolding DEF Regular
  <2>2. RegularIn(DirectProbe, {} \cup {"slot"}, {})
    BY <2>1, LocksAre, RegularLocked DEF DirectProbe
  <2>. QED
    BY <2>2, RegularMonotonic DEF Regular
<1>2. RegularIn(<<Op("request")>>, {}, {pin})
  <2>1. Op("request") \in StepsUpTo({}) /\ Op("request").op = "request"
    BY StepsOp DEF StepsUpTo, OpNames, Op
  <2>2. \A r \in Releases : Needs(Op("request"), r) => r \in {pin}
    BY <2>1 DEF Needs, Releases
  <2>. QED
    BY <2>1, <2>2, SingleRegular
<1>. HIDE DEF pin
<1>3. RegularIn(ProxyProbe, {"slot"}, {pin})
  <2>1. RegularIn(<<Op("request")>>, {}, {pin} \cup {On("unlock", "slot")})
    BY <1>2, RegularHolding
  <2>2. RegularIn(ProxyProbe, {} \cup {"slot"}, {pin})
    BY <2>1, LocksAre, RegularLocked DEF ProxyProbe
  <2>. QED
    BY <2>2, RegularMonotonic
<1>4. RegularIn(Measure, {"slot"} \cup {"proxyCheckLock"}, {pin})
  <2>1. RegularIn(ProxyProbe, {"slot"}, {pin} \cup {On("unlock", "proxyCheckLock")})
    BY <1>3, RegularHolding
  <2>. QED
    BY <2>1, LocksAre, RegularLocked DEF Measure
<1>5. {} \cup {pin} = {pin}
  OBVIOUS
<1>6. Regular(RLocked("runtimeMu", ProxyProbe), PinLocks)
  <2>1. RegularIn(RLocked("runtimeMu", ProxyProbe), {"slot"} \cup {"runtimeMu"}, {})
    BY <1>3, <1>5, LocksAre, RegularRLocked DEF pin
  <2>2. {"slot"} \cup {"runtimeMu"} \subseteq PinLocks
    BY DEF PinLocks
  <2>. QED
    BY <2>1, <2>2, RegularMonotonic DEF Regular
<1>7. Regular(CheckProxySetInRuntime, PinLocks)
  <2>1. "runtimeMu" \notin {"slot"} \cup {"proxyCheckLock"}
    OBVIOUS
  <2>2. RegularIn(CheckProxySetInRuntime,
                  {"slot"} \cup {"proxyCheckLock"} \cup {"runtimeMu"}, {})
    BY <1>4, <1>5, <2>1, LocksAre, RegularRLocked
       DEF pin, CheckProxySetInRuntime
  <2>3. {"slot"} \cup {"proxyCheckLock"} \cup {"runtimeMu"} \subseteq PinLocks
    BY DEF PinLocks
  <2>. QED
    BY <2>2, <2>3, RegularMonotonic DEF Regular
<1>8. Regular(CheckProxySet, CycleLocks)
  <2>1. RegularIn(CheckProxySetInRuntime, PinLocks,
                  {} \cup {On("unlock", "checkCycleMu")})
    BY <1>7, RegularHolding DEF Regular
  <2>2. RegularIn(CheckProxySet, PinLocks \cup {"checkCycleMu"}, {})
    BY <2>1, LocksAre, RegularLocked DEF CheckProxySet, PinLocks
  <2>3. PinLocks \cup {"checkCycleMu"} \subseteq CycleLocks
    BY DEF PinLocks, CycleLocks
  <2>. QED
    BY <2>2, <2>3, RegularMonotonic DEF Regular
<1>. QED
  BY <1>1, <1>6, <1>7, <1>8

LEMMA RefreshRegular ==
  ASSUME NEW r \in Refresh
  PROVE  Regular(r, UpdateLocks)
PROOF
<1>. DEFINE reload == WithChecksPaused(<<Op("reload")>>)
<1>1. PICK steps \in {<<>>, reload, reload \o CheckProxySet},
           dns \in {<<>>, CheckProxySet} :
        r = Locked("updater.mu", steps \o dns)
  BY DEF Refresh
<1>2. Regular(reload, CycleLocks)
  BY ReloadRegular, RegularMonotonic DEF CycleLocks, Regular
<1>. HIDE DEF reload
<1>3. Regular(reload \o CheckProxySet, CycleLocks)
  BY <1>2, MeasureRegular, RegularConcat
<1>4. Regular(steps, CycleLocks) /\ Regular(dns, CycleLocks)
  BY <1>1, <1>2, <1>3, MeasureRegular, EmptyRegular
<1>5. Regular(steps \o dns, CycleLocks)
  BY <1>4, RegularConcat
<1>6. "updater.mu" \in Locks /\ "updater.mu" \notin CycleLocks
  BY DEF Locks, CycleLocks
<1>7. RegularIn(steps \o dns, CycleLocks, {} \cup {On("unlock", "updater.mu")})
  BY <1>5, RegularHolding DEF Regular
<1>. QED
  BY <1>1, <1>6, <1>7, RegularLocked DEF UpdateLocks, Regular

LEMMA ManualRegular ==
  ASSUME NEW body, Regular(body, UpdateLocks)
  PROVE  Regular(WithManualPriority(body), Locks)
PROOF
<1>1. "manualPriorityMu" \in Locks /\ "manualPriorityMu" \notin UpdateLocks
  BY DEF Locks, RWLocks, UpdateLocks, CycleLocks
<1>2. UpdateLocks \cup {"manualPriorityMu"} \subseteq Locks
  BY LocksAre
<1>3. RegularIn(body, UpdateLocks, {} \cup {On("unlock", "manualPriorityMu")})
  BY RegularHolding DEF Regular
<1>4. Regular(Locked("manualPriorityMu", body), Locks)
  BY <1>1, <1>2, <1>3, RegularLocked, RegularMonotonic DEF Regular
<1>. QED
  BY <1>4, RegularPaused DEF WithManualPriority

LEMMA DeliverRegular == Regular(Deliver, Locks)
PROOF
<1>1. RegularIn(<<Op("deliver")>>, {}, {} \cup {On("unlock", "deliveryMu")})
  <2>1. Op("deliver") \in StepsUpTo({}) /\ Op("deliver").op = "deliver"
    BY StepsOp DEF StepsUpTo, OpNames, Op
  <2>2. \A r \in Releases : ~Needs(Op("deliver"), r)
    BY <2>1 DEF Needs, Releases
  <2>. QED
    BY <2>1, <2>2, SingleRegular
<1>2. RegularIn(Deliver, {} \cup {"deliveryMu"}, {})
  BY <1>1, LocksAre, RegularLocked DEF Deliver
<1>. QED
  BY <1>2, LocksAre, RegularMonotonic DEF Regular

Diagnoses == {"diagnose", "automatic"}

(* Every program but the diagnoses gives back only what it holds, reloads  *)
(* under runtimeMu and asks Xray while it reads it, refuses automatic work *)
(* before it cancels what runs, and lifts every pause of its own.          *)
LEMMA ProgramsRegular ==
  ASSUME NEW kind \in Kinds \ Diagnoses, NEW program \in Program(kind)
  PROVE  Regular(program, Locks)
PROOF
<1>1. /\ CycleLocks \subseteq Locks /\ PinLocks \subseteq Locks
      /\ UpdateLocks \subseteq Locks /\ PinLocks \subseteq UpdateLocks
  BY LocksAre
<1>2. /\ Regular(CheckProxySet, Locks)
      /\ Regular(CheckProxySetInRuntime, UpdateLocks)
      /\ Regular(DirectProbe, Locks)
      /\ Regular(RLocked("runtimeMu", ProxyProbe), Locks)
  BY <1>1, LocksAre, MeasureRegular, RegularMonotonic DEF Regular
<1>3. CASE kind = "scheduler"
  BY <1>2, <1>3 DEF Program
<1>4. CASE kind = "refresh"
  <2>1. program \in Refresh
    BY <1>4 DEF Program
  <2>. QED
    BY <1>1, <2>1, RefreshRegular, RegularMonotonic DEF Regular
<1>5. CASE kind = "recheck"
  <2>1. program = WithManualPriority(CheckProxySetInRuntime)
    BY <1>5 DEF Program
  <2>. QED
    BY <1>2, <2>1, ManualRegular
<1>6. CASE kind = "verify"
  <2>1. program \in VerifyReplacement
    BY <1>6 DEF Program
  <2>2. PICK refresh \in Refresh, check \in {<<>>, CheckProxySetInRuntime} :
          program = WithManualPriority(refresh \o check)
    BY <2>1 DEF VerifyReplacement
  <2>3. Regular(refresh, UpdateLocks) /\ Regular(check, UpdateLocks)
    BY <1>2, <2>2, RefreshRegular, EmptyRegular
  <2>4. Regular(refresh \o check, UpdateLocks)
    BY <2>3, RegularConcat
  <2>. QED
    BY <2>2, <2>4, ManualRegular
<1>7. CASE kind = "access"
  <2>1. program \in {DirectProbe,
                     DirectProbe \o RLocked("runtimeMu", ProxyProbe)}
    BY <1>7 DEF Program, AccessCheck
  <2>2. Regular(DirectProbe \o RLocked("runtimeMu", ProxyProbe), Locks)
    BY <1>2, RegularConcat
  <2>. QED
    BY <1>2, <2>1, <2>2
<1>8. CASE kind = "deliver"
  BY <1>8, DeliverRegular DEF Program
<1>. QED
  BY <1>3, <1>4, <1>5, <1>6, <1>7, <1>8 DEF Kinds, Diagnoses

-----------------------------------------------------------------------------
(* What is left of a program as it is performed.                           *)

LEMMA GuardedRest ==
  ASSUME NEW S, NEW t \in Seq(S), t # <<>>, NEW held, NEW kept,
         Guarded(t, held),
         \A r \in held : r \in kept \/ r = t[1],
         \A r \in Releases : Takes(t[1], r) => r \in kept
  PROVE  Guarded(Tail(t), kept)
PROOF
<1>. DEFINE rest == Tail(t)
<1>1. /\ Len(t) \in Nat \ {0}
      /\ Len(rest) = Len(t) - 1
      /\ \A i \in 1..(Len(t) - 1) : rest[i] = t[i + 1]
  BY Rest
<1>. HIDE DEF rest
<1>. SUFFICES ASSUME NEW i \in 1..Len(rest), NEW r \in Releases,
                     Needs(rest[i], r)
              PROVE  Held(rest, i, r, kept)
  BY DEF Guarded, rest
<1>2. i + 1 \in 1..Len(t) /\ rest[i] = t[i + 1]
  BY <1>1
<1>3. Held(t, i + 1, r, held)
  BY <1>2 DEF Guarded
<1>4. ASSUME NEW from \in Nat, \A k \in (from + 1)..i : t[k] # r
      PROVE  \A k \in from..(i - 1) : k >= 1 => rest[k] # r
  <2>. SUFFICES ASSUME NEW k \in from..(i - 1), k >= 1
                PROVE  rest[k] # r
    OBVIOUS
  <2>1. k \in 1..(Len(t) - 1) /\ k + 1 \in (from + 1)..i
    BY <1>1
  <2>. QED
    BY <1>1, <1>4, <2>1
<1>5. CASE r \in held /\ \A k \in 1..(i + 1 - 1) : t[k] # r
  <2>1. r \in kept
    <3>1. 1 \in 1..(i + 1 - 1)
      BY <1>1
    <3>. QED
      BY <1>5, <3>1
  <2>2. \A k \in (0 + 1)..i : t[k] # r
    BY <1>1, <1>5
  <2>3. \A k \in 0..(i - 1) : k >= 1 => rest[k] # r
    BY <1>4, <2>2
  <2>. QED
    BY <1>1, <2>1, <2>3 DEF Held
<1>6. CASE \E j \in 1..(i + 1 - 1) :
             /\ Takes(t[j], r)
             /\ \A k \in (j + 1)..(i + 1 - 1) : t[k] # r
  <2>1. PICK j \in 1..i :
          /\ Takes(t[j], r)
          /\ \A k \in (j + 1)..i : t[k] # r
    BY <1>1, <1>6
  <2>2. \A k \in j..(i - 1) : k >= 1 => rest[k] # r
    BY <1>4, <2>1
  <2>3. CASE j = 1
    <3>1. r \in kept
      BY <2>1, <2>3
    <3>. QED
      BY <1>1, <2>2, <2>3, <3>1 DEF Held
  <2>4. CASE j # 1
    <3>1. j - 1 \in 1..(i - 1) /\ rest[j - 1] = t[j] /\ j - 1 + 1 = j
      BY <1>1, <2>4
    <3>2. \A k \in (j - 1 + 1)..(i - 1) : rest[k] # r
      BY <2>2, <3>1
    <3>. QED
      BY <2>1, <3>1, <3>2 DEF Held
  <2>. QED
    BY <2>3, <2>4
<1>. QED
  BY <1>3, <1>5, <1>6 DEF Held

LEMMA PairedRest ==
  ASSUME NEW S, NEW t \in Seq(S), t # <<>>, PausePaired(t)
  PROVE  PausePaired(Tail(t))
PROOF
<1>. DEFINE r == Tail(t)
<1>1. /\ Len(t) \in Nat \ {0}
      /\ Len(r) = Len(t) - 1
      /\ \A i \in 1..(Len(t) - 1) : r[i] = t[i + 1]
  BY Rest
<1>. HIDE DEF r
<1>. SUFFICES ASSUME NEW i \in 1..Len(r), r[i].op = "pause"
              PROVE  i < Len(r) /\ r[i + 1].op = "cancelAutomatic"
  BY DEF PausePaired, r
<1>2. i + 1 \in 1..Len(t) /\ t[i + 1].op = "pause"
  BY <1>1
<1>3. i + 1 < Len(t) /\ t[i + 1 + 1].op = "cancelAutomatic"
  BY <1>2 DEF PausePaired
<1>4. i + 1 \in 1..(Len(t) - 1)
  BY <1>1, <1>3
<1>. QED
  BY <1>1, <1>3, <1>4

LEMMA NestedRest ==
  ASSUME NEW S, NEW t \in Seq(S), t # <<>>, NEW d, Nested(t, d)
  PROVE  /\ d \in Nat
         /\ d + Change(t[1]) \in Nat
         /\ Nested(Tail(t), d + Change(t[1]))
PROOF
<1>. DEFINE r == Tail(t)
<1>1. /\ Len(t) \in Nat \ {0}
      /\ Len(r) = Len(t) - 1
      /\ \A i \in 1..(Len(t) - 1) : r[i] = t[i + 1]
  BY Rest
<1>. HIDE DEF r
<1>2. PICK depth : Fits(t, depth) /\ depth[1] = d
  BY DEF Nested
<1>3. /\ depth \in [1..(Len(t) + 1) -> Nat]
      /\ depth[Len(t) + 1] = 0
      /\ \A i \in 1..Len(t) : depth[i + 1] = depth[i] + Change(t[i])
      /\ \A i, j \in 1..Len(t) :
           /\ i <= j /\ t[j].op = "resume"
           /\ \A k \in i..j : t[k].op # "pause"
           => depth[i] >= 1
  BY <1>2 DEF Fits
<1>. DEFINE later == [i \in 1..Len(t) |-> depth[i + 1]]
<1>4. d \in Nat /\ depth[2] = d + Change(t[1]) /\ depth[2] \in Nat
  <2>1. 1 \in 1..Len(t) /\ 1 + 1 = 2
        /\ 1 \in 1..(Len(t) + 1) /\ 2 \in 1..(Len(t) + 1)
    BY <1>1
  <2>. QED
    BY <1>2, <1>3, <2>1
<1>5. /\ later \in [1..(Len(r) + 1) -> Nat]
      /\ later[Len(r) + 1] = 0
      /\ later[1] = depth[2]
      /\ \A i \in 1..Len(t) : later[i] = depth[i + 1]
  BY <1>1, <1>3
<1>. HIDE DEF later
<1>6. ASSUME NEW i \in 1..Len(r)
      PROVE  later[i + 1] = later[i] + Change(r[i])
  <2>1. i \in 1..Len(t) /\ i + 1 \in 1..Len(t) /\ r[i] = t[i + 1]
    BY <1>1
  <2>. QED
    BY <1>3, <1>5, <2>1
<1>7. ASSUME NEW i \in 1..Len(r), NEW j \in 1..Len(r), i <= j,
             r[j].op = "resume", \A k \in i..j : r[k].op # "pause"
      PROVE  later[i] >= 1
  <2>1. /\ i \in 1..Len(t) /\ i + 1 \in 1..Len(t) /\ j + 1 \in 1..Len(t)
        /\ t[j + 1].op = "resume" /\ i + 1 <= j + 1
    BY <1>1, <1>7
  <2>2. ASSUME NEW k \in (i + 1)..(j + 1)
        PROVE  t[k].op # "pause"
    <3>1. /\ k - 1 \in i..j /\ k - 1 \in 1..(Len(t) - 1)
          /\ k - 1 + 1 = k
      BY <1>1
    <3>. QED
      BY <1>1, <1>7, <3>1
  <2>. QED
    BY <1>3, <1>5, <2>1, <2>2
<1>8. Fits(r, later)
  BY <1>5, <1>6, <1>7 DEF Fits
<1>. QED
  BY <1>4, <1>5, <1>8 DEF Nested, r

LEMMA NestedEmpty ==
  ASSUME NEW d, Nested(<<>>, d)
  PROVE  d = 0
PROOF
<1>1. Len(<<>>) = 0
  BY EmptySeq
<1>. QED
  BY <1>1 DEF Nested, Fits

Resumes(t) == \E i \in DOMAIN t : t[i].op = "resume"
Cancels(t) == \E i \in DOMAIN t : t[i].op = "cancelAutomatic"

(* Who has still to resume and not to cancel has paused.                   *)
LEMMA NestedPausing ==
  ASSUME NEW S, NEW t \in Seq(S), NEW d, Nested(t, d), PausePaired(t),
         Resumes(t), ~Cancels(t)
  PROVE  d >= 1
PROOF
<1>1. Len(t) \in Nat /\ DOMAIN t = 1..Len(t)
  BY LenProperties
<1>2. PICK j \in 1..Len(t) : t[j].op = "resume"
  BY <1>1 DEF Resumes
<1>3. ASSUME NEW k \in 1..j
      PROVE  t[k].op # "pause"
  <2>1. SUFFICES ASSUME t[k].op = "pause"
                 PROVE  FALSE
    OBVIOUS
  <2>2. k \in 1..Len(t) /\ k < Len(t) /\ t[k + 1].op = "cancelAutomatic"
    BY <1>1, <2>1 DEF PausePaired
  <2>3. k + 1 \in DOMAIN t
    BY <1>1, <2>2
  <2>. QED
    BY <2>2, <2>3 DEF Cancels
<1>4. PICK depth : Fits(t, depth) /\ depth[1] = d
  BY DEF Nested
<1>5. 1 \in 1..Len(t) /\ 1 <= j
  BY <1>1
<1>. QED
  BY <1>2, <1>3, <1>4, <1>5 DEF Fits

(* What is still to be done was to be done before.                         *)
LEMMA OpsRest ==
  ASSUME NEW S, NEW t \in Seq(S), t # <<>>
  PROVE  /\ Resumes(Tail(t)) => Resumes(t)
         /\ ~Cancels(Tail(t)) => ~Cancels(t) \/ t[1].op = "cancelAutomatic"
PROOF
<1>1. /\ Len(t) \in Nat \ {0}
      /\ Tail(t) \in Seq(S)
      /\ Len(Tail(t)) = Len(t) - 1
      /\ \A i \in 1..(Len(t) - 1) : Tail(t)[i] = t[i + 1]
  BY Rest
<1>2. DOMAIN Tail(t) = 1..(Len(t) - 1) /\ DOMAIN t = 1..Len(t)
  BY <1>1, LenProperties
<1>3. Resumes(Tail(t)) => Resumes(t)
  <2>. SUFFICES ASSUME NEW i \in DOMAIN Tail(t), Tail(t)[i].op = "resume"
                PROVE  Resumes(t)
    BY DEF Resumes
  <2>1. i + 1 \in DOMAIN t /\ t[i + 1].op = "resume"
    BY <1>1, <1>2
  <2>. QED
    BY <2>1 DEF Resumes
<1>4. ASSUME Cancels(t), t[1].op # "cancelAutomatic"
      PROVE  Cancels(Tail(t))
  <2>1. PICK i \in DOMAIN t : t[i].op = "cancelAutomatic"
    BY <1>4 DEF Cancels
  <2>2. i - 1 \in DOMAIN Tail(t) /\ i - 1 + 1 = i
    BY <1>1, <1>2, <1>4, <2>1
  <2>. QED
    BY <1>1, <1>2, <2>1, <2>2 DEF Cancels
<1>. QED
  BY <1>3, <1>4

-----------------------------------------------------------------------------
(* The program of a diagnosis.                                             *)

LEMMA DiagnosisSteps ==
  /\ Diagnosis \in Seq(Steps)
  /\ Len(Diagnosis) = 11
  /\ Diagnosis[1] = On("rlock", "manualPriorityMu")
  /\ Diagnosis[2] = Op("begin")
  /\ Diagnosis[3] = On("rlock", "runtimeMu")
  /\ Diagnosis[4] = On("lock", "proxyCheckLock")
  /\ Diagnosis[5] = On("try", "slot")
  /\ Diagnosis[6] = Op("request")
  /\ Diagnosis[7] = On("unlock", "slot")
  /\ Diagnosis[8] = On("unlock", "proxyCheckLock")
  /\ Diagnosis[9] = On("runlock", "runtimeMu")
  /\ Diagnosis[10] = Op("end")
  /\ Diagnosis[11] = On("runlock", "manualPriorityMu")
PROOF
<1>. DEFINE probe == Locked("proxyCheckLock", TriedProbe)
            pinned == RLocked("runtimeMu", probe)
            judged == <<Op("begin")>> \o pinned \o <<Op("end")>>
<1>1. /\ Op("begin") \in Steps /\ Op("end") \in Steps
      /\ On("try", "slot") \in Steps /\ On("unlock", "slot") \in Steps
      /\ Op("request") \in Steps
      /\ On("lock", "proxyCheckLock") \in Steps
      /\ On("unlock", "proxyCheckLock") \in Steps
      /\ On("rlock", "runtimeMu") \in Steps
      /\ On("runlock", "runtimeMu") \in Steps
      /\ On("rlock", "manualPriorityMu") \in Steps
      /\ On("runlock", "manualPriorityMu") \in Steps
  BY StepsOp DEF OpNames, Locks, RWLocks
<1>2. /\ TriedProbe \in Seq(Steps) /\ Len(TriedProbe) = 3
      /\ TriedProbe[1] = On("try", "slot")
      /\ TriedProbe[2] = Op("request")
      /\ TriedProbe[3] = On("unlock", "slot")
  BY <1>1 DEF TriedProbe
<1>3. /\ probe \in Seq(Steps) /\ Len(probe) = 5
      /\ probe[1] = On("lock", "proxyCheckLock")
      /\ probe[5] = On("unlock", "proxyCheckLock")
      /\ \A i \in 1..3 : probe[i + 1] = TriedProbe[i]
  <2>1. /\ On("lock", "proxyCheckLock") \in Steps
        /\ On("unlock", "proxyCheckLock") \in Steps
        /\ TriedProbe \in Seq(Steps)
        /\ probe = <<On("lock", "proxyCheckLock")>> \o TriedProbe
                      \o <<On("unlock", "proxyCheckLock")>>
    BY <1>1, <1>2 DEF Locked
  <2>. HIDE DEF probe
  <2>2. /\ probe \in Seq(Steps) /\ Len(probe) = Len(TriedProbe) + 2
        /\ probe[1] = On("lock", "proxyCheckLock")
        /\ probe[Len(TriedProbe) + 2] = On("unlock", "proxyCheckLock")
        /\ \A i \in 1..Len(TriedProbe) : probe[i + 1] = TriedProbe[i]
    BY <2>1, BracketIs
  <2>. QED
    BY <2>2, <1>2
<1>. HIDE DEF probe
<1>4. /\ pinned \in Seq(Steps) /\ Len(pinned) = 7
      /\ pinned[1] = On("rlock", "runtimeMu")
      /\ pinned[7] = On("runlock", "runtimeMu")
      /\ \A i \in 1..5 : pinned[i + 1] = probe[i]
  <2>1. /\ On("rlock", "runtimeMu") \in Steps
        /\ On("runlock", "runtimeMu") \in Steps
        /\ probe \in Seq(Steps)
        /\ pinned = <<On("rlock", "runtimeMu")>> \o probe
                       \o <<On("runlock", "runtimeMu")>>
    BY <1>1, <1>3 DEF RLocked
  <2>. HIDE DEF pinned
  <2>2. /\ pinned \in Seq(Steps) /\ Len(pinned) = Len(probe) + 2
        /\ pinned[1] = On("rlock", "runtimeMu")
        /\ pinned[Len(probe) + 2] = On("runlock", "runtimeMu")
        /\ \A i \in 1..Len(probe) : pinned[i + 1] = probe[i]
    BY <2>1, BracketIs
  <2>. QED
    BY <2>2, <1>3
<1>. HIDE DEF pinned
<1>5. /\ judged \in Seq(Steps) /\ Len(judged) = 9
      /\ judged[1] = Op("begin")
      /\ judged[9] = Op("end")
      /\ \A i \in 1..7 : judged[i + 1] = pinned[i]
  <2>1. /\ Op("begin") \in Steps
        /\ Op("end") \in Steps
        /\ pinned \in Seq(Steps)
        /\ judged = <<Op("begin")>> \o pinned \o <<Op("end")>>
    BY <1>1, <1>4
  <2>. HIDE DEF judged
  <2>2. /\ judged \in Seq(Steps) /\ Len(judged) = Len(pinned) + 2
        /\ judged[1] = Op("begin")
        /\ judged[Len(pinned) + 2] = Op("end")
        /\ \A i \in 1..Len(pinned) : judged[i + 1] = pinned[i]
    BY <2>1, BracketIs
  <2>. QED
    BY <2>2, <1>4
<1>6. Diagnosis = RLocked("manualPriorityMu", judged)
  BY DEF Diagnosis, judged, pinned, probe
<1>. HIDE DEF judged
<1>7. /\ Diagnosis \in Seq(Steps) /\ Len(Diagnosis) = 11
      /\ Diagnosis[1] = On("rlock", "manualPriorityMu")
      /\ Diagnosis[11] = On("runlock", "manualPriorityMu")
      /\ \A i \in 1..9 : Diagnosis[i + 1] = judged[i]
  <2>1. /\ On("rlock", "manualPriorityMu") \in Steps
        /\ On("runlock", "manualPriorityMu") \in Steps
        /\ judged \in Seq(Steps)
        /\ Diagnosis = <<On("rlock", "manualPriorityMu")>> \o judged
                          \o <<On("runlock", "manualPriorityMu")>>
    BY <1>1, <1>5, <1>6 DEF RLocked
  <2>2. /\ Diagnosis \in Seq(Steps) /\ Len(Diagnosis) = Len(judged) + 2
        /\ Diagnosis[1] = On("rlock", "manualPriorityMu")
        /\ Diagnosis[Len(judged) + 2] = On("runlock", "manualPriorityMu")
        /\ \A i \in 1..Len(judged) : Diagnosis[i + 1] = judged[i]
    BY <2>1, BracketIs
  <2>. QED
    BY <2>2, <1>5
<1>8. /\ Diagnosis[2] = judged[1]
      /\ Diagnosis[10] = judged[9]
      /\ \A i \in 1..7 : Diagnosis[i + 2] = pinned[i]
  BY <1>5, <1>7
<1>9. /\ Diagnosis[3] = pinned[1]
      /\ Diagnosis[9] = pinned[7]
      /\ \A i \in 1..5 : Diagnosis[i + 3] = probe[i]
  BY <1>4, <1>8
<1>10. /\ Diagnosis[4] = probe[1]
       /\ Diagnosis[8] = probe[5]
       /\ \A i \in 1..3 : Diagnosis[i + 4] = TriedProbe[i]
  BY <1>3, <1>9
<1>11. /\ Diagnosis[5] = TriedProbe[1] /\ Diagnosis[6] = TriedProbe[2]
       /\ Diagnosis[7] = TriedProbe[3]
  BY <1>10
<1>. QED
  BY <1>2, <1>3, <1>4, <1>5, <1>7, <1>8, <1>9, <1>10, <1>11

(* The names of the steps of a diagnosis.                                  *)
LEMMA DiagnosisOps ==
  /\ \A i \in 1..11 : Diagnosis[i] \in Steps
  /\ \A i \in 1..11 : /\ Diagnosis[i].op = "begin" <=> i = 2
                      /\ Diagnosis[i].op = "end" <=> i = 10
                      /\ Diagnosis[i].op = "lock" <=> i = 4
                      /\ Diagnosis[i].op = "try" <=> i = 5
                      /\ Diagnosis[i].op = "request" <=> i = 6
                      /\ Diagnosis[i].op = "unlock" <=> i \in {7, 8}
                      /\ Diagnosis[i].op = "rlock" <=> i \in {1, 3}
                      /\ Diagnosis[i].op = "runlock" <=> i \in {9, 11}
                      /\ Diagnosis[i].op \notin
                           {"pause", "resume", "cancelAutomatic", "reload"}
PROOF
<1>1. \A i \in 1..11 : Diagnosis[i] \in Steps
  BY DiagnosisSteps, ElementOfSeq
<1>2. /\ Diagnosis[1].op = "rlock" /\ Diagnosis[2].op = "begin"
      /\ Diagnosis[3].op = "rlock" /\ Diagnosis[4].op = "lock"
      /\ Diagnosis[5].op = "try" /\ Diagnosis[6].op = "request"
      /\ Diagnosis[7].op = "unlock" /\ Diagnosis[8].op = "unlock"
      /\ Diagnosis[9].op = "runlock" /\ Diagnosis[10].op = "end"
      /\ Diagnosis[11].op = "runlock"
  BY DiagnosisSteps DEF On, Op
<1>. QED
  BY <1>1, <1>2

(* What a diagnosis has still to do once k steps are done.                 *)
LeftAfter(k, t) ==
  /\ t \in Seq(Steps)
  /\ Len(t) = 11 - k
  /\ \A i \in 1..(11 - k) : t[i] = Diagnosis[k + i]

LEMMA LeftNext ==
  ASSUME NEW k \in 0..11, NEW t, t # <<>>, LeftAfter(k, t)
  PROVE  /\ k \in 0..10
         /\ Head(t) = t[1]
         /\ t[1] = Diagnosis[k + 1]
         /\ LeftAfter(k + 1, Tail(t))
PROOF
<1>1. /\ Head(t) = t[1]
      /\ Len(t) \in Nat \ {0}
      /\ Tail(t) \in Seq(Steps)
      /\ Len(Tail(t)) = Len(t) - 1
      /\ \A i \in 1..(Len(t) - 1) : Tail(t)[i] = t[i + 1]
  BY Rest DEF LeftAfter
<1>2. k \in 0..10 /\ Len(t) = 11 - k
  BY <1>1 DEF LeftAfter
<1>3. t[1] = Diagnosis[k + 1]
  BY <1>2 DEF LeftAfter
<1>4. ASSUME NEW i \in 1..(11 - (k + 1))
      PROVE  Tail(t)[i] = Diagnosis[k + 1 + i]
  <2>1. /\ i \in 1..(Len(t) - 1) /\ i + 1 \in 1..(11 - k)
        /\ k + (i + 1) = k + 1 + i
    BY <1>2
  <2>. QED
    BY <1>1, <2>1 DEF LeftAfter
<1>. QED
  BY <1>1, <1>2, <1>3, <1>4 DEF LeftAfter

(* A diagnosis has paused nothing.                                         *)
LEMMA LeftResumes ==
  ASSUME NEW k \in 0..11, NEW t, LeftAfter(k, t)
  PROVE  ~Resumes(t)
PROOF
<1>1. SUFFICES ASSUME NEW i \in DOMAIN t, t[i].op = "resume"
               PROVE  FALSE
  BY DEF Resumes
<1>2. i \in 1..(11 - k)
  BY LenProperties DEF LeftAfter
<1>3. t[i] = Diagnosis[k + i] /\ k + i \in 1..11
  <2>1. t[i] = Diagnosis[k + i]
    BY <1>2 DEF LeftAfter
  <2>. QED
    BY <1>2, <2>1
<1>4. Diagnosis[k + i].op # "resume"
  BY <1>3, DiagnosisOps
<1>. QED
  BY <1>1, <1>3, <1>4

(* The runs that OneDiagnosis counts are those between begin and end.      *)
LEMMA LeftDiagnosing ==
  ASSUME NEW k \in 0..11, NEW p \in Procs, LeftAfter(k, todo[p])
  PROVE  Diagnosing(p) <=> k \in 2..9
PROOF
<1>1. DOMAIN todo[p] = 1..(11 - k)
  BY LenProperties DEF LeftAfter
<1>2. ASSUME NEW i \in DOMAIN todo[p]
      PROVE  /\ todo[p][i].op = "end" <=> k + i = 10
             /\ todo[p][i].op = "begin" <=> k + i = 2
  <2>1. i \in 1..(11 - k)
    BY <1>1
  <2>2. k + i \in 1..11 /\ todo[p][i] = Diagnosis[k + i]
    BY <2>1 DEF LeftAfter
  <2>. QED
    BY <2>2, DiagnosisOps
<1>3. (\E i \in DOMAIN todo[p] : todo[p][i].op = "end") <=> k <= 9
  <2>1. ASSUME k <= 9
        PROVE  \E i \in DOMAIN todo[p] : todo[p][i].op = "end"
    <3>1. 10 - k \in DOMAIN todo[p] /\ k + (10 - k) = 10
      BY <1>1, <2>1
    <3>. QED
      BY <1>2, <3>1
  <2>2. ASSUME NEW i \in DOMAIN todo[p], todo[p][i].op = "end"
        PROVE  k <= 9
    BY <1>1, <1>2, <2>2
  <2>. QED
    BY <2>1, <2>2
<1>4. (\A i \in DOMAIN todo[p] : todo[p][i].op # "begin") <=> k >= 2
  <2>1. ASSUME k < 2
        PROVE  \E i \in DOMAIN todo[p] : todo[p][i].op = "begin"
    <3>1. 2 - k \in DOMAIN todo[p] /\ k + (2 - k) = 2
      BY <1>1, <2>1
    <3>. QED
      BY <1>2, <3>1
  <2>2. ASSUME NEW i \in DOMAIN todo[p], todo[p][i].op = "begin"
        PROVE  k < 2
    BY <1>1, <1>2, <2>2
  <2>. QED
    BY <2>1, <2>2
<1>. QED
  BY <1>3, <1>4 DEF Diagnosing

-----------------------------------------------------------------------------
(* The inductive invariant.                                                *)

(* What a goroutine holds, as the steps that will give it back.            *)
Holds(p) ==
  {r \in Releases :
     IF r.op = "unlock" THEN writer[r.on] = p ELSE p \in readers[r.on]}

(* Any work but a diagnosis.                                               *)
Plain(p) ==
  /\ todo[p] \in Seq(StepsUpTo(Locks))
  /\ Guarded(todo[p], Holds(p))
  /\ PausePaired(todo[p])
  /\ run # p

(* How far a diagnosis is says whether it runs, and what it holds.         *)
DiagnosisAt(p, k) ==
  /\ LeftAfter(k, todo[p])
  /\ k \in 2..9 <=> run = p
  /\ k \in 1..10 => On("runlock", "manualPriorityMu") \in Holds(p)
  /\ k \in 3..8 => On("runlock", "runtimeMu") \in Holds(p)
  /\ k \in 4..7 => On("unlock", "proxyCheckLock") \in Holds(p)
  /\ k \in 5..6 => On("unlock", "slot") \in Holds(p)

(* The goroutine is at its work, n of the pauses in force being its own.    *)
AtWork(p, n) ==
  \/ Plain(p) /\ Nested(todo[p], n)
  \/ n = 0 /\ \E k \in 0..11 : DiagnosisAt(p, k)

(* The pauses in force, when each goroutine has as many as d says.         *)
Open(d) == {s \in Procs \X Nat : s[2] \in 1..d[s[1]]}

(* The counter is the number of pauses that have still to be lifted.       *)
Pauses ==
  \E d \in [Procs -> Nat] :
    /\ IsFiniteSet(Open(d))
    /\ paused = Cardinality(Open(d))
    /\ \A p \in Procs : AtWork(p, d[p])

(* A sync.RWMutex that is written is not read.                             *)
Exclusion == writer["runtimeMu"] # Nobody => readers["runtimeMu"] = {}

TodoOK == todo \in [Procs -> Seq(Steps)]

IInv ==
  /\ TypeOK
  /\ TodoOK
  /\ Pauses
  /\ Exclusion
  /\ AutomaticYields

LEMMA InForceOps ==
  ASSUME NEW p
  PROVE  InForce(p) <=> Resumes(todo[p]) /\ ~Cancels(todo[p])
BY DEF InForce, Resumes, Cancels

LEMMA StepsMore == StepsUpTo(Locks) \subseteq Steps
BY DEF StepsUpTo

LEMMA NobodyIsNone == \A p \in Procs : p # Nobody
BY CheckRuntimeAssumption

LEMMA HoldsAre ==
  ASSUME NEW p, NEW l \in Locks
  PROVE  /\ On("unlock", l) \in Holds(p) <=> writer[l] = p
         /\ On("runlock", l) \in Holds(p) <=> p \in readers[l]
BY ReleasesAre DEF Holds, On

(* The pauses in force when one goroutine has one more or one less.        *)
LEMMA OpenChange ==
  ASSUME NEW d \in [Procs -> Nat], IsFiniteSet(Open(d)), NEW p \in Procs,
         NEW n \in {-1, 0, 1}, d[p] + n \in Nat,
         NEW e, e = [d EXCEPT ![p] = d[p] + n]
  PROVE  /\ e \in [Procs -> Nat]
         /\ IsFiniteSet(Open(e))
         /\ Cardinality(Open(e)) = Cardinality(Open(d)) + n
         /\ Cardinality(Open(e)) \in Nat
PROOF
<1>1. /\ e \in [Procs -> Nat]
      /\ e[p] = d[p] + n
      /\ \A q \in Procs \ {p} : e[q] = d[q]
  OBVIOUS
<1>2. /\ Cardinality(Open(d)) \in Nat
      /\ d[p] \in Nat
  BY FS_CardinalityType
<1>3. CASE n = 0
  <2>1. Open(e) = Open(d)
    BY <1>1, <1>2, <1>3 DEF Open
  <2>. QED
    BY <1>1, <1>2, <1>3, <2>1
<1>4. CASE n = 1
  <2>. DEFINE new == <<p, d[p] + 1>>
  <2>1. new \notin Open(d) /\ Open(e) = Open(d) \cup {new}
    <3>1. new \in Procs \X Nat /\ new[1] = p /\ new[2] = d[p] + 1
      BY <1>2
    <3>2. new \notin Open(d)
      BY <1>2, <3>1 DEF Open
    <3>3. ASSUME NEW s \in Procs \X Nat
          PROVE  s \in Open(e) <=> s \in Open(d) \cup {new}
      <4>1. s = <<s[1], s[2]>> /\ s[1] \in Procs /\ s[2] \in Nat
        OBVIOUS
      <4>2. CASE s[1] # p
        BY <1>1, <4>1, <4>2, <3>1 DEF Open
      <4>3. CASE s[1] = p
        <5>1. s[2] \in 1..(d[p] + 1) <=> s[2] \in 1..d[p] \/ s[2] = d[p] + 1
          BY <1>2, <4>1
        <5>2. s = new <=> s[2] = d[p] + 1
          BY <4>1, <4>3
        <5>. QED
          BY <1>1, <1>4, <4>3, <5>1, <5>2 DEF Open
      <4>. QED
        BY <4>2, <4>3
    <3>4. Open(e) \subseteq Procs \X Nat /\ Open(d) \subseteq Procs \X Nat
      BY DEF Open
    <3>. QED
      BY <3>1, <3>2, <3>3, <3>4
  <2>. HIDE DEF new
  <2>2. /\ IsFiniteSet(Open(d) \cup {new})
        /\ Cardinality(Open(d) \cup {new}) = Cardinality(Open(d)) + 1
    BY <2>1, FS_AddElement
  <2>3. /\ IsFiniteSet(Open(e))
        /\ Cardinality(Open(e)) = Cardinality(Open(d)) + 1
    BY <2>1, <2>2
  <2>. QED
    BY <1>1, <1>2, <1>4, <2>3
<1>5. CASE n = -1
  <2>. DEFINE old == <<p, d[p]>>
  <2>1. old \in Open(d) /\ Open(e) = Open(d) \ {old}
    <3>1. old \in Procs \X Nat /\ old[1] = p /\ old[2] = d[p]
      BY <1>2
    <3>2. d[p] >= 1
      BY <1>2, <1>5
    <3>3. old \in Open(d)
      BY <1>2, <3>1, <3>2 DEF Open
    <3>4. ASSUME NEW s \in Procs \X Nat
          PROVE  s \in Open(e) <=> s \in Open(d) \ {old}
      <4>1. s = <<s[1], s[2]>> /\ s[1] \in Procs /\ s[2] \in Nat
        OBVIOUS
      <4>2. CASE s[1] # p
        BY <1>1, <4>1, <4>2, <3>1 DEF Open
      <4>3. CASE s[1] = p
        <5>1. s[2] \in 1..(d[p] - 1) <=> s[2] \in 1..d[p] /\ s[2] # d[p]
          BY <1>2, <4>1
        <5>2. s = old <=> s[2] = d[p]
          BY <4>1, <4>3
        <5>3. e[p] = d[p] - 1
          BY <1>1, <1>2, <1>5
        <5>. QED
          BY <4>3, <5>1, <5>2, <5>3 DEF Open
      <4>. QED
        BY <4>2, <4>3
    <3>5. Open(e) \subseteq Procs \X Nat /\ Open(d) \subseteq Procs \X Nat
      BY DEF Open
    <3>. QED
      BY <3>3, <3>4, <3>5
  <2>. HIDE DEF old
  <2>2. /\ IsFiniteSet(Open(d) \ {old})
        /\ Cardinality(Open(d) \ {old}) = Cardinality(Open(d)) - 1
    BY <2>1, FS_RemoveElement
  <2>3. Cardinality(Open(d) \ {old}) \in Nat
    BY <2>2, FS_CardinalityType
  <2>4. /\ IsFiniteSet(Open(e))
        /\ Cardinality(Open(e)) = Cardinality(Open(d)) - 1
        /\ Cardinality(Open(e)) \in Nat
    BY <2>1, <2>2, <2>3
  <2>. QED
    BY <1>1, <1>2, <1>5, <2>4
<1>. QED
  BY <1>3, <1>4, <1>5

(* Whoever is in force has the counter up, and is at no diagnosis.         *)
LEMMA ForcePauses ==
  ASSUME IInv, NEW p \in Procs, InForce(p)
  PROVE  Plain(p) /\ paused > 0
PROOF
<1>1. PICK d \in [Procs -> Nat] :
        /\ IsFiniteSet(Open(d))
        /\ paused = Cardinality(Open(d))
        /\ \A q \in Procs : AtWork(q, d[q])
  BY DEF IInv, Pauses
<1>2. Resumes(todo[p]) /\ ~Cancels(todo[p])
  BY InForceOps
<1>3. ~(\E k \in 0..11 : DiagnosisAt(p, k))
  BY <1>2, LeftResumes DEF DiagnosisAt
<1>4. Plain(p) /\ Nested(todo[p], d[p])
  BY <1>1, <1>3 DEF AtWork
<1>5. d[p] >= 1
  BY <1>2, <1>4, NestedPausing DEF Plain
<1>6. <<p, 1>> \in Open(d)
  BY <1>5 DEF Open
<1>7. Cardinality(Open(d)) \in Nat /\ Cardinality(Open(d)) # 0
  BY <1>1, <1>6, FS_CardinalityType, FS_EmptySet
<1>. QED
  BY <1>1, <1>4, <1>7

-----------------------------------------------------------------------------
(* What a step of one goroutine does to the invariant.                     *)

(* The others hold what they held, and run if they ran.                    *)
OthersKeep(p) ==
  \A q \in Procs \ {p} : /\ todo'[q] = todo[q]
                         /\ Holds(q) \subseteq Holds(q)'
                         /\ run' = q <=> run = q

LEMMA OthersAtWork ==
  ASSUME NEW p \in Procs, NEW q \in Procs \ {p}, OthersKeep(p), NEW n,
         AtWork(q, n)
  PROVE  AtWork(q, n)'
PROOF
<1>1. /\ todo'[q] = todo[q]
      /\ Holds(q) \subseteq Holds(q)'
      /\ run' = q <=> run = q
  BY DEF OthersKeep
<1>2. Guarded(todo[q], Holds(q)) => Guarded(todo[q], Holds(q)')
  BY <1>1, GuardedMonotonic
<1>3. CASE Plain(q) /\ Nested(todo[q], n)
  <2>1. Plain(q)'
    BY <1>1, <1>2, <1>3 DEF Plain
  <2>. QED
    BY <1>1, <1>3, <2>1 DEF AtWork
<1>4. CASE n = 0 /\ \E k \in 0..11 : DiagnosisAt(q, k)
  <2>1. PICK k \in 0..11 : DiagnosisAt(q, k)
    BY <1>4
  <2>2. DiagnosisAt(q, k)'
    BY <1>1, <2>1 DEF DiagnosisAt
  <2>. QED
    BY <1>4, <2>2 DEF AtWork
<1>. QED
  BY <1>3, <1>4 DEF AtWork

LEMMA PausesStep ==
  ASSUME Pauses, NEW p \in Procs, OthersKeep(p), NEW n \in {-1, 0, 1},
         paused' = paused + n,
         \A m \in Nat : AtWork(p, m) => m + n \in Nat /\ AtWork(p, m + n)'
  PROVE  Pauses' /\ paused' \in Nat
PROOF
<1>1. PICK d \in [Procs -> Nat] :
        /\ IsFiniteSet(Open(d))
        /\ paused = Cardinality(Open(d))
        /\ \A q \in Procs : AtWork(q, d[q])
  BY DEF Pauses
<1>2. d[p] \in Nat /\ d[p] + n \in Nat /\ AtWork(p, d[p] + n)'
  BY <1>1
<1>. DEFINE e == [d EXCEPT ![p] = d[p] + n]
<1>3. /\ e \in [Procs -> Nat]
      /\ IsFiniteSet(Open(e))
      /\ Cardinality(Open(e)) = Cardinality(Open(d)) + n
      /\ Cardinality(Open(e)) \in Nat
  BY <1>1, <1>2, OpenChange
<1>4. e[p] = d[p] + n /\ \A q \in Procs \ {p} : e[q] = d[q]
  OBVIOUS
<1>. HIDE DEF e
<1>5. ASSUME NEW q \in Procs
      PROVE  AtWork(q, e[q])'
  <2>1. CASE q = p
    BY <1>2, <1>4, <2>1 DEF AtWork, Plain, DiagnosisAt, Holds, Guarded
  <2>2. CASE q # p
    <3>1. AtWork(q, d[q])'
      BY <1>1, <2>2, OthersAtWork
    <3>. QED
      BY <1>4, <2>2, <3>1
  <2>. QED
    BY <2>1, <2>2
<1>6. paused' = Cardinality(Open(e))
  BY <1>1, <1>3
<1>. QED
  BY <1>3, <1>5, <1>6 DEF Pauses

LEMMA StepIInv ==
  ASSUME IInv, NEW p \in Procs, OthersKeep(p), NEW n \in {-1, 0, 1},
         paused' = paused + n,
         \A m \in Nat : AtWork(p, m) => m + n \in Nat /\ AtWork(p, m + n)',
         writer' \in [Locks -> Procs \cup {Nobody}],
         readers' \in [Locks -> SUBSET Procs],
         waiting' \in [Locks -> Procs \cup {Nobody}],
         run' \in Procs \cup {Nobody},
         cancelled' \in BOOLEAN,
         TodoOK', Exclusion', AutomaticYields'
  PROVE  IInv'
PROOF
<1>1. Pauses' /\ paused' \in Nat
  BY PausesStep DEF IInv
<1>2. TypeOK'
  BY <1>1 DEF TypeOK
<1>. QED
  BY <1>1, <1>2 DEF IInv

LEMMA WhereItIs ==
  ASSUME IInv, NEW p \in Procs
  PROVE  Plain(p) \/ \E k \in 0..11 : DiagnosisAt(p, k)
BY DEF IInv, Pauses, AtWork

(* What a step does to what is held: it keeps that of the others, and its  *)
(* own but for the one it gives back.                                      *)
KeepsHeld(p) ==
  /\ \A q \in Procs : \A r \in Holds(q) :
       r \in Holds(q)' \/ (q = p /\ r = todo[p][1])
  /\ \A r \in Releases : Takes(todo[p][1], r) => r \in Holds(p)'

LEMMA AdvanceTodo ==
  ASSUME IInv, NEW p \in Procs, todo[p] # <<>>, Advance(p)
  PROVE  /\ Head(todo[p]) = todo[p][1]
         /\ todo[p] \in Seq(Steps)
         /\ todo'[p] = Tail(todo[p])
         /\ \A q \in Procs \ {p} : todo'[q] = todo[q]
         /\ TodoOK'
PROOF
<1>1. todo[p] \in Seq(Steps)
  BY DEF IInv, TodoOK
<1>2. Tail(todo[p]) \in Seq(Steps) /\ Head(todo[p]) = todo[p][1]
  BY <1>1, Rest
<1>3. todo' = [todo EXCEPT ![p] = Tail(todo[p])]
  BY DEF Advance
<1>. QED
  BY <1>1, <1>2, <1>3 DEF IInv, TodoOK

LEMMA PlainAdvance ==
  ASSUME IInv, NEW p \in Procs, todo[p] # <<>>, Advance(p), KeepsHeld(p),
         run' = run, NEW m, Plain(p), Nested(todo[p], m),
         NEW n, n = Change(todo[p][1])
  PROVE  m + n \in Nat /\ AtWork(p, m + n)'
PROOF
<1>1. /\ todo[p] \in Seq(StepsUpTo(Locks))
      /\ Guarded(todo[p], Holds(p))
      /\ PausePaired(todo[p])
      /\ run # p
  BY DEF Plain
<1>2. todo'[p] = Tail(todo[p])
  BY AdvanceTodo
<1>3. /\ Tail(todo[p]) \in Seq(StepsUpTo(Locks))
      /\ PausePaired(Tail(todo[p]))
  BY <1>1, Rest, PairedRest
<1>4. \A r \in Holds(p) : r \in Holds(p)' \/ r = todo[p][1]
  BY DEF KeepsHeld
<1>5. \A r \in Releases : Takes(todo[p][1], r) => r \in Holds(p)'
  BY DEF KeepsHeld
<1>6. Guarded(Tail(todo[p]), Holds(p)')
  BY <1>1, <1>4, <1>5, GuardedRest
<1>7. m + n \in Nat /\ Nested(Tail(todo[p]), m + n)
  BY <1>1, NestedRest
<1>8. Plain(p)'
  BY <1>1, <1>2, <1>3, <1>6 DEF Plain
<1>9. Plain(p)' /\ Nested(todo'[p], m + n)
  BY <1>2, <1>7, <1>8
<1>. QED
  BY <1>7, <1>9 DEF AtWork

LEMMA DiagnosisAdvance ==
  ASSUME IInv, NEW p \in Procs, todo[p] # <<>>, Advance(p), KeepsHeld(p),
         todo[p][1].op \notin {"begin", "end"}, run' = run,
         NEW k \in 0..11, DiagnosisAt(p, k)
  PROVE  /\ Change(todo[p][1]) = 0
         /\ \E m \in 0..11 : DiagnosisAt(p, m)'
PROOF
<1>1. /\ k \in 0..10
      /\ todo[p][1] = Diagnosis[k + 1]
      /\ LeftAfter(k + 1, todo'[p])
  BY AdvanceTodo, LeftNext DEF DiagnosisAt
<1>2. k + 1 \in 1..11 /\ k + 1 \in 0..11
  BY <1>1
<1>3. k + 1 # 2 /\ k + 1 # 10 /\ Change(todo[p][1]) = 0
  BY <1>1, <1>2, DiagnosisOps DEF Change
<1>4. k + 1 \in 2..9 <=> run' = p
  BY <1>2, <1>3 DEF DiagnosisAt
<1>5. \A r \in Holds(p) : r \in Holds(p)' \/ r = todo[p][1]
  BY DEF KeepsHeld
<1>6. \A r \in Releases : Takes(todo[p][1], r) => r \in Holds(p)'
  BY DEF KeepsHeld
<1>. DEFINE priority == On("runlock", "manualPriorityMu")
            pin == On("runlock", "runtimeMu")
            binding == On("unlock", "proxyCheckLock")
            slot == On("unlock", "slot")
<1>7. {priority, pin, binding, slot} \subseteq Releases
  BY ReleasesAre, LocksAre
<1>8. /\ Takes(Diagnosis[1], priority)
      /\ Takes(Diagnosis[3], pin)
      /\ Takes(Diagnosis[4], binding)
      /\ Takes(Diagnosis[5], slot)
  BY DiagnosisSteps DEF Takes, On
<1>9. /\ \A i \in 1..10 : Diagnosis[i] # priority
      /\ \A i \in 1..8 : Diagnosis[i] # pin
      /\ \A i \in 1..7 : Diagnosis[i] # binding
      /\ \A i \in 1..6 : Diagnosis[i] # slot
  <2>1. \A i \in 1..11 :
          /\ Diagnosis[i].op = "unlock" => i \in {7, 8}
          /\ Diagnosis[i].op = "runlock" => i \in {9, 11}
    BY DiagnosisOps
  <2>2. Diagnosis[9] # priority /\ Diagnosis[7] # binding
    BY DiagnosisSteps DEF On
  <2>3. /\ priority.op = "runlock" /\ pin.op = "runlock"
        /\ binding.op = "unlock" /\ slot.op = "unlock"
    BY DEF On
  <2>. HIDE DEF priority, pin, binding, slot
  <2>. QED
    BY <2>1, <2>2, <2>3
<1>10. /\ k \in 1..10 => priority \in Holds(p)
       /\ k \in 3..8 => pin \in Holds(p)
       /\ k \in 4..7 => binding \in Holds(p)
       /\ k \in 5..6 => slot \in Holds(p)
  BY DEF DiagnosisAt
<1>. HIDE DEF priority, pin, binding, slot
<1>11. k + 1 \in 1..10 => priority \in Holds(p)'
  <2>1. CASE k = 0
    BY <1>1, <1>6, <1>7, <1>8, <2>1
  <2>2. CASE k # 0
    BY <1>1, <1>2, <1>5, <1>9, <1>10, <2>2
  <2>. QED
    BY <2>1, <2>2
<1>12. k + 1 \in 3..8 => pin \in Holds(p)'
  <2>1. CASE k = 2
    BY <1>1, <1>6, <1>7, <1>8, <2>1
  <2>2. CASE k # 2
    BY <1>1, <1>2, <1>5, <1>9, <1>10, <2>2
  <2>. QED
    BY <2>1, <2>2
<1>13. k + 1 \in 4..7 => binding \in Holds(p)'
  <2>1. CASE k = 3
    BY <1>1, <1>6, <1>7, <1>8, <2>1
  <2>2. CASE k # 3
    BY <1>1, <1>2, <1>5, <1>9, <1>10, <2>2
  <2>. QED
    BY <2>1, <2>2
<1>14. k + 1 \in 5..6 => slot \in Holds(p)'
  <2>1. CASE k = 4
    BY <1>1, <1>6, <1>7, <1>8, <2>1
  <2>2. CASE k # 4
    BY <1>1, <1>2, <1>5, <1>9, <1>10, <2>2
  <2>. QED
    BY <2>1, <2>2
<1>15. DiagnosisAt(p, k + 1)'
  BY <1>1, <1>4, <1>11, <1>12, <1>13, <1>14
     DEF DiagnosisAt, priority, pin, binding, slot
<1>. QED
  BY <1>2, <1>3, <1>15

LEMMA YieldsAdvance ==
  ASSUME IInv, NEW p \in Procs, todo[p] # <<>>, Advance(p),
         run' = run,
         cancelled => cancelled',
         todo[p][1].op = "cancelAutomatic" => (AutomaticRun => cancelled')
  PROVE  AutomaticYields'
PROOF
<1>1. AutomaticRun' <=> AutomaticRun
  BY DEF AutomaticRun, Automatic
<1>. SUFFICES ASSUME NEW q \in Procs, InForce(q)', AutomaticRun
              PROVE  cancelled'
  BY <1>1 DEF AutomaticYields
<1>2. Resumes(todo'[q]) /\ ~Cancels(todo'[q])
  BY DEF InForce, Resumes, Cancels
<1>3. CASE q # p
  <2>1. InForce(q)
    BY <1>2, <1>3, AdvanceTodo, InForceOps
  <2>. QED
    BY <2>1 DEF IInv, AutomaticYields
<1>4. CASE q = p
  <2>1. /\ Resumes(todo[p])
        /\ ~Cancels(todo[p]) \/ todo[p][1].op = "cancelAutomatic"
    BY <1>2, <1>4, AdvanceTodo, OpsRest
  <2>2. CASE ~Cancels(todo[p])
    <3>1. InForce(p)
      BY <2>1, <2>2, InForceOps
    <3>. QED
      BY <3>1 DEF IInv, AutomaticYields
  <2>. QED
    BY <2>1, <2>2
<1>. QED
  BY <1>3, <1>4

(* Every step but those that begin, refuse, give up or end a diagnosis.    *)
LEMMA AdvanceIInv ==
  ASSUME IInv, NEW p \in Procs, todo[p] # <<>>, Advance(p), KeepsHeld(p),
         todo[p][1].op \notin {"begin", "end"}, run' = run,
         cancelled => cancelled',
         todo[p][1].op = "cancelAutomatic" => (AutomaticRun => cancelled'),
         paused' = paused + Change(todo[p][1]),
         writer' \in [Locks -> Procs \cup {Nobody}],
         readers' \in [Locks -> SUBSET Procs],
         waiting' \in [Locks -> Procs \cup {Nobody}],
         cancelled' \in BOOLEAN,
         Exclusion'
  PROVE  IInv'
PROOF
<1>1. PICK n \in {-1, 0, 1} : n = Change(todo[p][1])
  BY DEF Change
<1>2. OthersKeep(p)
  BY AdvanceTodo DEF OthersKeep, KeepsHeld
<1>3. ASSUME NEW m \in Nat, AtWork(p, m)
      PROVE  m + n \in Nat /\ AtWork(p, m + n)'
  <2>1. CASE Plain(p) /\ Nested(todo[p], m)
    BY <1>1, <2>1, PlainAdvance
  <2>2. CASE m = 0 /\ \E k \in 0..11 : DiagnosisAt(p, k)
    <3>1. n = 0 /\ \E k \in 0..11 : DiagnosisAt(p, k)'
      BY <1>1, <2>2, DiagnosisAdvance
    <3>2. m + n = 0 /\ m + n \in Nat
      BY <2>2, <3>1
    <3>3. AtWork(p, 0)'
      BY <3>1 DEF AtWork
    <3>. QED
      BY <3>2, <3>3
  <2>. QED
    BY <1>3, <2>1, <2>2 DEF AtWork
<1>4. run' \in Procs \cup {Nobody}
  BY DEF IInv, TypeOK
<1>5. TodoOK' /\ AutomaticYields'
  BY AdvanceTodo, YieldsAdvance
<1>6. paused' = paused + n
  BY <1>1
<1>. QED
  BY <1>1, <1>2, <1>3, <1>4, <1>5, <1>6, StepIInv

LEMMA AtHead ==
  ASSUME IInv, NEW p \in Procs, NEW name, At(p, name)
  PROVE  /\ todo[p] # <<>>
         /\ todo[p] \in Seq(Steps)
         /\ todo[p][1] \in Steps
         /\ todo[p][1].op = name
         /\ Lock(p) = todo[p][1].on
PROOF
<1>1. todo[p] # <<>> /\ todo[p] \in Seq(Steps)
  BY DEF At, IInv, TodoOK
<1>2. Head(todo[p]) = todo[p][1] /\ Len(todo[p]) \in Nat \ {0}
  BY <1>1, Rest
<1>3. todo[p][1] \in Steps
  BY <1>1, <1>2, ElementOfSeq
<1>. QED
  BY <1>1, <1>2, <1>3 DEF At, Lock

(* What a goroutine needs to hold for its next step, it holds.             *)
LEMMA HoldsNeeded ==
  ASSUME IInv, NEW p \in Procs, Plain(p), todo[p] # <<>>,
         NEW r \in Releases, Needs(todo[p][1], r)
  PROVE  r \in Holds(p)
PROOF
<1>1. todo[p] \in Seq(StepsUpTo(Locks)) /\ Guarded(todo[p], Holds(p))
  BY DEF Plain
<1>2. 1 \in 1..Len(todo[p])
  BY <1>1, Rest
<1>3. Held(todo[p], 1, r, Holds(p))
  BY <1>1, <1>2 DEF Guarded
<1>. QED
  BY <1>3 DEF Held

LEMMA PlainStep ==
  ASSUME NEW p \in Procs, Plain(p), todo[p] # <<>>
  PROVE  todo[p][1] \in StepsUpTo(Locks)
PROOF
<1>1. todo[p] \in Seq(StepsUpTo(Locks))
  BY DEF Plain
<1>2. 1 \in 1..Len(todo[p])
  BY <1>1, Rest
<1>. QED
  BY <1>1, <1>2, ElementOfSeq

(* The next step of a diagnosis.                                           *)
LEMMA DiagnosisNext ==
  ASSUME NEW p \in Procs, todo[p] # <<>>, NEW k \in 0..11, DiagnosisAt(p, k)
  PROVE  /\ k \in 0..10 /\ k + 1 \in 1..11
         /\ todo[p][1] = Diagnosis[k + 1]
         /\ LeftAfter(k + 1, Tail(todo[p]))
BY LeftNext DEF DiagnosisAt

LEMMA FreesItsOwn ==
  ASSUME IInv, NEW p \in Procs, NEW name \in {"unlock", "runlock"},
         At(p, name)
  PROVE  /\ Lock(p) \in Locks
         /\ todo[p][1] = On(name, Lock(p))
         /\ todo[p][1] \in Holds(p)
PROOF
<1>1. /\ todo[p] # <<>>
      /\ todo[p][1] \in Steps
      /\ todo[p][1].op = name
      /\ Lock(p) = todo[p][1].on
  BY AtHead
<1>2. todo[p][1] = On(name, Lock(p))
  BY <1>1 DEF Steps, On
<1>3. ASSUME NEW k \in 0..11, DiagnosisAt(p, k)
      PROVE  todo[p][1] \in Holds(p)
  <2>1. todo[p][1] = Diagnosis[k + 1] /\ k + 1 \in 1..11
    BY <1>1, <1>3, DiagnosisNext
  <2>2. k + 1 \in {7, 8, 9, 11}
    BY <1>1, <2>1, DiagnosisOps
  <2>3. CASE k = 6
    BY <1>3, <2>1, <2>3, DiagnosisSteps DEF DiagnosisAt
  <2>4. CASE k = 7
    BY <1>3, <2>1, <2>4, DiagnosisSteps DEF DiagnosisAt
  <2>5. CASE k = 8
    BY <1>3, <2>1, <2>5, DiagnosisSteps DEF DiagnosisAt
  <2>6. CASE k = 10
    BY <1>3, <2>1, <2>6, DiagnosisSteps DEF DiagnosisAt
  <2>. QED
    BY <2>2, <2>3, <2>4, <2>5, <2>6
<1>4. ASSUME Plain(p)
      PROVE  todo[p][1] \in Holds(p)
  <2>1. Lock(p) \in Locks
    BY <1>1, <1>4, PlainStep DEF StepsUpTo
  <2>2. todo[p][1] \in Releases
    BY <1>2, <2>1, ReleasesAre
  <2>3. Needs(todo[p][1], todo[p][1])
    BY <1>1, <2>2 DEF Needs
  <2>. QED
    BY <1>1, <1>4, <2>2, <2>3, HoldsNeeded
<1>5. todo[p][1] \in Holds(p)
  BY <1>3, <1>4, WhereItIs
<1>6. Lock(p) \in Locks
  BY <1>1, <1>5, ReleasesAre DEF Holds
<1>. QED
  BY <1>2, <1>5, <1>6

(* Only a diagnosis begins, tries and ends.                                *)
LEMMA DiagnosisStep ==
  ASSUME IInv, NEW p \in Procs, NEW name \in {"begin", "end", "try"},
         At(p, name)
  PROVE  /\ ~Plain(p)
         /\ \E k \in 0..10 :
              /\ DiagnosisAt(p, k)
              /\ todo[p][1] = Diagnosis[k + 1]
              /\ LeftAfter(k + 1, Tail(todo[p]))
              /\ name = "begin" => k = 1
              /\ name = "end" => k = 9
              /\ name = "try" => k = 4
PROOF
<1>1. todo[p] # <<>> /\ todo[p][1].op = name
  BY AtHead
<1>2. ~Plain(p)
  BY <1>1, PlainStep DEF StepsUpTo
<1>3. PICK k \in 0..11 : DiagnosisAt(p, k)
  BY <1>2, WhereItIs
<1>4. /\ k \in 0..10 /\ todo[p][1] = Diagnosis[k + 1]
      /\ LeftAfter(k + 1, Tail(todo[p])) /\ k + 1 \in 1..11
  BY <1>1, <1>3, DiagnosisNext
<1>5. /\ name = "begin" => k = 1
      /\ name = "end" => k = 9
      /\ name = "try" => k = 4
  BY <1>1, <1>4, DiagnosisOps
<1>. QED
  BY <1>2, <1>3, <1>4, <1>5

LEMMA ReloadsAlone ==
  ASSUME IInv, NEW p \in Procs, At(p, "reload")
  PROVE  writer["runtimeMu"] = p /\ readers["runtimeMu"] = {}
PROOF
<1>1. /\ todo[p] # <<>> /\ todo[p][1].op = "reload"
  BY AtHead
<1>2. ASSUME NEW k \in 0..11, DiagnosisAt(p, k)
      PROVE  FALSE
  <2>1. todo[p][1] = Diagnosis[k + 1] /\ k + 1 \in 1..11
    BY <1>1, <1>2, DiagnosisNext
  <2>. QED
    BY <1>1, <2>1, DiagnosisOps
<1>3. /\ Needs(todo[p][1], On("unlock", "runtimeMu"))
      /\ On("unlock", "runtimeMu") \in Releases
  BY <1>1, ReleasesAre, LocksAre DEF Needs
<1>4. On("unlock", "runtimeMu") \in Holds(p)
  BY <1>1, <1>2, <1>3, WhereItIs, HoldsNeeded
<1>5. writer["runtimeMu"] = p
  BY <1>4, HoldsAre, LocksAre
<1>. QED
  BY <1>5, NobodyIsNone DEF IInv, Exclusion

(* Whoever has a request under way has pinned the runtime.                 *)
LEMMA RequestsPinned ==
  ASSUME IInv, NEW p \in Procs, At(p, "request")
  PROVE  p \in readers["runtimeMu"]
PROOF
<1>. DEFINE pin == On("runlock", "runtimeMu")
<1>1. /\ todo[p] # <<>> /\ todo[p][1].op = "request"
  BY AtHead
<1>2. ASSUME NEW k \in 0..11, DiagnosisAt(p, k)
      PROVE  pin \in Holds(p)
  <2>1. todo[p][1] = Diagnosis[k + 1] /\ k + 1 \in 1..11
    BY <1>1, <1>2, DiagnosisNext
  <2>2. k + 1 = 6
    BY <1>1, <2>1, DiagnosisOps
  <2>. QED
    BY <1>2, <2>2 DEF DiagnosisAt
<1>3. CASE Plain(p)
  <2>1. Needs(todo[p][1], pin) /\ pin \in Releases
    BY <1>1, ReleasesAre, LocksAre DEF Needs
  <2>. QED
    BY <1>1, <1>3, <2>1, HoldsNeeded, HoldsAre, LocksAre
<1>. QED
  BY <1>2, <1>3, WhereItIs, HoldsAre, LocksAre


-----------------------------------------------------------------------------
(* Each action keeps the invariant.                                        *)

(* Only waiting changes, or nothing.                                       *)
LEMMA UnmovedIInv ==
  ASSUME IInv, TypeOK',
         UNCHANGED <<todo, writer, readers, paused, run, cancelled>>
  PROVE  IInv'
PROOF
<1>1. TodoOK' /\ Exclusion'
  BY DEF IInv, TodoOK, Exclusion
<1>2. ASSUME NEW p \in Procs, NEW n, AtWork(p, n)
      PROVE  AtWork(p, n)'
  BY <1>2 DEF AtWork, Plain, DiagnosisAt, Holds
<1>3. Pauses'
  BY <1>2 DEF IInv, Pauses
<1>4. AutomaticYields'
  BY DEF IInv, AutomaticYields, AutomaticRun, Automatic, InForce
<1>. QED
  BY <1>1, <1>3, <1>4 DEF IInv

LEMMA AnnounceIInv ==
  ASSUME IInv, NEW p \in Procs, AnnounceWriter(p)
  PROVE  IInv'
PROOF
<1>1. TypeOK'
  BY DEF IInv, TypeOK, AnnounceWriter
<1>2. UNCHANGED <<todo, writer, readers, paused, run, cancelled>>
  BY DEF AnnounceWriter
<1>. QED
  BY <1>1, <1>2, UnmovedIInv

(* What is held, in terms of the locks.                                    *)
LEMMA HeldKept ==
  ASSUME NEW p \in Procs,
         \A q \in Procs, l \in Locks :
           /\ writer[l] = q =>
                writer'[l] = q \/ (q = p /\ todo[p][1] = On("unlock", l))
           /\ q \in readers[l] =>
                \/ q \in readers'[l]
                \/ q = p /\ todo[p][1] = On("runlock", l),
         \A l \in Locks : todo[p][1].on = l =>
           /\ todo[p][1].op \in {"lock", "try"} => writer'[l] = p
           /\ todo[p][1].op = "rlock" => p \in readers'[l]
  PROVE  KeepsHeld(p)
PROOF
<1>1. ASSUME NEW q \in Procs, NEW r \in Holds(q)
      PROVE  r \in Holds(q)' \/ (q = p /\ r = todo[p][1])
  <2>1. r \in Releases /\ r.on \in Locks /\ r = On(r.op, r.on)
    BY ReleasesAre DEF Holds
  <2>2. CASE r.op = "unlock"
    BY <2>1, <2>2 DEF Holds
  <2>3. CASE r.op # "unlock"
    <3>1. r = On("runlock", r.on)
      BY <2>1, <2>3, ReleasesAre
    <3>. QED
      BY <2>1, <2>3, <3>1 DEF Holds
  <2>. QED
    BY <2>2, <2>3
<1>2. ASSUME NEW r \in Releases, Takes(todo[p][1], r)
      PROVE  r \in Holds(p)'
  <2>1. r.on \in Locks
    BY ReleasesAre
  <2>2. CASE /\ todo[p][1].op \in {"lock", "try"}
             /\ r = On("unlock", todo[p][1].on)
    <3>1. r.op = "unlock" /\ r.on = todo[p][1].on
      BY <2>2 DEF On
    <3>. QED
      BY <2>1, <2>2, <3>1 DEF Holds
  <2>3. CASE /\ todo[p][1].op = "rlock"
             /\ r = On("runlock", todo[p][1].on)
    <3>1. r.op = "runlock" /\ r.on = todo[p][1].on
      BY <2>3 DEF On
    <3>. QED
      BY <2>1, <2>3, <3>1 DEF Holds
  <2>. QED
    BY <1>2, <2>2, <2>3 DEF Takes
<1>. QED
  BY <1>1, <1>2 DEF KeepsHeld

LEMMA TakeLockIInv ==
  ASSUME IInv, NEW p \in Procs, TakeLock(p)
  PROVE  IInv'
PROOF
<1>1. /\ todo[p] # <<>> /\ todo[p][1].op = "lock" /\ Lock(p) = todo[p][1].on
  BY AtHead DEF TakeLock
<1>2. /\ writer[Lock(p)] = Nobody
      /\ readers[Lock(p)] = {}
      /\ writer' = [writer EXCEPT ![Lock(p)] = p]
      /\ waiting' = [waiting EXCEPT ![Lock(p)] = Nobody]
      /\ Advance(p)
      /\ UNCHANGED <<readers, paused, run, cancelled>>
  BY DEF TakeLock
<1>3. /\ writer \in [Locks -> Procs \cup {Nobody}]
      /\ readers \in [Locks -> SUBSET Procs]
      /\ waiting \in [Locks -> Procs \cup {Nobody}]
      /\ paused \in Nat
      /\ cancelled \in BOOLEAN
  BY DEF IInv, TypeOK
<1>. DEFINE l == Lock(p)
<1>4. l = Lock(p)
  OBVIOUS
<1>. HIDE DEF l
<1>5. KeepsHeld(p)
  <2>1. ASSUME NEW q \in Procs, NEW m \in Locks, writer[m] = q
        PROVE  writer'[m] = q
    <3>1. m # l
      BY <1>2, <1>4, <2>1, NobodyIsNone
    <3>. QED
      BY <1>2, <1>3, <1>4, <2>1, <3>1
  <2>2. ASSUME NEW m \in Locks, todo[p][1].on = m
        PROVE  writer'[m] = p
    BY <1>1, <1>2, <1>3, <2>2
  <2>. QED
    BY <1>1, <1>2, <2>1, <2>2, HeldKept
<1>6. /\ writer' \in [Locks -> Procs \cup {Nobody}]
      /\ waiting' \in [Locks -> Procs \cup {Nobody}]
  BY <1>2, <1>3, <1>4
<1>7. Exclusion'
  <2>1. CASE l = "runtimeMu"
    BY <1>2, <1>4, <2>1 DEF Exclusion
  <2>2. CASE l # "runtimeMu"
    <3>1. writer'["runtimeMu"] = writer["runtimeMu"]
      BY <1>2, <1>3, <1>4, <2>2
    <3>. QED
      BY <1>2, <3>1 DEF IInv, Exclusion
  <2>. QED
    BY <2>1, <2>2
<1>8. paused' = paused + Change(todo[p][1])
  BY <1>1, <1>2, <1>3 DEF Change
<1>. QED
  BY <1>1, <1>2, <1>3, <1>5, <1>6, <1>7, <1>8, AdvanceIInv

LEMMA UnlockIInv ==
  ASSUME IInv, NEW p \in Procs, Unlock(p)
  PROVE  IInv'
PROOF
<1>1. /\ todo[p] # <<>> /\ todo[p][1].op = "unlock"
      /\ Lock(p) \in Locks
      /\ todo[p][1] = On("unlock", Lock(p))
  BY AtHead, FreesItsOwn DEF Unlock
<1>2. /\ writer' = [writer EXCEPT ![Lock(p)] = Nobody]
      /\ Advance(p)
      /\ UNCHANGED <<readers, waiting, paused, run, cancelled>>
  BY DEF Unlock
<1>3. /\ writer \in [Locks -> Procs \cup {Nobody}]
      /\ readers \in [Locks -> SUBSET Procs]
      /\ waiting \in [Locks -> Procs \cup {Nobody}]
      /\ paused \in Nat
      /\ cancelled \in BOOLEAN
  BY DEF IInv, TypeOK
<1>4. writer[Lock(p)] = p
  <2>1. todo[p][1] \in Holds(p)
    BY FreesItsOwn DEF Unlock
  <2>. QED
    BY <1>1, <2>1, HoldsAre
<1>. DEFINE l == Lock(p)
<1>5. l = Lock(p)
  OBVIOUS
<1>. HIDE DEF l
<1>6. KeepsHeld(p)
  <2>1. ASSUME NEW q \in Procs, NEW m \in Locks, writer[m] = q
        PROVE  writer'[m] = q \/ (q = p /\ todo[p][1] = On("unlock", m))
    <3>1. CASE m = l
      BY <1>1, <1>4, <1>5, <2>1, <3>1
    <3>2. CASE m # l
      BY <1>2, <1>3, <1>5, <2>1, <3>2
    <3>. QED
      BY <3>1, <3>2
  <2>. QED
    BY <1>1, <1>2, <2>1, HeldKept
<1>7. writer' \in [Locks -> Procs \cup {Nobody}]
  BY <1>2, <1>3, <1>5
<1>8. Exclusion'
  <2>1. writer'["runtimeMu"] \in {writer["runtimeMu"], Nobody}
    BY <1>2, <1>3, <1>5, LocksAre
  <2>. QED
    BY <1>2, <2>1 DEF IInv, Exclusion
<1>9. paused' = paused + Change(todo[p][1])
  BY <1>1, <1>2, <1>3 DEF Change
<1>. QED
  BY <1>1, <1>2, <1>3, <1>6, <1>7, <1>8, <1>9, AdvanceIInv

LEMMA TakeRLockIInv ==
  ASSUME IInv, NEW p \in Procs, TakeRLock(p)
  PROVE  IInv'
PROOF
<1>1. /\ todo[p] # <<>> /\ todo[p][1].op = "rlock" /\ Lock(p) = todo[p][1].on
  BY AtHead DEF TakeRLock
<1>. DEFINE l == Lock(p)
<1>2. /\ writer[l] = Nobody
      /\ readers' = [readers EXCEPT ![l] = readers[l] \cup {p}]
      /\ Advance(p)
      /\ UNCHANGED <<writer, waiting, paused, run, cancelled>>
      /\ l = todo[p][1].on
  BY <1>1 DEF TakeRLock
<1>. HIDE DEF l
<1>3. /\ writer \in [Locks -> Procs \cup {Nobody}]
      /\ readers \in [Locks -> SUBSET Procs]
      /\ waiting \in [Locks -> Procs \cup {Nobody}]
      /\ paused \in Nat
      /\ cancelled \in BOOLEAN
  BY DEF IInv, TypeOK
<1>4. readers' \in [Locks -> SUBSET Procs]
  BY <1>2, <1>3
<1>5. KeepsHeld(p)
  <2>1. ASSUME NEW m \in Locks
        PROVE  /\ readers[m] \subseteq readers'[m]
               /\ m = l => p \in readers'[m]
    BY <1>2, <1>3
  <2>. QED
    BY <1>1, <1>2, <2>1, HeldKept
<1>6. Exclusion'
  <2>1. CASE l = "runtimeMu"
    BY <1>2, <2>1 DEF Exclusion
  <2>2. CASE l # "runtimeMu"
    <3>1. readers'["runtimeMu"] = readers["runtimeMu"]
      BY <1>2, <1>3, <2>2
    <3>. QED
      BY <1>2, <3>1 DEF IInv, Exclusion
  <2>. QED
    BY <2>1, <2>2
<1>7. paused' = paused + Change(todo[p][1])
  BY <1>1, <1>2, <1>3 DEF Change
<1>. QED
  BY <1>1, <1>2, <1>3, <1>4, <1>5, <1>6, <1>7, AdvanceIInv

LEMMA RUnlockIInv ==
  ASSUME IInv, NEW p \in Procs, RUnlock(p)
  PROVE  IInv'
PROOF
<1>1. /\ todo[p] # <<>> /\ todo[p][1].op = "runlock"
      /\ todo[p][1] = On("runlock", Lock(p))
  BY AtHead, FreesItsOwn DEF RUnlock
<1>. DEFINE l == Lock(p)
<1>2. /\ readers' = [readers EXCEPT ![l] = readers[l] \ {p}]
      /\ Advance(p)
      /\ UNCHANGED <<writer, waiting, paused, run, cancelled>>
      /\ todo[p][1] = On("runlock", l)
  BY <1>1 DEF RUnlock
<1>. HIDE DEF l
<1>3. /\ writer \in [Locks -> Procs \cup {Nobody}]
      /\ readers \in [Locks -> SUBSET Procs]
      /\ waiting \in [Locks -> Procs \cup {Nobody}]
      /\ paused \in Nat
      /\ cancelled \in BOOLEAN
  BY DEF IInv, TypeOK
<1>4. readers' \in [Locks -> SUBSET Procs]
  BY <1>2, <1>3
<1>5. KeepsHeld(p)
  <2>1. ASSUME NEW q \in Procs, NEW m \in Locks, q \in readers[m]
        PROVE  q \in readers'[m] \/ (q = p /\ todo[p][1] = On("runlock", m))
    BY <1>2, <1>3, <2>1
  <2>. QED
    BY <1>1, <1>2, <2>1, HeldKept
<1>6. Exclusion'
  <2>1. readers'["runtimeMu"] \subseteq readers["runtimeMu"]
    BY <1>2, <1>3, LocksAre
  <2>. QED
    BY <1>2, <2>1 DEF IInv, Exclusion
<1>7. paused' = paused + Change(todo[p][1])
  BY <1>1, <1>2, <1>3 DEF Change
<1>. QED
  BY <1>1, <1>2, <1>3, <1>4, <1>5, <1>6, <1>7, AdvanceIInv

LEMMA PriorityIInv ==
  ASSUME IInv, NEW p \in Procs,
         Work(p) \/ Pause(p) \/ Resume(p) \/ CancelAutomatic(p)
  PROVE  IInv'
PROOF
<1>1. /\ todo[p] # <<>>
      /\ todo[p][1].op \in {"request", "deliver", "reload", "pause",
                            "resume", "cancelAutomatic"}
  BY AtHead DEF Work, Pause, Resume, CancelAutomatic
<1>2. /\ Advance(p)
      /\ UNCHANGED <<writer, readers, waiting, run>>
  BY DEF Work, Pause, Resume, CancelAutomatic
<1>3. /\ writer \in [Locks -> Procs \cup {Nobody}]
      /\ readers \in [Locks -> SUBSET Procs]
      /\ waiting \in [Locks -> Procs \cup {Nobody}]
      /\ paused \in Nat
      /\ cancelled \in BOOLEAN
  BY DEF IInv, TypeOK
<1>4. Exclusion'
  BY <1>2 DEF IInv, Exclusion
<1>5. KeepsHeld(p)
  BY <1>1, <1>2, HeldKept
<1>6. paused' = paused + Change(todo[p][1])
  <2>1. CASE Work(p)
    <3>1. /\ todo[p][1].op \in {"request", "deliver", "reload"}
          /\ paused' = paused
      BY <2>1, AtHead DEF Work
    <3>. QED
      BY <1>3, <3>1 DEF Change
  <2>2. CASE Pause(p)
    <3>1. todo[p][1].op = "pause" /\ paused' = paused + 1
      BY <2>2, AtHead DEF Pause
    <3>. QED
      BY <3>1 DEF Change
  <2>3. CASE Resume(p)
    <3>1. todo[p][1].op = "resume" /\ paused' = paused - 1
      BY <2>3, AtHead DEF Resume
    <3>. QED
      BY <1>3, <3>1 DEF Change
  <2>4. CASE CancelAutomatic(p)
    <3>1. todo[p][1].op = "cancelAutomatic" /\ paused' = paused
      BY <2>4, AtHead DEF CancelAutomatic
    <3>. QED
      BY <1>3, <3>1 DEF Change
  <2>. QED
    BY <2>1, <2>2, <2>3, <2>4
<1>7. /\ cancelled' \in BOOLEAN
      /\ cancelled => cancelled'
      /\ todo[p][1].op = "cancelAutomatic" => (AutomaticRun => cancelled')
  <2>1. CASE CancelAutomatic(p)
    <3>1. AutomaticRun \in BOOLEAN
      BY DEF AutomaticRun
    <3>. QED
      BY <1>3, <2>1, <3>1 DEF CancelAutomatic
  <2>2. CASE Work(p) \/ Pause(p) \/ Resume(p)
    <3>1. todo[p][1].op # "cancelAutomatic" /\ cancelled' = cancelled
      BY <2>2, AtHead DEF Work, Pause, Resume
    <3>. QED
      BY <1>3, <3>1
  <2>. QED
    BY <2>1, <2>2
<1>. QED
  BY <1>1, <1>2, <1>3, <1>4, <1>5, <1>6, <1>7, AdvanceIInv

LEMMA TrySlotIInv ==
  ASSUME IInv, NEW p \in Procs, TrySlot(p)
  PROVE  IInv'
PROOF
<1>1. /\ todo[p] # <<>> /\ todo[p][1].op = "try" /\ Lock(p) = todo[p][1].on
  BY AtHead DEF TrySlot
<1>2. Lock(p) = "slot" /\ todo[p][1].on = "slot"
  <2>1. PICK k \in 0..10 : /\ todo[p][1] = Diagnosis[k + 1]
                           /\ k = 4
    BY DiagnosisStep DEF TrySlot
  <2>2. todo[p][1] = Diagnosis[5]
    BY <2>1
  <2>. QED
    BY <1>1, <2>2, DiagnosisSteps DEF On
<1>3. /\ writer["slot"] = Nobody
      /\ writer' = [writer EXCEPT !["slot"] = p]
      /\ Advance(p)
      /\ UNCHANGED <<readers, waiting, paused, run, cancelled>>
  BY <1>2 DEF TrySlot
<1>4. /\ writer \in [Locks -> Procs \cup {Nobody}]
      /\ readers \in [Locks -> SUBSET Procs]
      /\ waiting \in [Locks -> Procs \cup {Nobody}]
      /\ paused \in Nat
      /\ cancelled \in BOOLEAN
  BY DEF IInv, TypeOK
<1>5. KeepsHeld(p)
  <2>1. ASSUME NEW q \in Procs, NEW m \in Locks, writer[m] = q
        PROVE  writer'[m] = q
    BY <1>3, <1>4, <2>1, NobodyIsNone
  <2>2. writer'["slot"] = p
    BY <1>3, <1>4 DEF Locks
  <2>. QED
    BY <1>1, <1>2, <1>3, <2>1, <2>2, HeldKept
<1>6. writer' \in [Locks -> Procs \cup {Nobody}]
  BY <1>3, <1>4
<1>7. Exclusion'
  <2>1. writer'["runtimeMu"] = writer["runtimeMu"]
    BY <1>3, <1>4
  <2>. QED
    BY <1>3, <2>1 DEF IInv, Exclusion
<1>8. paused' = paused + Change(todo[p][1])
  BY <1>1, <1>3, <1>4 DEF Change
<1>. QED
  BY <1>1, <1>3, <1>4, <1>5, <1>6, <1>7, <1>8, AdvanceIInv

-----------------------------------------------------------------------------
(* The steps of a diagnosis that are not taken one by one, and the starts. *)

(* A goroutine that has paused nothing is afterwards at some place of a    *)
(* diagnosis.                                                              *)
LEMMA DiagnosisIInv ==
  ASSUME IInv, NEW p \in Procs,
         UNCHANGED <<writer, readers, waiting, paused>>,
         NEW t \in Seq(Steps), todo' = [todo EXCEPT ![p] = t],
         run' \in Procs \cup {Nobody},
         cancelled' \in BOOLEAN,
         \A q \in Procs \ {p} : run' = q <=> run = q,
         \A m \in Nat : AtWork(p, m) => m = 0,
         NEW k \in 0..11, DiagnosisAt(p, k)',
         AutomaticRun' =>
           (AutomaticRun /\ (cancelled => cancelled')) \/ paused = 0
  PROVE  IInv'
PROOF
<1>1. /\ TodoOK'
      /\ todo'[p] = t
      /\ \A q \in Procs \ {p} : todo'[q] = todo[q]
  BY DEF IInv, TodoOK
<1>2. OthersKeep(p)
  BY <1>1 DEF OthersKeep, Holds
<1>3. AtWork(p, 0)'
  BY DEF AtWork
<1>4. ASSUME NEW m \in Nat, AtWork(p, m)
      PROVE  m + 0 \in Nat /\ AtWork(p, m + 0)'
  <2>1. m = 0 /\ m + 0 = 0
    BY <1>4
  <2>. QED
    BY <1>3, <2>1
<1>5. Exclusion'
  BY DEF IInv, Exclusion
<1>6. AutomaticYields'
  <2>. SUFFICES ASSUME NEW q \in Procs, InForce(q)', AutomaticRun'
                PROVE  cancelled'
    BY DEF AutomaticYields
  <2>1. Resumes(todo'[q]) /\ ~Cancels(todo'[q])
    BY DEF InForce, Resumes, Cancels
  <2>2. q # p
    BY <2>1, LeftResumes DEF DiagnosisAt
  <2>3. InForce(q)
    BY <1>1, <2>1, <2>2, InForceOps
  <2>4. paused # 0
    BY <2>3, ForcePauses
  <2>. QED
    BY <2>3, <2>4 DEF IInv, AutomaticYields
<1>7. /\ writer' \in [Locks -> Procs \cup {Nobody}]
      /\ readers' \in [Locks -> SUBSET Procs]
      /\ waiting' \in [Locks -> Procs \cup {Nobody}]
      /\ paused \in Nat
  BY DEF IInv, TypeOK
<1>8. paused' = paused + 0
  BY <1>7
<1>9. 0 \in {-1, 0, 1}
  OBVIOUS
<1>. QED
  BY <1>1, <1>2, <1>4, <1>5, <1>6, <1>7, <1>8, <1>9, StepIInv

LEMMA NoPlainPauses ==
  ASSUME NEW p \in Procs, ~Plain(p), NEW m, AtWork(p, m)
  PROVE  m = 0
BY DEF AtWork

LEMMA BeginIInv ==
  ASSUME IInv, NEW p \in Procs, Begin(p)
  PROVE  IInv'
PROOF
<1>1. PICK k \in 0..10 : /\ DiagnosisAt(p, k) /\ k = 1
                         /\ LeftAfter(k + 1, Tail(todo[p]))
  BY DiagnosisStep DEF Begin
<1>2. /\ ~Busy(p)
      /\ run' = p
      /\ cancelled' = FALSE
      /\ todo' = [todo EXCEPT ![p] = Tail(todo[p])]
      /\ UNCHANGED <<writer, readers, waiting, paused>>
  BY DEF Begin, Advance
<1>3. run = Nobody /\ (Automatic(p) => ~(paused > 0)) /\ paused \in Nat
  BY <1>2 DEF Busy, Preempted, Automatic, IInv, TypeOK
<1>4. LeftAfter(2, Tail(todo[p])) /\ Tail(todo[p]) \in Seq(Steps)
  <2>1. k + 1 = 2
    BY <1>1
  <2>2. LeftAfter(2, Tail(todo[p]))
    BY <1>1, <2>1
  <2>. QED
    BY <2>2 DEF LeftAfter
<1>5. todo'[p] = Tail(todo[p])
  BY <1>2 DEF IInv, TodoOK
<1>6. On("runlock", "manualPriorityMu") \in Holds(p)'
  BY <1>1, <1>2 DEF DiagnosisAt, Holds
<1>7. DiagnosisAt(p, 2)'
  BY <1>2, <1>4, <1>5, <1>6 DEF DiagnosisAt
<1>8. \A q \in Procs \ {p} : run' = q <=> run = q
  BY <1>2, <1>3, NobodyIsNone
<1>9. AutomaticRun' => paused = 0
  BY <1>2, <1>3 DEF AutomaticRun, Automatic
<1>10. \A m \in Nat : AtWork(p, m) => m = 0
  <2>1. ~Plain(p)
    BY DiagnosisStep DEF Begin
  <2>. QED
    BY <2>1, NoPlainPauses
<1>11. run' \in Procs \cup {Nobody} /\ cancelled' \in BOOLEAN
  BY <1>2
<1>12. 2 \in 0..11
  OBVIOUS
<1>. QED
  BY <1>2, <1>4, <1>7, <1>8, <1>9, <1>10, <1>11, <1>12, DiagnosisIInv

LEMMA EndIInv ==
  ASSUME IInv, NEW p \in Procs, End(p)
  PROVE  IInv'
PROOF
<1>1. PICK k \in 0..10 : /\ DiagnosisAt(p, k) /\ k = 9
                         /\ LeftAfter(k + 1, Tail(todo[p]))
  BY DiagnosisStep DEF End
<1>2. /\ run' = Nobody
      /\ cancelled' = FALSE
      /\ todo' = [todo EXCEPT ![p] = Tail(todo[p])]
      /\ UNCHANGED <<writer, readers, waiting, paused>>
  BY DEF End, Advance
<1>3. run = p
  BY <1>1 DEF DiagnosisAt
<1>4. LeftAfter(10, Tail(todo[p])) /\ Tail(todo[p]) \in Seq(Steps)
  BY <1>1 DEF LeftAfter
<1>5. todo'[p] = Tail(todo[p])
  BY <1>2 DEF IInv, TodoOK
<1>6. On("runlock", "manualPriorityMu") \in Holds(p)'
  BY <1>1, <1>2 DEF DiagnosisAt, Holds
<1>7. DiagnosisAt(p, 10)'
  BY <1>2, <1>4, <1>5, <1>6, NobodyIsNone DEF DiagnosisAt
<1>8. \A q \in Procs \ {p} : run' = q <=> run = q
  BY <1>2, <1>3, NobodyIsNone
<1>9. ~AutomaticRun'
  BY <1>2, NobodyIsNone DEF AutomaticRun
<1>10. \A m \in Nat : AtWork(p, m) => m = 0
  <2>1. ~Plain(p)
    BY DiagnosisStep DEF End
  <2>. QED
    BY <2>1, NoPlainPauses
<1>11. run' \in Procs \cup {Nobody} /\ cancelled' \in BOOLEAN
  BY <1>2
<1>12. 10 \in 0..11
  OBVIOUS
<1>. QED
  BY <1>2, <1>4, <1>7, <1>8, <1>9, <1>10, <1>11, <1>12, DiagnosisIInv

LEMMA LeftFrom ==
  ASSUME NEW k \in 0..11, NEW t, LeftAfter(k, t), NEW i \in 1..(11 - k)
  PROVE  LeftAfter(k + i, SubSeq(t, i + 1, Len(t)))
PROOF
<1>. DEFINE r == SubSeq(t, i + 1, Len(t))
<1>1. t \in Seq(Steps) /\ Len(t) = 11 - k
  BY DEF LeftAfter
<1>2. /\ r \in Seq(Steps)
      /\ Len(r) = 11 - (k + i)
      /\ \A j \in 1..(11 - (k + i)) : r[j] = t[i + j]
  <2>1. \A j \in (i + 1)..Len(t) : t[j] \in Steps
    BY <1>1, ElementOfSeq
  <2>2. IF i + 1 <= Len(t) THEN Len(r) = Len(t) - i ELSE Len(r) = 0
    BY <1>1
  <2>3. Len(r) = 11 - (k + i)
    BY <1>1, <2>2
  <2>4. r \in Seq(Steps)
    BY <1>1, <2>1, SubSeqProperties
  <2>5. ASSUME NEW j \in 1..(11 - (k + i))
        PROVE  r[j] = t[i + j]
    BY <1>1
  <2>. QED
    BY <2>3, <2>4, <2>5
<1>. HIDE DEF r
<1>3. ASSUME NEW j \in 1..(11 - (k + i))
      PROVE  r[j] = Diagnosis[k + i + j]
  <2>1. i + j \in 1..(11 - k) /\ k + (i + j) = k + i + j
    OBVIOUS
  <2>2. t[i + j] = Diagnosis[k + (i + j)]
    BY <2>1 DEF LeftAfter
  <2>. QED
    BY <1>2, <2>1, <2>2
<1>. QED
  BY <1>2, <1>3 DEF LeftAfter, r

(* After the end of a run one step is left.                                *)
LEMMA LeftEnd ==
  ASSUME NEW k \in 0..11, NEW t, LeftAfter(k, t),
         NEW i \in DOMAIN t, t[i] = Op("end")
  PROVE  LeftAfter(10, SubSeq(t, i + 1, Len(t)))
PROOF
<1>1. i \in 1..(11 - k)
  BY LenProperties DEF LeftAfter
<1>2. t[i] = Diagnosis[k + i]
  BY <1>1 DEF LeftAfter
<1>3. Diagnosis[k + i].op = "end" /\ k + i \in 1..11
  BY <1>1, <1>2 DEF Op
<1>4. k + i = 10
  BY <1>3, DiagnosisOps
<1>5. LeftAfter(k + i, SubSeq(t, i + 1, Len(t)))
  BY <1>1, LeftFrom
<1>. QED
  BY <1>4, <1>5

(* A diagnosis that skips what it does not perform.                        *)
LEMMA SkipIInv ==
  ASSUME IInv, NEW p \in Procs, ~Plain(p),
         UNCHANGED <<writer, readers, waiting, paused, run, cancelled>>,
         NEW k \in 0..11, DiagnosisAt(p, k),
         NEW m \in 0..11, NEW t, LeftAfter(m, t),
         todo' = [todo EXCEPT ![p] = t],
         (k = 1 /\ m = 10) \/ (k = 4 /\ m = 7)
  PROVE  IInv'
PROOF
<1>1. t \in Seq(Steps)
  BY DEF LeftAfter
<1>2. todo'[p] = t
  BY DEF IInv, TodoOK
<1>3. Holds(p)' = Holds(p)
  BY DEF Holds
<1>4. DiagnosisAt(p, m)'
  BY <1>2, <1>3 DEF DiagnosisAt
<1>5. AutomaticRun' => AutomaticRun /\ (cancelled => cancelled')
  BY DEF AutomaticRun, Automatic
<1>6. run' \in Procs \cup {Nobody} /\ cancelled' \in BOOLEAN
  BY DEF IInv, TypeOK
<1>7. \A n \in Nat : AtWork(p, n) => n = 0
  BY NoPlainPauses
<1>8. \A q \in Procs \ {p} : run' = q <=> run = q
  OBVIOUS
<1>. QED
  BY <1>1, <1>4, <1>5, <1>6, <1>7, <1>8, DiagnosisIInv

LEMMA RefusedIInv ==
  ASSUME IInv, NEW p \in Procs, Refused(p)
  PROVE  IInv'
PROOF
<1>1. PICK k \in 0..10 : DiagnosisAt(p, k) /\ k = 1
  BY DiagnosisStep DEF Refused
<1>2. ~Plain(p)
  BY DiagnosisStep DEF Refused
<1>3. \E r : todo' = [todo EXCEPT ![p] = r] /\ LeftAfter(10, r)
  <2>1. PICK i \in DOMAIN todo[p] :
          /\ todo[p][i] = Op("end")
          /\ todo' = [todo EXCEPT ![p] = SubSeq(todo[p], i + 1, Len(todo[p]))]
    BY DEF Refused
  <2>2. LeftAfter(1, todo[p]) /\ 1 \in 0..11
    BY <1>1 DEF DiagnosisAt
  <2>3. LeftAfter(10, SubSeq(todo[p], i + 1, Len(todo[p])))
    BY <2>1, <2>2, LeftEnd
  <2>. QED
    BY <2>1, <2>3
<1>4. PICK r : todo' = [todo EXCEPT ![p] = r] /\ LeftAfter(10, r)
  BY <1>3
<1>5. UNCHANGED <<writer, readers, waiting, paused, run, cancelled>>
  BY DEF Refused
<1>6. k \in 0..11 /\ 10 \in 0..11
  BY <1>1
<1>. QED
  BY <1>1, <1>2, <1>4, <1>5, <1>6, SkipIInv

LEMMA GiveUpIInv ==
  ASSUME IInv, NEW p \in Procs, GiveUpSlot(p)
  PROVE  IInv'
PROOF
<1>1. PICK k \in 0..10 : DiagnosisAt(p, k) /\ k = 4
  BY DiagnosisStep DEF GiveUpSlot
<1>2. ~Plain(p)
  BY DiagnosisStep DEF GiveUpSlot
<1>. DEFINE r == SubSeq(todo[p], 3 + 1, Len(todo[p]))
<1>3. todo' = [todo EXCEPT ![p] = r]
  <2>1. Len(TriedProbe) = 3
    BY DEF TriedProbe
  <2>. QED
    BY <2>1 DEF GiveUpSlot
<1>4. LeftAfter(4, todo[p]) /\ 4 \in 0..11 /\ 3 \in 1..(11 - 4)
      /\ 4 + 3 = 7 /\ 7 \in 0..11
  BY <1>1 DEF DiagnosisAt
<1>5. LeftAfter(4 + 3, r)
  BY <1>4, LeftFrom
<1>. HIDE DEF r
<1>6. UNCHANGED <<writer, readers, waiting, paused, run, cancelled>>
  BY DEF GiveUpSlot
<1>7. LeftAfter(7, r)
  BY <1>4, <1>5
<1>. QED
  BY <1>1, <1>2, <1>3, <1>4, <1>6, <1>7, SkipIInv

(* Who has nothing to do has no pause in force and no run.                 *)
LEMMA IdleHasNothing ==
  ASSUME IInv, NEW p \in Procs, todo[p] = <<>>
  PROVE  run # p /\ \A m \in Nat : AtWork(p, m) => m = 0
PROOF
<1>1. ASSUME NEW k \in 0..11, DiagnosisAt(p, k)
      PROVE  run # p
  <2>1. Len(todo[p]) = 11 - k /\ Len(todo[p]) = 0
    BY <1>1, EmptySeq DEF DiagnosisAt, LeftAfter
  <2>2. k = 11
    BY <2>1
  <2>. QED
    BY <1>1, <2>2 DEF DiagnosisAt
<1>2. run # p
  BY <1>1, WhereItIs DEF Plain
<1>3. \A m \in Nat : AtWork(p, m) => m = 0
  BY NestedEmpty DEF AtWork
<1>. QED
  BY <1>2, <1>3

LEMMA StartIInv ==
  ASSUME IInv, NEW p \in Procs, Start(p)
  PROVE  IInv'
PROOF
<1>1. PICK kind \in Serves[p] : \E program \in Program(kind) :
        todo' = [todo EXCEPT ![p] = program]
  BY DEF Start
<1>2. PICK program \in Program(kind) : todo' = [todo EXCEPT ![p] = program]
  BY <1>1
<1>3. kind \in Kinds
  BY <1>1, CheckRuntimeAssumption
<1>4. /\ todo[p] = <<>>
      /\ UNCHANGED <<writer, readers, waiting, paused, run, cancelled>>
  BY DEF Start
<1>5. /\ todo'[p] = program
      /\ \A q \in Procs \ {p} : todo'[q] = todo[q]
  BY <1>2 DEF IInv, TodoOK
<1>6. /\ run # p
      /\ \A m \in Nat : AtWork(p, m) => m = 0
      /\ \A q \in Procs \ {p} : run' = q <=> run = q
  BY <1>4, IdleHasNothing
<1>7. /\ run' \in Procs \cup {Nobody} /\ cancelled' \in BOOLEAN
      /\ writer' \in [Locks -> Procs \cup {Nobody}]
      /\ readers' \in [Locks -> SUBSET Procs]
      /\ waiting' \in [Locks -> Procs \cup {Nobody}]
      /\ paused \in Nat
  BY <1>4 DEF IInv, TypeOK
<1>8. AutomaticRun' => AutomaticRun /\ (cancelled => cancelled')
  BY <1>4 DEF AutomaticRun, Automatic
<1>9. CASE kind \in Diagnoses
  <2>1. program = Diagnosis
    BY <1>2, <1>9 DEF Program, Diagnoses
  <2>2. LeftAfter(0, program) /\ program \in Seq(Steps)
    <3>1. \A i \in 1..11 : 0 + i = i
      OBVIOUS
    <3>. QED
      BY <2>1, <3>1, DiagnosisSteps DEF LeftAfter
  <2>3. DiagnosisAt(p, 0)'
    BY <1>4, <1>5, <1>6, <2>2 DEF DiagnosisAt
  <2>4. 0 \in 0..11
    OBVIOUS
  <2>. QED
    BY <1>2, <1>4, <1>6, <1>7, <1>8, <2>2, <2>3, <2>4, DiagnosisIInv
<1>10. CASE kind \notin Diagnoses
  <2>1. Regular(program, Locks)
    BY <1>2, <1>3, <1>10, ProgramsRegular
  <2>2. /\ program \in Seq(StepsUpTo(Locks))
        /\ Guarded(program, Holds(p)')
        /\ PausePaired(program)
        /\ Nested(program, 0)
    BY <2>1, GuardedMonotonic DEF Regular, RegularIn
  <2>3. TodoOK'
    <3>1. program \in Seq(Steps)
      BY <2>2, StepsMore, SeqMonotonic
    <3>. QED
      BY <1>2, <3>1 DEF IInv, TodoOK
  <2>4. AtWork(p, 0)'
    <3>1. Plain(p)'
      BY <1>4, <1>5, <1>6, <2>2 DEF Plain
    <3>. QED
      BY <1>5, <2>2, <3>1 DEF AtWork
  <2>5. OthersKeep(p)
    BY <1>4, <1>5 DEF OthersKeep, Holds
  <2>6. Exclusion'
    BY <1>4 DEF IInv, Exclusion
  <2>7. AutomaticYields'
    <3>. SUFFICES ASSUME NEW q \in Procs, InForce(q)', AutomaticRun'
                  PROVE  cancelled'
      BY DEF AutomaticYields
    <3>1. Resumes(todo'[q]) /\ ~Cancels(todo'[q])
      BY DEF InForce, Resumes, Cancels
    <3>2. q # p
      <4>1. SUFFICES ASSUME q = p
                     PROVE  FALSE
        OBVIOUS
      <4>2. 0 >= 1
        BY <1>5, <2>2, <3>1, <4>1, NestedPausing
      <4>. QED
        BY <4>2
    <3>3. InForce(q)
      BY <1>5, <3>1, <3>2, InForceOps
    <3>. QED
      BY <1>8, <3>3 DEF IInv, AutomaticYields
  <2>8. ASSUME NEW m \in Nat, AtWork(p, m)
        PROVE  m + 0 \in Nat /\ AtWork(p, m + 0)'
    <3>1. m = 0 /\ m + 0 = 0
      BY <1>6, <2>8
    <3>. QED
      BY <2>4, <3>1
  <2>9. paused' = paused + 0 /\ 0 \in {-1, 0, 1}
    BY <1>4, <1>7
  <2>. QED
    BY <1>7, <2>3, <2>5, <2>6, <2>7, <2>8, <2>9, StepIInv
<1>. QED
  BY <1>9, <1>10

-----------------------------------------------------------------------------
LEMMA InitIInv == Init => IInv
PROOF
<1>. SUFFICES ASSUME Init
              PROVE  IInv
  OBVIOUS
<1>1. Len(<<>>) = 0 /\ \A S : <<>> \in Seq(S)
  BY EmptySeq
<1>2. \A p \in Procs : todo[p] = <<>> /\ run # p
  BY NobodyIsNone DEF Init
<1>3. TypeOK /\ TodoOK
  BY <1>1 DEF Init, TypeOK, TodoOK
<1>4. ASSUME NEW p \in Procs
      PROVE  AtWork(p, 0)
  <2>1. /\ Guarded(<<>>, Holds(p))
        /\ PausePaired(<<>>) /\ <<>> \in Seq(StepsUpTo(Locks))
        /\ Nested(<<>>, 0)
    BY EmptyRegular, GuardedMonotonic DEF Regular, RegularIn
  <2>. QED
    BY <1>2, <2>1 DEF AtWork, Plain
<1>5. Exclusion
  BY DEF Init, Exclusion, Locks, RWLocks
<1>6. Pauses
  <2>. DEFINE d == [p \in Procs |-> 0]
  <2>1. Open(d) = {}
    BY DEF Open
  <2>2. IsFiniteSet(Open(d)) /\ Cardinality(Open(d)) = 0
    BY <2>1, FS_EmptySet
  <2>3. d \in [Procs -> Nat] /\ \A p \in Procs : d[p] = 0
    OBVIOUS
  <2>. HIDE DEF d
  <2>4. \A p \in Procs : AtWork(p, d[p])
    BY <1>4, <2>3
  <2>. QED
    BY <2>2, <2>3, <2>4 DEF Pauses, Init
<1>7. AutomaticYields
  BY <1>2 DEF AutomaticYields, AutomaticRun
<1>. QED
  BY <1>3, <1>5, <1>6, <1>7 DEF IInv

LEMMA NextIInv == IInv /\ [Next]_vars => IInv'
PROOF
<1>. SUFFICES ASSUME IInv, [Next]_vars
              PROVE  IInv'
  OBVIOUS
<1>1. ASSUME NEW p \in Procs, Start(p)
      PROVE  IInv'
  BY <1>1, StartIInv
<1>2. ASSUME NEW p \in Procs, Step(p)
      PROVE  IInv'
  BY <1>2, AnnounceIInv, TakeLockIInv, UnlockIInv, TakeRLockIInv,
     RUnlockIInv, PriorityIInv, BeginIInv, RefusedIInv, TrySlotIInv,
     GiveUpIInv, EndIInv DEF Step
<1>3. CASE UNCHANGED vars
  <2>1. TypeOK'
    BY <1>3 DEF IInv, TypeOK, vars
  <2>. QED
    BY <1>3, <2>1, UnmovedIInv DEF vars
<1>. QED
  BY <1>1, <1>2, <1>3 DEF Next

LEMMA Invariant == Spec => []IInv
BY InitIInv, NextIInv, PTL DEF Spec

-----------------------------------------------------------------------------
(* The variables keep their types; in particular the counter of pauses     *)
(* never falls below zero: every resume has its own pause.                 *)
THEOREM CheckRuntimeTypeOK == Spec => []TypeOK
PROOF
<1>1. IInv => TypeOK
  BY DEF IInv
<1>. QED
  BY <1>1, Invariant, PTL

(* However many goroutines take part, and whatever each of them does one   *)
(* after another: while Xray is restarted, no check, diagnosis or access   *)
(* check has a request under way through its SOCKS listeners.              *)
THEOREM SocksStayUndisturbed == Spec => []SocksUndisturbed
PROOF
<1>1. IInv => SocksUndisturbed
  <2>. SUFFICES ASSUME IInv, NEW p \in Procs, NEW q \in Procs,
                       At(p, "reload"), At(q, "request")
                PROVE  FALSE
    BY DEF SocksUndisturbed
  <2>1. readers["runtimeMu"] = {}
    BY ReloadsAlone
  <2>2. q \in readers["runtimeMu"]
    BY RequestsPinned
  <2>. QED
    BY <2>1, <2>2
<1>. QED
  BY <1>1, Invariant, PTL

(* A diagnosis is between its begin and its end exactly when it is the run *)
(* that the state names, so two never run at once.                         *)
THEOREM DiagnosesExclude == Spec => []OneDiagnosis
PROOF
<1>1. IInv => OneDiagnosis
  <2>. SUFFICES ASSUME IInv, NEW p \in Procs
                PROVE  Diagnosing(p) <=> run = p
    BY DEF OneDiagnosis
  <2>1. CASE Plain(p)
    <3>1. todo[p] \in Seq(StepsUpTo(Locks)) /\ run # p
      BY <2>1 DEF Plain
    <3>2. ASSUME NEW i \in DOMAIN todo[p]
          PROVE  todo[p][i].op # "end"
      <4>1. todo[p][i] \in StepsUpTo(Locks)
        BY <3>1, ElementOfSeq, LenProperties
      <4>. QED
        BY <4>1 DEF StepsUpTo
    <3>. QED
      BY <3>1, <3>2 DEF Diagnosing
  <2>2. ASSUME NEW k \in 0..11, DiagnosisAt(p, k)
        PROVE  Diagnosing(p) <=> run = p
    BY <2>2, LeftDiagnosing DEF DiagnosisAt
  <2>. QED
    BY <2>1, <2>2, WhereItIs
<1>. QED
  BY <1>1, Invariant, PTL

(* While a reload or a manual action that has cancelled background work is *)
(* at it, no automatic diagnosis runs uncancelled.                         *)
THEOREM AutomaticAlwaysYields == Spec => []AutomaticYields
PROOF
<1>1. IInv => AutomaticYields
  BY DEF IInv
<1>. QED
  BY <1>1, Invariant, PTL

(* None starts then either, however many such actions overlap.             *)
THEOREM NothingIsStartedAhead == Spec => NothingStartsAhead
PROOF
<1>. DEFINE Ahead ==
       \A p \in Procs :
         InForce(p) => ~(~AutomaticRun /\ AutomaticRun')
<1>1. IInv /\ [Next]_vars => [Ahead]_vars
  <2>. SUFFICES ASSUME IInv, Next, NEW q \in Procs, InForce(q),
                       ~AutomaticRun, AutomaticRun'
                PROVE  FALSE
    BY DEF vars
  <2>1. paused > 0
    BY ForcePauses
  <2>2. PICK p \in Procs : Start(p) \/ Step(p)
    BY DEF Next
  <2>3. CASE Begin(p)
    <3>1. run' = p /\ ~Busy(p)
      BY <2>3 DEF Begin
    <3>2. Automatic(p)
      BY <3>1 DEF AutomaticRun, Automatic
    <3>. QED
      BY <2>1, <3>1, <3>2 DEF Busy, Preempted
  <2>4. CASE End(p)
    BY <2>4, NobodyIsNone DEF End, AutomaticRun
  <2>5. CASE UNCHANGED run
    BY <2>5 DEF AutomaticRun, Automatic
  <2>. QED
    BY <2>2, <2>3, <2>4, <2>5
       DEF Step, Start, AnnounceWriter, TakeLock, Unlock, TakeRLock,
           RUnlock, Work, Pause, Resume, CancelAutomatic, Refused,
           TrySlot, GiveUpSlot
<1>. QED
  BY <1>1, Invariant, PTL DEF Spec, NothingStartsAhead

(* Go ends the program when a mutex is unlocked that is not locked, or a   *)
(* reader leaves that is not in: every goroutine gives back only what it   *)
(* has taken itself.                                                       *)
THEOREM UnlocksItsOwn ==
  Spec => [](\A p \in Procs :
               /\ At(p, "unlock") => writer[Lock(p)] = p
               /\ At(p, "runlock") => p \in readers[Lock(p)])
PROOF
<1>. DEFINE Own == \A p \in Procs :
               /\ At(p, "unlock") => writer[Lock(p)] = p
               /\ At(p, "runlock") => p \in readers[Lock(p)]
<1>1. IInv => Own
  <2>. SUFFICES ASSUME IInv, NEW p \in Procs,
                       NEW name \in {"unlock", "runlock"}, At(p, name)
                PROVE  /\ name = "unlock" => writer[Lock(p)] = p
                       /\ name = "runlock" => p \in readers[Lock(p)]
    OBVIOUS
  <2>1. /\ Lock(p) \in Locks
        /\ On(name, Lock(p)) \in Holds(p)
    BY FreesItsOwn
  <2>. QED
    BY <2>1, HoldsAre
<1>. QED
  BY <1>1, Invariant, PTL

(* When nothing is under way no pause is left behind, so automatic         *)
(* diagnosis is not refused for ever by an action that is over.            *)
THEOREM NoPauseIsLeft ==
  Spec => []((\A p \in Procs : todo[p] = <<>>) => paused = 0)
PROOF
<1>1. IInv => ((\A p \in Procs : todo[p] = <<>>) => paused = 0)
  <2>. SUFFICES ASSUME IInv, \A p \in Procs : todo[p] = <<>>
                PROVE  paused = 0
    OBVIOUS
  <2>1. PICK d \in [Procs -> Nat] :
          /\ paused = Cardinality(Open(d))
          /\ \A p \in Procs : AtWork(p, d[p])
    BY DEF IInv, Pauses
  <2>2. \A p \in Procs : d[p] = 0
    BY <2>1, IdleHasNothing
  <2>3. Open(d) = {}
    BY <2>2 DEF Open
  <2>. QED
    BY <2>1, <2>3, FS_EmptySet
<1>. QED
  BY <1>1, Invariant, PTL

=============================================================================
