---------------------- MODULE SubscriptionUpdate_proofs ----------------------
(***************************************************************************)
(* What a plan pairs, and what results, keys and mass revisions keep to,   *)
(* for every set of bindings in any order, every identity of connections   *)
(* and every size of a mass revision.                                      *)
(***************************************************************************)
EXTENDS SubscriptionUpdate, WellFoundedInduction, FiniteSetTheorems, TLAPS

(* Every set of numbers has a least one: induction over the places of the  *)
(* order is done with the least place where a claim fails.                 *)
LEMMA LeastNumber ==
  ASSUME NEW S, S \subseteq Nat, S # {}
  PROVE  \E x \in S : \A y \in S : x <= y
PROOF
<1>1. PICK x \in S : \A y \in S : ~(<<y, x>> \in OpToRel(<, Nat))
  BY NatLessThanWellFounded, WFMin
<1>2. \A y \in S : ~(y < x)
  BY <1>1 DEF OpToRel
<1>. QED
  BY <1>2

LEMMA Places ==
  /\ Len(Order) \in Nat
  /\ \A i \in 1..Len(Order) : Order[i] \in Bindings
  /\ \A b \in Bindings : /\ Rank(b) \in 1..Len(Order)
                         /\ Order[Rank(b)] = b
PROOF
<1>1. Order \in Seq(Bindings)
  BY SubscriptionUpdateAssumption
<1>2. Len(Order) \in Nat /\ DOMAIN Order = 1..Len(Order)
  BY <1>1
<1>3. \A b \in Bindings : \E i \in DOMAIN Order : Order[i] = b
  BY DEF Bindings
<1>. QED
  BY <1>2, <1>3 DEF Bindings, Rank

(* A recursive definition over the places of the order has a value, and    *)
(* what holds at first and is kept by each step holds at the end.          *)
LEMMA MatchSteps ==
  ASSUME NEW old, NEW new, NEW taken, NEW key, NEW P,
         <<0, taken>> \in P,
         \A i \in 1..Len(Order) : \A t : <<i - 1, t>> \in P =>
           <<i, IF Order[i] \in new THEN TakeOver(old, t, Order[i], key)
                ELSE t>> \in P
  PROVE  <<Len(Order), Match(old, new, taken, key)>> \in P
PROOF
<1>. DEFINE N == Len(Order)
            Step(t, i) == IF Order[i] \in new
                          THEN TakeOver(old, t, Order[i], key) ELSE t
            upTo == CHOOSE g : g = [i \in 0..N |->
                      IF i = 0 THEN taken ELSE Step(g[i - 1], i)]
<1>1. Match(old, new, taken, key) = upTo[N]
  BY DEF Match
<1>2. N \in Nat
  BY Places
<1>. DEFINE T == {p[2] : p \in P}
            Traces(n) == {g \in [0..n -> T] :
              /\ g[0] = taken
              /\ \A i \in 1..n : g[i] = Step(g[i - 1], i)
              /\ \A i \in 0..n : <<i, g[i]>> \in P}
            Missing == {n \in 0..N : Traces(n) = {}}
<1>3. taken \in T /\ \A i \in 1..N, t \in T :
        <<i - 1, t>> \in P => Step(t, i) \in T /\ <<i, Step(t, i)>> \in P
  <2>1. \A i, t : <<i, t>> \in P => t \in T
    <3>1. \A i, t : <<i, t>>[2] = t
      OBVIOUS
    <3>. QED
      BY <3>1
  <2>2. \A i \in 1..N, t \in T : <<i - 1, t>> \in P => <<i, Step(t, i)>> \in P
    OBVIOUS
  <2>. HIDE DEF T, Step
  <2>. QED
    BY <2>1, <2>2
<1>. HIDE DEF T, Step, upTo
<1>4. Traces(0) # {}
  <2>1. [i \in 0..0 |-> taken] \in Traces(0)
    BY <1>3
  <2>. QED
    BY <2>1
<1>5. ASSUME NEW n \in 1..N, NEW g \in Traces(n - 1)
      PROVE  [i \in 0..n |-> IF i = n THEN Step(g[n - 1], n) ELSE g[i]]
               \in Traces(n)
  <2>. DEFINE h == [i \in 0..n |-> IF i = n THEN Step(g[n - 1], n) ELSE g[i]]
  <2>1. n \in Nat /\ n > 0 /\ n <= N /\ n - 1 \in 0..(n - 1)
    BY <1>2
  <2>2. /\ g \in [0..(n - 1) -> T] /\ g[0] = taken
        /\ \A i \in 1..(n - 1) : g[i] = Step(g[i - 1], i)
        /\ \A i \in 0..(n - 1) : <<i, g[i]>> \in P
    OBVIOUS
  <2>3. Step(g[n - 1], n) \in T /\ <<n, Step(g[n - 1], n)>> \in P
    <3>1. g[n - 1] \in T /\ <<n - 1, g[n - 1]>> \in P
      BY <2>1, <2>2
    <3>. QED
      BY <1>3, <3>1
  <2>4. \A i \in 0..n : i # n => i \in 0..(n - 1)
    BY <2>1
  <2>5. h \in [0..n -> T] /\ \A i \in 0..n : <<i, h[i]>> \in P
    BY <2>2, <2>3, <2>4
  <2>6. h[0] = taken
    BY <2>1, <2>2
  <2>7. ASSUME NEW i \in 1..n PROVE h[i] = Step(h[i - 1], i)
    <3>1. i \in 0..n /\ i - 1 \in 0..n /\ i - 1 # n
      BY <2>1
    <3>2. h[i - 1] = g[i - 1]
      BY <3>1
    <3>3. CASE i = n
      BY <3>1, <3>2, <3>3
    <3>4. CASE i # n
      <4>1. i \in 1..(n - 1)
        BY <2>1, <3>4
      <4>. QED
        BY <2>2, <3>1, <3>2, <3>4, <4>1
    <3>. QED
      BY <3>3, <3>4
  <2>. QED
    BY <2>5, <2>6, <2>7
<1>6. Missing = {}
  <2>. SUFFICES ASSUME Missing # {} PROVE FALSE
    OBVIOUS
  <2>1. PICK n \in Missing : \A m \in Missing : n <= m
    <3>1. Missing \subseteq Nat
      BY <1>2
    <3>. QED
      BY <3>1, LeastNumber
  <2>. HIDE DEF Traces
  <2>2. n \in 0..N /\ Traces(n) = {} /\ n # 0
    BY <1>4, <2>1
  <2>3. n \in 1..N /\ n - 1 \in 0..N /\ ~(n <= n - 1)
    BY <1>2, <2>2
  <2>4. PICK g : g \in Traces(n - 1)
    BY <2>1, <2>3
  <2>. QED
    BY <1>5, <2>2, <2>3, <2>4
<1>7. PICK g : g \in Traces(N)
  BY <1>2, <1>6
<1>8. upTo = [i \in 0..N |-> IF i = 0 THEN taken ELSE Step(upTo[i - 1], i)]
  <2>1. \A i \in 0..N : i # 0 => i \in 1..N
    BY <1>2
  <2>2. g = [i \in 0..N |-> IF i = 0 THEN taken ELSE Step(g[i - 1], i)]
    BY <1>7, <2>1
  <2>. QED
    BY <2>2 DEF upTo
<1>. DEFINE Astray == {i \in 0..N : upTo[i] # g[i]}
<1>9. Astray = {}
  <2>. SUFFICES ASSUME Astray # {} PROVE FALSE
    OBVIOUS
  <2>1. PICK i \in Astray : \A j \in Astray : i <= j
    <3>1. Astray \subseteq Nat
      BY <1>2
    <3>. QED
      BY <3>1, LeastNumber
  <2>2. i # 0 /\ 0 \in 0..N
    BY <1>2, <1>7, <1>8, <2>1
  <2>3. i \in 1..N /\ i - 1 \in 0..N /\ ~(i <= i - 1)
    BY <1>2, <2>1, <2>2
  <2>4. upTo[i - 1] = g[i - 1]
    BY <2>1, <2>3
  <2>5. upTo[i] = Step(upTo[i - 1], i)
    BY <1>8, <2>2, <2>1
  <2>6. g[i] = Step(g[i - 1], i)
    BY <1>7, <2>3
  <2>. QED
    BY <2>1, <2>4, <2>5, <2>6
<1>10. N \in 0..N /\ upTo[N] = g[N]
  BY <1>2, <1>9
<1>. QED
  BY <1>1, <1>7, <1>10

LEMMA FirstAndFinal ==
  ASSUME NEW s, s \subseteq Bindings, s # {}
  PROVE  First(s) \in s /\ Final(s) \in s
PROOF
<1>1. /\ Len(Order) \in Nat
      /\ \A b \in s : Rank(b) \in 1..Len(Order)
  BY Places
<1>2. \E b \in s : \A c \in s : Rank(b) <= Rank(c)
  <2>. DEFINE R == {Rank(b) : b \in s}
  <2>1. R \subseteq Nat /\ R # {}
    BY <1>1
  <2>2. PICK r \in R : \A q \in R : r <= q
    BY <2>1, LeastNumber
  <2>. QED
    BY <2>2
<1>3. \E b \in s : \A c \in s : Rank(b) >= Rank(c)
  <2>. DEFINE R == {Len(Order) - Rank(b) : b \in s}
  <2>1. R \subseteq Nat /\ R # {}
    BY <1>1
  <2>2. PICK r \in R : \A q \in R : r <= q
    BY <2>1, LeastNumber
  <2>3. PICK b \in s : r = Len(Order) - Rank(b)
    BY <2>2
  <2>4. \A c \in s : Len(Order) - Rank(b) <= Len(Order) - Rank(c)
    BY <2>2, <2>3
  <2>. QED
    BY <1>1, <2>3, <2>4
<1>. QED
  BY <1>2, <1>3 DEF First, Final

-----------------------------------------------------------------------------
(* What a plan pairs.                                                      *)

Pairings(old, new) ==
  {t \in UNION {[s -> old] : s \in SUBSET new} :
     \A m, n \in DOMAIN t : t[m] = t[n] => m = n}

LEMMA PairingFacts ==
  ASSUME NEW old, NEW new, NEW t
  PROVE  t \in Pairings(old, new) <=>
           /\ DOMAIN t \subseteq new
           /\ t \in [DOMAIN t -> old]
           /\ \A m, n \in DOMAIN t : t[m] = t[n] => m = n
PROOF
  BY DEF Pairings

(* A step of a pass pairs n with an old binding that is left, or finds     *)
(* none with its key.                                                      *)
Takes(old, new, t, n, key, u) ==
  /\ u \in Pairings(old, new)
  /\ Left(old, u) \subseteq Left(old, t)
  /\ DOMAIN t \subseteq DOMAIN u
  /\ \A m \in DOMAIN t : u[m] = t[m]
  /\ n \in DOMAIN u \/ \A o \in Left(old, t) : key[o] # key[n]
  /\ \A m \in DOMAIN u \ DOMAIN t :
       /\ m = n /\ u[m] \in Left(old, t) /\ key[u[m]] = key[n]
       /\ (\E o \in Left(old, t) : key[o] = key[n] /\ o.host = n.host)
            => u[m].host = n.host

LEMMA TakeOverSteps ==
  ASSUME NEW old \in SUBSET Bindings, NEW new, NEW n \in new, NEW key,
         NEW t \in Pairings(old, new)
  PROVE  Takes(old, new, t, n, key, TakeOver(old, t, n, key))
PROOF
<1>. DEFINE u == TakeOver(old, t, n, key)
            candidates == {o \in Left(old, t) : key[o] = key[n]}
            sameHost == {o \in candidates : o.host = n.host}
            one == First(IF sameHost # {} THEN sameHost ELSE candidates)
<1>1. CASE n \in DOMAIN t \/ candidates = {}
  <2>1. u = t
    BY <1>1 DEF TakeOver
  <2>. QED
    BY <1>1, <2>1 DEF Takes
<1>2. CASE n \notin DOMAIN t /\ candidates # {}
  <2>1. u = [m \in DOMAIN t \cup {n} |-> IF m # n THEN t[m] ELSE one]
    BY <1>2 DEF TakeOver
  <2>2. one \in candidates /\ (sameHost # {} => one.host = n.host)
    <3>1. candidates \subseteq Bindings /\ sameHost \subseteq Bindings
      BY DEF Left
    <3>. HIDE DEF candidates
    <3>2. sameHost # {} => First(sameHost) \in sameHost
      BY <3>1, FirstAndFinal
    <3>3. First(candidates) \in candidates
      BY <1>2, <3>1, FirstAndFinal
    <3>. QED
      BY <3>2, <3>3
  <2>3. one \in old /\ \A m \in DOMAIN t : t[m] # one
    BY <2>2 DEF Left
  <2>4. /\ DOMAIN t \subseteq new /\ t \in [DOMAIN t -> old]
        /\ \A m, k \in DOMAIN t : t[m] = t[k] => m = k
    BY PairingFacts
  <2>. HIDE DEF u, one, candidates, sameHost
  <2>5. /\ DOMAIN u = DOMAIN t \cup {n} /\ u[n] = one
        /\ \A m \in DOMAIN t : u[m] = t[m]
    BY <1>2, <2>1
  <2>6. u \in Pairings(old, new)
    <3>1. u \in [DOMAIN u -> old] /\ DOMAIN u \subseteq new
      BY <2>1, <2>3, <2>4, <2>5
    <3>2. ASSUME NEW m \in DOMAIN u, NEW k \in DOMAIN u, u[m] = u[k]
          PROVE  m = k
      BY <2>3, <2>4, <2>5, <3>2
    <3>. QED
      BY <3>1, <3>2, PairingFacts
  <2>7. Left(old, u) \subseteq Left(old, t)
    BY <2>5 DEF Left
  <2>8. \A m \in DOMAIN u \ DOMAIN t : m = n
    BY <2>5
  <2>9. (\E o \in candidates : o.host = n.host) => one.host = n.host
    BY <2>2 DEF sameHost
  <2>. QED
    BY <1>2, <2>2, <2>5, <2>6, <2>7, <2>8, <2>9 DEF u, candidates, Takes
<1>. QED
  BY <1>1, <1>2

(* A pass pairs each new binding with an old one of its key as long as one *)
(* is left.                                                                *)
LEMMA MatchPairs ==
  ASSUME NEW old, old \subseteq Bindings, NEW new, new \subseteq Bindings,
         NEW key, NEW taken \in Pairings(old, new)
  PROVE  LET t == Match(old, new, taken, key)
         IN /\ t \in Pairings(old, new)
            /\ \A n \in new \ DOMAIN t : \A o \in Left(old, t) :
                 key[o] # key[n]
PROOF
<1>. DEFINE N == Len(Order)
            T == Pairings(old, new)
            Settled(i, t) == \A j \in 1..i :
              Order[j] \in new \ DOMAIN t =>
                \A o \in Left(old, t) : key[o] # key[Order[j]]
            P == {p \in (0..N) \X T : Settled(p[1], p[2])}
            Step(i, t) == IF Order[i] \in new
                          THEN TakeOver(old, t, Order[i], key) ELSE t
<1>1. N \in Nat
  BY Places
<1>2. <<0, taken>> \in P
  <2>1. <<0, taken>> \in (0..N) \X T
    BY <1>1
  <2>2. Settled(0, taken)
    OBVIOUS
  <2>. QED
    BY <2>1, <2>2
<1>3. ASSUME NEW i \in 1..N, NEW t, <<i - 1, t>> \in P
      PROVE  <<i, Step(i, t)>> \in P
  <2>1. i \in 0..N /\ t \in T /\ Settled(i - 1, t)
    BY <1>1, <1>3
  <2>. DEFINE u == Step(i, t)
  <2>2. /\ u \in T /\ DOMAIN t \subseteq DOMAIN u
        /\ Left(old, u) \subseteq Left(old, t)
        /\ Order[i] \in new \ DOMAIN u =>
             \A o \in Left(old, u) : key[o] # key[Order[i]]
    <3>1. CASE Order[i] \in new
      <4>1. u = TakeOver(old, t, Order[i], key)
        BY <3>1
      <4>. HIDE DEF u, Step
      <4>2. Takes(old, new, t, Order[i], key, u)
        BY <2>1, <3>1, <4>1, TakeOverSteps DEF T
      <4>. QED
        BY <4>2 DEF Takes, T
    <3>2. CASE Order[i] \notin new
      BY <2>1, <3>2
    <3>. QED
      BY <3>1, <3>2
  <2>. HIDE DEF u, Step, T
  <2>3. Settled(i, u)
    <3>1. ASSUME NEW j \in 1..i, Order[j] \in new \ DOMAIN u,
                 NEW o \in Left(old, u)
          PROVE  key[o] # key[Order[j]]
      <4>1. CASE j = i
        BY <2>2, <3>1, <4>1
      <4>2. CASE j # i
        <5>1. j \in 1..(i - 1)
          BY <4>2, <1>1
        <5>. QED
          BY <2>1, <2>2, <3>1, <5>1
      <4>. QED
        BY <4>1, <4>2
    <3>. QED
      BY <3>1
  <2>. HIDE DEF Settled
  <2>4. <<i, u>> \in (0..N) \X T
    BY <2>1, <2>2
  <2>5. <<i, u>> \in P
    BY <2>3, <2>4
  <2>. QED
    BY <2>5 DEF u
<1>. HIDE DEF P, T, Step
<1>4. \A i \in 1..Len(Order) : \A t : <<i - 1, t>> \in P =>
        <<i, IF Order[i] \in new THEN TakeOver(old, t, Order[i], key)
             ELSE t>> \in P
  BY <1>3 DEF Step
<1>5. <<Len(Order), Match(old, new, taken, key)>> \in P
  BY <1>2, <1>4, MatchSteps
<1>6. /\ Match(old, new, taken, key) \in T
      /\ Settled(N, Match(old, new, taken, key))
  BY <1>5 DEF P
<1>7. \A n \in new : n = Order[Rank(n)] /\ Rank(n) \in 1..N
  BY Places
<1>. QED
  BY <1>6, <1>7 DEF T

LEMMA PlanPairs ==
  ASSUME NEW old \in Installed, NEW new \in Installed
  PROVE  LET plan == PlanProxyUpdate(old, new)
         IN /\ plan \in Pairings(old, new)
            /\ \A n \in new \ DOMAIN plan : \A o \in Left(old, plan) :
                 o.host # n.host
PROOF
<1>. DEFINE byRevision == Match(old, new, <<>>, Revision)
            plan == Match(old, new, byRevision, Host)
<1>1. PlanProxyUpdate(old, new) = plan
  <2>1. <<old, new>> \in Installed \X Installed
    OBVIOUS
  <2>. QED
    BY <2>1 DEF PlanProxyUpdate, Plans
<1>2. old \subseteq Bindings /\ new \subseteq Bindings
  BY DEF Lists, Installed
<1>3. <<>> \in Pairings(old, new)
  <2>1. DOMAIN <<>> = {}
    OBVIOUS
  <2>2. <<>> \in [{} -> old]
    OBVIOUS
  <2>. QED
    BY <2>1, <2>2, PairingFacts
<1>4. byRevision \in Pairings(old, new)
  BY <1>2, <1>3, MatchPairs
<1>5. /\ plan \in Pairings(old, new)
      /\ \A n \in new \ DOMAIN plan : \A o \in Left(old, plan) :
           Host[o] # Host[n]
  BY <1>2, <1>4, MatchPairs
<1>6. \A b \in Bindings : Host[b] = b.host
  BY DEF Host
<1>. HIDE DEF plan
<1>7. \A o \in Left(old, plan) : o \in Bindings
  BY <1>2 DEF Left
<1>. QED
  BY <1>1, <1>2, <1>5, <1>6, <1>7

(* A list agrees with itself, so it is no mass revision of itself.         *)
LEMMA PlanOfItself ==
  ASSUME NEW s \in Installed
  PROVE  Changed(PlanProxyUpdate(s, s)) = {}
PROOF
<1>. DEFINE N == Len(Order)
            T == {t \in Pairings(s, s) : \A n \in DOMAIN t : t[n] = n}
            byRevision == Match(s, s, <<>>, Revision)
            plan == Match(s, s, byRevision, Host)
<1>1. s \subseteq Bindings /\ N \in Nat
  BY Places DEF Lists, Installed
<1>2. ASSUME NEW m \in s, NEW n \in s, m.host = n.host, m.rev = n.rev
      PROVE  m = n
  BY <1>1, <1>2, SubscriptionUpdateAssumption DEF Lists, Installed, Endpoint
<1>3. \A b \in s : Revision[b] = b.rev
  BY <1>1 DEF Revision
<1>4. <<>> \in Pairings(s, s) /\ <<>> \in T
  <2>1. DOMAIN <<>> = {} /\ <<>> \in [{} -> s]
    OBVIOUS
  <2>. QED
    BY <2>1, PairingFacts
<1>5. ASSUME NEW t \in T, NEW n \in s
      PROVE  TakeOver(s, t, n, Revision) \in T
  <2>. DEFINE u == TakeOver(s, t, n, Revision)
  <2>1. /\ t \in Pairings(s, s) /\ \A m \in DOMAIN t : t[m] = m
        /\ u = TakeOver(s, t, n, Revision)
    OBVIOUS
  <2>. HIDE DEF u, T
  <2>2. Takes(s, s, t, n, Revision, u)
    BY <1>1, <2>1, TakeOverSteps
  <2>3. ASSUME NEW m \in DOMAIN u \ DOMAIN t
        PROVE  u[m] = m
    <3>1. m = n /\ u[m] \in s /\ Revision[u[m]] = Revision[n]
      BY <2>2, <2>3 DEF Takes, Left
    <3>2. n \in Left(s, t)
      BY <2>1, <2>3, <3>1 DEF Left
    <3>3. u[m].host = n.host
      BY <2>2, <2>3, <3>2 DEF Takes
    <3>. QED
      BY <1>2, <1>3, <3>1, <3>3
  <2>4. u \in T
    BY <2>1, <2>2, <2>3 DEF T, Takes
  <2>. QED
    BY <2>4 DEF u
<1>. HIDE DEF T
<1>6. byRevision \in T
  <2>. DEFINE P == (0..N) \X T
  <2>1. <<0, <<>>>> \in P
    BY <1>1, <1>4
  <2>2. \A i \in 1..Len(Order) : \A t : <<i - 1, t>> \in P =>
          <<i, IF Order[i] \in s THEN TakeOver(s, t, Order[i], Revision)
               ELSE t>> \in P
    BY <1>1, <1>5
  <2>. HIDE DEF P
  <2>3. <<Len(Order), byRevision>> \in P
    BY <2>1, <2>2, MatchSteps
  <2>. QED
    BY <2>3 DEF P
<1>7. /\ byRevision \in Pairings(s, s) /\ DOMAIN byRevision = s
      /\ \A n \in s : byRevision[n] = n
  <2>1. /\ byRevision \in Pairings(s, s) /\ DOMAIN byRevision \subseteq s
        /\ \A n \in DOMAIN byRevision : byRevision[n] = n
    BY <1>6, PairingFacts DEF T
  <2>2. \A n \in s \ DOMAIN byRevision : \A o \in Left(s, byRevision) :
          Revision[o] # Revision[n]
    BY <1>1, <1>4, MatchPairs
  <2>3. s \ DOMAIN byRevision = {}
    BY <2>1, <2>2 DEF Left
  <2>. QED
    BY <2>1, <2>3
<1>. HIDE DEF byRevision
<1>8. plan = byRevision
  <2>. DEFINE P == (0..N) \X {byRevision}
  <2>1. <<0, byRevision>> \in P
    BY <1>1
  <2>2. \A n \in s : TakeOver(s, byRevision, n, Host) = byRevision
    BY <1>7 DEF TakeOver
  <2>3. \A i \in 1..Len(Order) : \A t : <<i - 1, t>> \in P =>
          <<i, IF Order[i] \in s THEN TakeOver(s, t, Order[i], Host)
               ELSE t>> \in P
    BY <1>1, <2>2
  <2>. HIDE DEF P
  <2>4. <<Len(Order), plan>> \in P
    BY <2>1, <2>3, MatchSteps
  <2>. QED
    BY <2>4 DEF P
<1>9. PlanProxyUpdate(s, s) = plan
  <2>1. <<s, s>> \in Installed \X Installed
    OBVIOUS
  <2>. QED
    BY <2>1 DEF PlanProxyUpdate, Plans, byRevision
<1>. QED
  BY <1>7, <1>8, <1>9 DEF Changed

-----------------------------------------------------------------------------
(* The keys of a list are apart, and what is stored at a time without      *)
(* leftovers is stored for a current binding.                              *)

Pruned ==
  stage # "prune" =>
    \A k \in Keys : results[k] # NoResult =>
      \E b \in DOMAIN list : list[b].key = k

Waits == pending.set # {} => pending.set = lastDiff

IInv == TypeOK /\ Pruned /\ Waits /\ ResultsFollowConnection

LEMMA ListFacts ==
  ASSUME NEW s \in Installed
  PROVE  /\ s \subseteq Bindings
         /\ \A b, c \in s : Endpoint(b) = Endpoint(c) => b = c
         /\ \A b \in s : /\ MetricKey(b, s) \in Keys
                         /\ MetricKey(b, s)[1] = Endpoint(b)
                         /\ Endpoint(b) \in Endpoints
PROOF
<1>1. /\ s \subseteq Bindings
      /\ \A b, c \in s : Endpoint(b) = Endpoint(c) => b = c
  BY DEF Lists, Installed
<1>2. ASSUME NEW b \in s
      PROVE  /\ MetricKey(b, s) \in Keys
             /\ MetricKey(b, s)[1] = Endpoint(b)
             /\ Endpoint(b) \in Endpoints
  <2>1. Endpoint(b) \in Endpoints
    BY <1>1 DEF Endpoints
  <2>2. MetricKey(b, s) \in Keys
    <3>1. s \in Lists
      BY DEF Installed
    <3>. QED
      BY <3>1 DEF Keys
  <2>3. MetricKey(b, s)[1] = Endpoint(b)
    BY DEF MetricKey
  <2>. QED
    BY <2>1, <2>2, <2>3
<1>. QED
  BY <1>1, <1>2

LEMMA KeysApart ==
  ASSUME TypeOK, NEW b \in DOMAIN list, NEW c \in DOMAIN list,
         list[b].key = list[c].key
  PROVE  b = c
PROOF
<1>1. Endpoint(b) = Endpoint(c) /\ DOMAIN list \in Installed
  BY DEF TypeOK
<1>. QED
  BY <1>1, ListFacts

LEMMA InitIInv == Init => IInv
PROOF
<1>. SUFFICES ASSUME Init PROVE IInv
  OBVIOUS
<1>. DEFINE Stored(whole, restored, k) ==
              {b \in restored : MetricKey(b, whole) = k}
            Starts(whole, valid, restored) ==
         /\ pool = valid /\ running = valid
         /\ list = [b \in valid |-> [logical |-> Endpoint(b),
                                     key |-> MetricKey(b, whole)]]
         /\ results = [k \in Keys |->
              IF Stored(whole, restored, k) = {} THEN NoResult
              ELSE First(Stored(whole, restored, k)).rev]
         /\ pending = NoPending /\ next = {} /\ stage = "idle"
         /\ lastDiff = {} /\ renamed = {}
<1>a. PICK whole \in Lists : \E valid \in SUBSET whole :
        \E restored \in SUBSET valid : Starts(whole, valid, restored)
  BY DEF Init
<1>b. PICK valid \in SUBSET whole : \E restored \in SUBSET valid :
         Starts(whole, valid, restored)
  BY <1>a
<1>1. PICK restored \in SUBSET valid : Starts(whole, valid, restored)
  BY <1>b
<1>2. whole \in Installed /\ valid \in Installed /\ whole \subseteq Bindings
  BY DEF Lists, Installed
<1>3. \A b \in whole : /\ MetricKey(b, whole) \in Keys
                       /\ MetricKey(b, whole)[1] = Endpoint(b)
                       /\ Endpoint(b) \in Endpoints
  BY <1>2, ListFacts
<1>4. \A b \in DOMAIN list : /\ list[b].logical \in Endpoints
                             /\ list[b].key \in Keys
                             /\ list[b].key[1] = Endpoint(b)
                             /\ list[b].key = MetricKey(b, whole)
  BY <1>1, <1>3
<1>5. ASSUME NEW k \in Keys, results[k] # NoResult
      PROVE  \E b \in valid : MetricKey(b, whole) = k /\ results[k] = b.rev
  <2>. DEFINE S == Stored(whole, restored, k)
  <2>1. S # {} /\ results[k] = First(S).rev /\ S \subseteq valid
    BY <1>1, <1>5
  <2>2. First(S) \in S
    <3>. HIDE DEF S
    <3>1. S # {} /\ S \subseteq Bindings
      BY <1>2, <2>1
    <3>. QED
      BY <3>1, FirstAndFinal
  <2>. QED
    BY <2>1, <2>2
<1>6. results \in [Keys -> {b.rev : b \in Bindings} \cup {NoResult}]
  <2>1. \A k \in Keys : results[k] \in {b.rev : b \in Bindings} \cup {NoResult}
    BY <1>2, <1>5
  <2>2. DOMAIN results = Keys /\ results = [k \in Keys |-> results[k]]
    BY <1>1
  <2>. QED
    BY <2>1, <2>2
<1>7. TypeOK
  <2>1. DOMAIN list \in Installed
    BY <1>1, <1>2
  <2>2. pending \in [set : Lists \cup {{}}, count : 0..2] /\ next = {}
        /\ stage = "idle" /\ lastDiff = {} /\ renamed = {}
    BY <1>1 DEF NoPending
  <2>3. pool \in Installed /\ running \in Installed
    BY <1>1, <1>2
  <2>. QED
    BY <1>4, <1>6, <2>1, <2>2, <2>3 DEF TypeOK
<1>8. Pruned
  BY <1>1, <1>4, <1>5 DEF Pruned
<1>9. ResultsFollowConnection
  <2>. SUFFICES ASSUME NEW b \in DOMAIN list, results[list[b].key] # NoResult
                PROVE  results[list[b].key] = b.rev
    BY DEF ResultsFollowConnection
  <2>1. PICK c \in valid : /\ MetricKey(c, whole) = list[b].key
                          /\ results[list[b].key] = c.rev
    BY <1>4, <1>5
  <2>2. c \in DOMAIN list /\ list[c].key = list[b].key
    BY <1>1, <1>4, <2>1
  <2>. QED
    BY <1>7, <2>1, <2>2, KeysApart
<1>10. Waits
  BY <1>1 DEF NoPending, Waits
<1>. QED
  BY <1>7, <1>8, <1>9, <1>10 DEF IInv

(* The list let through, or what Xray accepts of it, in place of the old.  *)
LEMMA ReloadKeeps ==
  ASSUME IInv, next \in Installed, NEW valid \in Installed, valid \subseteq next,
         Reload(valid)
  PROVE  IInv'
PROOF
<1>. DEFINE old == DOMAIN list
            plan == PlanProxyUpdate(old, valid)
            prepared == Prepared(plan, valid, next)
<1>1. /\ stage = "reload" /\ running' = valid /\ list' = prepared
      /\ results' = Applied(plan, prepared)
      /\ renamed' = (renamed \ {Endpoint(b) : b \in Changed(plan)})
                    \cup {Endpoint(b) : b \in Renamed(plan)}
      /\ stage' = "prune" /\ next' = {}
      /\ UNCHANGED <<pool, pending, lastDiff>>
  BY DEF Reload
<1>2. TypeOK /\ old \in Installed
  BY DEF IInv, TypeOK
<1>3. /\ DOMAIN plan \subseteq valid /\ plan \in [DOMAIN plan -> old]
      /\ \A m, n \in DOMAIN plan : plan[m] = plan[n] => m = n
      /\ \A n \in valid \ DOMAIN plan : \A o \in Left(old, plan) :
           o.host # n.host
  <2>. HIDE DEF old
  <2>. QED
    BY <1>2, PlanPairs, PairingFacts
<1>. HIDE DEF plan
<1>4. /\ DOMAIN prepared = valid
      /\ \A b \in valid :
           /\ prepared[b].key = MetricKey(b, next)
           /\ prepared[b].logical =
                IF b \in DOMAIN plan THEN list[plan[b]].logical
                ELSE Endpoint(b)
  BY DEF Prepared
<1>. HIDE DEF prepared
<1>5. \A b \in valid : /\ prepared[b].key \in Keys
                       /\ prepared[b].key[1] = Endpoint(b)
                       /\ prepared[b].logical \in Endpoints
  <2>1. \A b \in valid : /\ MetricKey(b, next) \in Keys
                         /\ MetricKey(b, next)[1] = Endpoint(b)
                         /\ Endpoint(b) \in Endpoints
    BY ListFacts
  <2>2. \A b \in DOMAIN plan : list[plan[b]].logical \in Endpoints
    BY <1>2, <1>3 DEF TypeOK
  <2>. QED
    BY <1>4, <2>1, <2>2
<1>6. /\ Changed(plan) \subseteq valid /\ Renamed(plan) \subseteq valid
      /\ Changed(plan) \subseteq DOMAIN plan
      /\ Renamed(plan) \subseteq DOMAIN plan
  BY <1>3 DEF Changed, Renamed
<1>. DEFINE Values == {b.rev : b \in Bindings} \cup {NoResult}
            oldKey(n) == list[plan[n]].key
            newKey(n) == prepared[n].key
            cleared == Cleared(plan, prepared)
            loaded(n) == Loaded(plan, prepared, n)
            same(n) == {m \in Renamed(plan) :
                          /\ prepared[m].logical = prepared[n].logical
                          /\ results[oldKey(m)] # NoResult}
            movers(k) == {n \in Renamed(plan) :
                            /\ loaded(n) # NoResult
                          /\ k \in {oldKey(n), newKey(n)}}
            mover(k) == Final(movers(k))
<1>7. valid \subseteq Bindings
  BY ListFacts
<1>8. \A n \in DOMAIN plan : /\ oldKey(n) \in Keys
                             /\ results[oldKey(n)] \in Values
  <2>1. \A b \in old : list[b].key \in Keys
    BY <1>2 DEF TypeOK
  <2>2. \A k \in Keys : results[k] \in Values
    BY <1>2 DEF TypeOK
  <2>. HIDE DEF Values
  <2>. QED
    BY <1>3, <2>1, <2>2
<1>9. ASSUME NEW n \in Renamed(plan)
      PROVE  /\ loaded(n) \in Values
             /\ results[oldKey(n)] # NoResult => loaded(n) # NoResult
  <2>1. loaded(n) = IF same(n) = {} THEN NoResult
                    ELSE results[oldKey(Final(same(n)))]
    BY DEF Loaded
  <2>2. results[oldKey(n)] # NoResult => n \in same(n)
    OBVIOUS
  <2>3. same(n) # {} => Final(same(n)) \in same(n)
    <3>1. same(n) \subseteq Bindings
      BY <1>6, <1>7
    <3>. HIDE DEF same
    <3>. QED
      BY <3>1, FirstAndFinal
  <2>4. \A m \in same(n) : /\ results[oldKey(m)] \in Values
                           /\ results[oldKey(m)] # NoResult
    BY <1>6, <1>8
  <2>5. NoResult \in Values
    OBVIOUS
  <2>. HIDE DEF loaded, same, oldKey, Values
  <2>. QED
    BY <2>1, <2>2, <2>3, <2>4, <2>5
<1>10. \A k \in Keys : movers(k) # {} => mover(k) \in movers(k)
  <2>1. \A k : movers(k) \subseteq Bindings
    BY <1>6, <1>7
  <2>. HIDE DEF movers
  <2>. QED
    BY <2>1, FirstAndFinal
<1>11. /\ results' = [k \in Keys |->
            IF movers(k) = {} THEN cleared[k]
            ELSE IF k = oldKey(mover(k)) THEN NoResult
            ELSE loaded(mover(k))]
       /\ cleared = [k \in Keys |->
            IF \E n \in Changed(plan) : k \in {oldKey(n), newKey(n)}
            THEN NoResult ELSE results[k]]
  BY <1>1 DEF Applied, Cleared
<1>12. results' \in [Keys -> Values]
  <2>1. \A k \in Keys : cleared[k] \in Values
    BY <1>2, <1>11 DEF TypeOK
  <2>2. \A k \in Keys : movers(k) # {} => loaded(mover(k)) \in Values
    <3>1. \A k \in Keys : movers(k) # {} => mover(k) \in Renamed(plan)
      BY <1>10
    <3>. HIDE DEF movers, mover, loaded, Values
    <3>. QED
      BY <1>9, <3>1
  <2>3. NoResult \in Values
    OBVIOUS
  <2>. HIDE DEF movers, mover, loaded, cleared, oldKey, newKey, Values
  <2>. QED
    BY <1>11, <2>1, <2>2, <2>3
<1>13. TypeOK'
  <2>1. \A b \in DOMAIN list' : /\ list'[b].logical \in Endpoints
                                /\ list'[b].key \in Keys
                                /\ list'[b].key[1] = Endpoint(b)
    BY <1>1, <1>4, <1>5
  <2>2. renamed' \subseteq Endpoints
    <3>1. \A b \in valid : Endpoint(b) \in Endpoints
      BY ListFacts
    <3>. QED
      BY <1>1, <1>2, <1>6, <3>1 DEF TypeOK
  <2>. HIDE DEF movers, mover, loaded, cleared, oldKey, newKey
  <2>3. results' \in [Keys -> {b.rev : b \in Bindings} \cup {NoResult}]
    BY <1>12
  <2>. QED
    BY <1>1, <1>2, <1>4, <2>1, <2>2, <2>3 DEF TypeOK
<1>14. ASSUME NEW b \in valid, results'[newKey(b)] # NoResult,
              results'[newKey(b)] # b.rev
       PROVE  Endpoint(b) \in renamed'
  <2>. DEFINE k == newKey(b)
  <2>1. /\ k \in Keys /\ k[1] = Endpoint(b)
        /\ \A n \in valid : newKey(n) = k => n = b
    BY <1>5, ListFacts
  <2>2. CASE movers(k) # {}
    <3>1. /\ mover(k) \in Renamed(plan)
          /\ k \in {oldKey(mover(k)), newKey(mover(k))}
      BY <1>10, <2>1, <2>2
    <3>2. k # oldKey(mover(k))
      BY <1>11, <1>14, <2>1, <2>2
    <3>3. mover(k) = b
      BY <1>6, <2>1, <3>1, <3>2
    <3>. QED
      BY <1>1, <3>1, <3>3
  <2>3. CASE movers(k) = {}
    <3>1. /\ \A n \in Changed(plan) : k # oldKey(n) /\ k # newKey(n)
          /\ results[k] = results'[k]
      BY <1>11, <1>14, <2>1, <2>3
    <3>2. PICK c \in old : list[c].key = k
      BY <1>1, <1>14, <2>1, <3>1 DEF IInv, Pruned
    <3>3. Endpoint(c) = Endpoint(b) /\ c.host = b.host
      <4>1. Endpoint(c) = Endpoint(b)
        BY <1>2, <2>1, <3>2 DEF TypeOK
      <4>. QED
        BY <4>1 DEF Endpoint
    <3>4. results[k] = c.rev \/ Endpoint(b) \in renamed
      BY <1>14, <3>1, <3>2, <3>3 DEF IInv, ResultsFollowConnection
    <3>5. b \notin Changed(plan)
      BY <3>1
    <3>6. \A n \in Changed(plan) : Endpoint(n) # Endpoint(b)
      BY <1>6, <3>5, ListFacts
    <3>7. Endpoint(b) \in renamed => Endpoint(b) \in renamed'
      BY <1>1, <3>6
    <3>8. \A m, n \in Bindings :
            m.rev = n.rev /\ m.host = n.host => Endpoint(m) = Endpoint(n)
      BY SubscriptionUpdateAssumption DEF Endpoint
    <3>9. old \subseteq Bindings /\ \A m, n \in old :
            Endpoint(m) = Endpoint(n) => m = n
      BY <1>2, ListFacts
    <3>10. CASE b \in DOMAIN plan
      <4>1. plan[b] \in old /\ plan[b].rev = b.rev
        BY <1>3, <3>5, <3>10 DEF Changed
      <4>2. CASE b \in Renamed(plan)
        BY <1>1, <4>2
      <4>3. CASE b \notin Renamed(plan)
        <5>1. plan[b].host = b.host
          BY <3>10, <4>1, <4>3 DEF Renamed
        <5>2. plan[b] = c
          BY <1>7, <3>3, <3>8, <3>9, <4>1, <5>1
        <5>. QED
          BY <1>14, <3>1, <3>4, <3>7, <4>1, <5>2
      <4>. QED
        BY <4>2, <4>3
    <3>11. CASE b \notin DOMAIN plan
      <4>1. c \notin Left(old, plan)
        BY <1>3, <3>3, <3>11
      <4>2. PICK n \in DOMAIN plan : plan[n] = c
        BY <3>2, <4>1 DEF Left
      <4>3. oldKey(n) = k /\ n # b /\ n \in valid
        BY <1>3, <3>2, <3>11, <4>2
      <4>4. n.rev = c.rev
        BY <3>1, <4>2, <4>3 DEF Changed
      <4>5. n \in Renamed(plan)
        <5>1. n.host # c.host
          BY <1>7, <2>1, <3>3, <3>8, <3>9, <4>3, <4>4, ListFacts
        <5>. QED
          BY <4>2, <4>4, <5>1 DEF Renamed
      <4>6. loaded(n) # NoResult
        BY <1>9, <1>14, <3>1, <4>3, <4>5
      <4>7. n \in movers(k)
        BY <4>3, <4>5, <4>6
      <4>. QED
        BY <2>3, <4>7
    <3>. QED
      BY <3>10, <3>11
  <2>. QED
    BY <2>2, <2>3
<1>15. ResultsFollowConnection'
  <2>1. DOMAIN list' = valid /\ \A b \in valid : list'[b].key = newKey(b)
    BY <1>1, <1>4
  <2>. HIDE DEF newKey
  <2>. QED
    BY <1>14, <2>1 DEF ResultsFollowConnection
<1>16. Pruned' /\ Waits'
  BY <1>1 DEF IInv, Pruned, Waits
<1>. QED
  BY <1>13, <1>15, <1>16 DEF IInv

(* A mass revision goes through when the poll before it that saw any       *)
(* difference returned it too.                                             *)
LEMMA ObserveKeeps ==
  ASSUME IInv, NEW new \in Lists, Observe(new)
  PROVE  /\ IInv'
         /\ stage' = "reload" /\ IsMass(DOMAIN list, next') => lastDiff = next'
PROOF
<1>1. /\ stage = "idle" /\ pool' = new
      /\ UNCHANGED <<list, running, results, renamed>>
  BY DEF Observe
<1>2. CASE new = DOMAIN list
  <2>1. UNCHANGED <<pending, next, stage, lastDiff>>
    BY <1>2 DEF Observe
  <2>. QED
    BY <1>1, <2>1
       DEF IInv, TypeOK, Installed, Pruned, Waits, ResultsFollowConnection
<1>3. CASE new # DOMAIN list
  <2>1. /\ pending' = Confirmed(new) /\ lastDiff' = new
        /\ IF Deferred(new) THEN UNCHANGED <<next, stage>>
           ELSE next' = new /\ stage' = "reload"
    BY <1>3 DEF Observe
  <2>2. Confirmed(new) \in {NoPending, [set |-> new, count |-> 1],
                            [set |-> new, count |-> 2]}
    BY DEF Confirmed
  <2>3. pending' \in [set : Lists \cup {{}}, count : 0..2]
    BY <2>1, <2>2 DEF NoPending
  <2>4. Waits'
    BY <2>1, <2>2 DEF NoPending, Waits
  <2>5. TypeOK'
    BY <1>1, <2>1, <2>3 DEF IInv, TypeOK, Installed
  <2>6. Pruned' /\ ResultsFollowConnection'
    BY <1>1, <2>1 DEF IInv, Pruned, ResultsFollowConnection
  <2>7. ASSUME stage' = "reload", IsMass(DOMAIN list, next')
        PROVE  lastDiff = next'
    <3>1. next' = new /\ IsMass(DOMAIN list, new) /\ ~Deferred(new)
      BY <1>1, <2>1, <2>7
    <3>2. Confirmed(new).count >= 2 \/ ~(Confirmed(new).count < 2)
      BY <3>1 DEF Deferred
    <3>3. pending.set = new
      BY <3>1, <3>2 DEF Confirmed
    <3>4. new # {}
      BY DEF Lists
    <3>. QED
      BY <3>1, <3>3, <3>4 DEF IInv, Waits
  <2>. QED
    BY <2>4, <2>5, <2>6, <2>7 DEF IInv
<1>. QED
  BY <1>2, <1>3

LEMMA PruneKeeps ==
  ASSUME IInv, Prune
  PROVE  IInv'
PROOF
<1>1. /\ results' = [k \in Keys |->
           IF \E b \in DOMAIN list : list[b].key = k THEN results[k]
           ELSE NoResult]
      /\ stage' = "idle"
      /\ UNCHANGED <<pool, pending, next, list, running, lastDiff, renamed>>
  BY DEF Prune
<1>2. TypeOK'
  BY <1>1 DEF IInv, TypeOK
<1>3. Pruned'
  BY <1>1 DEF Pruned
<1>4. ResultsFollowConnection'
  BY <1>1 DEF IInv, TypeOK, ResultsFollowConnection
<1>. QED
  BY <1>1, <1>2, <1>3, <1>4 DEF IInv, Waits

LEMMA MeasureKeeps ==
  ASSUME IInv, NEW b \in DOMAIN list, Measure(b)
  PROVE  IInv'
PROOF
<1>1. /\ results' = [results EXCEPT ![list[b].key] = b.rev]
      /\ renamed' = renamed \ {Endpoint(b)}
      /\ UNCHANGED <<pool, pending, next, stage, list, running, lastDiff>>
  BY DEF Measure
<1>2. TypeOK /\ b \in Bindings /\ list[b].key \in Keys
  BY ListFacts DEF IInv, TypeOK
<1>3. /\ results'[list[b].key] = b.rev
      /\ \A k \in Keys : k # list[b].key => results'[k] = results[k]
  BY <1>1, <1>2 DEF TypeOK
<1>4. TypeOK'
  BY <1>1, <1>2 DEF TypeOK
<1>5. Pruned'
  BY <1>1, <1>3 DEF IInv, Pruned
<1>6. ASSUME NEW c \in DOMAIN list
      PROVE  \/ results'[list[c].key] \in {NoResult, c.rev}
             \/ Endpoint(c) \in renamed'
  <2>1. CASE c = b
    BY <1>3, <2>1
  <2>2. CASE c # b
    <3>1. list[c].key # list[b].key /\ list[c].key \in Keys
      BY <1>2, <2>2, KeysApart DEF TypeOK
    <3>2. Endpoint(c) # Endpoint(b)
      BY <1>2, <2>2, ListFacts DEF TypeOK
    <3>. QED
      BY <1>1, <1>3, <3>1, <3>2 DEF IInv, ResultsFollowConnection
  <2>. QED
    BY <2>1, <2>2
<1>7. ResultsFollowConnection' /\ Waits'
  BY <1>1, <1>6 DEF IInv, Waits, ResultsFollowConnection
<1>. QED
  BY <1>4, <1>5, <1>7 DEF IInv

LEMMA NextIInv ==
  ASSUME IInv, [Next]_vars
  PROVE  /\ IInv'
         /\ stage' = "reload" /\ stage = "idle" /\ IsMass(DOMAIN list, next')
              => lastDiff = next'
PROOF
<1>1. ASSUME NEW new \in Lists, Observe(new)
      PROVE  /\ IInv'
             /\ stage' = "reload" /\ IsMass(DOMAIN list, next')
                  => lastDiff = next'
  BY <1>1, ObserveKeeps
<1>2. ASSUME RejectConfig \/ FailStart PROVE IInv' /\ stage' = "idle"
  <2>1. /\ stage = "reload" /\ next' = {} /\ stage' = "idle"
        /\ running' \in {running, {}}
        /\ UNCHANGED <<pool, pending, list, results, lastDiff, renamed>>
    BY <1>2 DEF RejectConfig, FailStart, Abandon
  <2>2. TypeOK'
    BY <2>1 DEF IInv, TypeOK, Installed
  <2>. QED
    BY <2>1, <2>2 DEF IInv, Pruned, Waits, ResultsFollowConnection
<1>3. ASSUME ReloadAll \/ ReloadPart PROVE IInv' /\ stage = "reload"
  <2>1. PICK valid \in SUBSET next : Reload(valid)
    BY <1>3 DEF ReloadAll, ReloadPart
  <2>2. next \in Installed
    BY <2>1 DEF IInv, TypeOK, Installed
  <2>3. valid \in Installed
    BY <2>1, <2>2 DEF Lists, Installed
  <2>. QED
    BY <2>1, <2>2, <2>3, ReloadKeeps DEF Reload
<1>4. Prune => IInv' /\ stage = "prune"
  BY PruneKeeps DEF Prune
<1>5. ASSUME NEW b \in DOMAIN list, Measure(b)
      PROVE  IInv' /\ stage' = stage
  BY <1>5, MeasureKeeps DEF Measure
<1>6. CASE UNCHANGED vars
  BY <1>6 DEF vars, IInv, TypeOK, Pruned, Waits, ResultsFollowConnection
<1>. QED
  BY <1>1, <1>2, <1>3, <1>4, <1>5, <1>6 DEF Next, vars

LEMMA Invariance == Spec => []IInv
PROOF
<1>1. IInv /\ [Next]_vars => IInv'
  BY NextIInv
<1>. QED
  BY <1>1, InitIInv, PTL DEF Spec

-----------------------------------------------------------------------------
(* Every list, key and stored result has the form the code gives it, and a *)
(* binding's key is one of its own endpoint (AssignStableIDs,              *)
(* PrepareProxyConfigs).                                                   *)
THEOREM SubscriptionUpdateTypeOK == Spec => []TypeOK
PROOF
<1>1. IInv => TypeOK
  BY DEF IInv
<1>. QED
  BY <1>1, Invariance, PTL

(* What is stored for a current binding was measured on its connection,    *)
(* unless it has taken over another host's entry and was not checked since *)
(* (PlanProxyUpdate, ApplyProxyUpdate, PruneStaleResults).                 *)
THEOREM ResultsStayWithConnection == Spec => []ResultsFollowConnection
PROOF
<1>1. IInv => ResultsFollowConnection
  BY DEF IInv
<1>. QED
  BY <1>1, Invariance, PTL

(* A mass revision is let through only when the poll before it that saw a  *)
(* difference had returned it too (subscriptionUpdater.Refresh).           *)
THEOREM MassIsConfirmed == Spec => MassConfirmed
PROOF
<1>1. IInv /\ [Next]_vars =>
        [stage' = "reload" /\ stage = "idle" /\ IsMass(DOMAIN list, next')
         => lastDiff = next']_vars
  BY NextIInv
<1>. QED
  BY <1>1, Invariance, PTL DEF Spec, MassConfirmed

(* No old binding carries on in two new ones, and a new binding is left    *)
(* without one only when none of its host is left: whatever the lists, by  *)
(* induction over the passes of PlanProxyUpdate.                           *)
THEOREM PlansPairOnce ==
  \A old, new \in Installed :
    LET plan == PlanProxyUpdate(old, new)
    IN /\ \A m, n \in DOMAIN plan : plan[m] = plan[n] => m = n
       /\ \A n \in new \ DOMAIN plan : \A o \in Left(old, plan) :
            o.host # n.host
PROOF
  BY PlanPairs DEF Pairings

(* A list is no mass revision of itself: bindings with the same name, or   *)
(* the same connection, never change places.                               *)
THEOREM NoListRevisesItself == \A s \in Installed : ~IsMass(s, s)
PROOF
<1>1. ASSUME NEW s \in Installed PROVE ~IsMass(s, s)
  <2>1. Changed(PlanProxyUpdate(s, s)) = {}
    BY PlanOfItself
  <2>2. Cardinality({}) = 0
    BY FS_EmptySet
  <2>3. ~(0 >= MassSize)
    BY SubscriptionUpdateAssumption
  <2>. QED
    BY <2>1, <2>2, <2>3 DEF IsMass
<1>. QED
  BY <1>1

=============================================================================
