--------------------------- MODULE Alerts_proofs ---------------------------
(***************************************************************************)
(* To whom queued alerts go, and what a recipient knows when nothing       *)
(* waits, for every set of nodes, states, recipients and requests to save, *)
(* and any bound of the queue, of saves and of crashes.                    *)
(***************************************************************************)
EXTENDS Alerts, FiniteSetTheorems, FunctionTheorems, SequenceTheorems,
        TLAPS

-----------------------------------------------------------------------------
(* What the operators return.                                              *)

LEMMA QueueFacts ==
  ASSUME NEW q
  PROVE  q \in Queues <=>
           \E m \in 0..MaxPending : q \in [1..m -> Alerts]
PROOF
  BY DEF Queues, BoundedSeq, SeqOf

LEMMA QueueLength ==
  ASSUME NEW q \in Queues
  PROVE  /\ q \in Seq(Alerts)
         /\ Len(q) \in 0..MaxPending /\ Len(q) \in Nat
         /\ DOMAIN q = 1..Len(q)
         /\ \A i \in DOMAIN q : q[i] \in Alerts
PROOF
<1>1. PICK m \in 0..MaxPending : q \in [1..m -> Alerts]
  BY QueueFacts
<1>2. MaxPending \in Nat
  BY AlertsAssumption
<1>3. m \in Nat
  BY <1>2
<1>4. q \in Seq(Alerts) /\ Len(q) = m
  BY <1>1, <1>3
<1>. QED
  BY <1>1, <1>3, <1>4

LEMMA SeqIsQueue ==
  ASSUME NEW q \in Seq(Alerts), Len(q) <= MaxPending
  PROVE  q \in Queues
PROOF
<1>1. Len(q) \in 0..MaxPending /\ q \in [1..Len(q) -> Alerts]
  BY AlertsAssumption
<1>. QED
  BY <1>1, QueueFacts

LEMMA NothingQueued == <<>> \in Queues
PROOF
<1>1. <<>> \in Seq(Alerts) /\ Len(<<>>) <= MaxPending
  BY AlertsAssumption
<1>. QED
  BY <1>1, SeqIsQueue

LEMMA UpTo ==
  ASSUME NEW n \in Nat
  PROVE  IsFiniteSet(1..n) /\ Cardinality(1..n) = n
PROOF
<1>1. 1 \in Int /\ n \in Int
  OBVIOUS
<1>2. /\ IsFiniteSet(1..n)
      /\ Cardinality(1..n) = IF 1 > n THEN 0 ELSE n - 1 + 1
  BY <1>1, FS_Interval
<1>. QED
  BY <1>2

LEMMA FewerInPart ==
  ASSUME NEW S, IsFiniteSet(S), NEW T \in SUBSET S
  PROVE  /\ Cardinality(T) \in Nat /\ Cardinality(S) \in Nat
         /\ Cardinality(T) <= Cardinality(S)
         /\ T # S => Cardinality(T) < Cardinality(S)
PROOF
<1>1. IsFiniteSet(T) /\ Cardinality(T) <= Cardinality(S)
      /\ (T # S => Cardinality(S) # Cardinality(T))
  BY FS_Subset
<1>2. Cardinality(T) \in Nat /\ Cardinality(S) \in Nat
  BY <1>1, FS_CardinalityType
<1>. QED
  BY <1>1, <1>2

(* Places are told apart by the order Ahead, so that each is taken once.   *)
LEMMA PlacesTaken ==
  ASSUME NEW q \in Queues, NEW p \in DOMAIN q
  PROVE  /\ \E i \in DOMAIN q : Place(q, i) = p
         /\ \A i \in DOMAIN q : Place(q, i) \in DOMAIN q
PROOF
<1>. DEFINE D == DOMAIN q
            before(i) == {j \in D : Ahead(q, j, i)}
            place == [i \in D |-> Place(q, i)]
<1>1. D = 1..Len(q) /\ Len(q) \in Nat /\ \A i \in D : q[i] \in Alerts
  BY QueueLength
<1>2. IsFiniteSet(D) /\ Cardinality(D) = Len(q)
  BY <1>1, UpTo
<1>3. \A i, j \in D : i # j => Ahead(q, i, j) \/ Ahead(q, j, i)
  BY <1>1 DEF Ahead, Group
<1>4. \A i, j, k \in D : Ahead(q, i, j) /\ Ahead(q, j, k) => Ahead(q, i, k)
  BY <1>1 DEF Ahead, Group
<1>5. \A i \in D : ~Ahead(q, i, i)
  BY <1>1 DEF Ahead, Group
<1>6. \A i \in D : IsFiniteSet(before(i)) /\ Cardinality(before(i)) \in Nat
  <2>1. \A i \in D : IsFiniteSet(before(i))
    BY <1>2, FS_Subset
  <2>. QED
    BY <2>1, FS_CardinalityType
<1>7. ASSUME NEW i \in D, NEW j \in D, Ahead(q, i, j)
      PROVE  Place(q, i) < Place(q, j)
  <2>1. before(i) \subseteq before(j) \ {j} /\ i \in before(j)
    BY <1>4, <1>5, <1>7
  <2>2. before(i) \subseteq before(j) /\ i \notin before(i)
    BY <1>5, <2>1
  <2>3. Cardinality(before(i)) < Cardinality(before(j))
    <3>1. before(i) \in SUBSET before(j) /\ before(i) # before(j)
      BY <2>1, <2>2
    <3>. QED
      BY <1>6, <3>1, FewerInPart
  <2>. QED
    BY <1>6, <2>3 DEF Place
<1>8. \A i \in D : Place(q, i) \in D
  <2>. SUFFICES ASSUME NEW i \in D PROVE Place(q, i) \in D
    OBVIOUS
  <2>1. before(i) \subseteq D /\ before(i) # D
    BY <1>5
  <2>2. Cardinality(before(i)) < Len(q)
    BY <1>2, <2>1, FewerInPart
  <2>3. Place(q, i) = 1 + Cardinality(before(i))
    BY DEF Place
  <2>. HIDE DEF before
  <2>. QED
    BY <1>1, <1>6, <2>2, <2>3
<1>9. \A i, j \in D : place[i] = place[j] => i = j
  <2>1. \A i \in D : Place(q, i) \in Nat
    BY <1>1, <1>8
  <2>. QED
    BY <1>3, <1>7, <2>1
<1>10. place \in Surjection(D, D)
  <2>1. place \in [D -> D]
    BY <1>8
  <2>2. place \in Injection(D, D)
    BY <1>9, <2>1, Fun_IsInj
  <2>. QED
    BY <1>2, <2>2, FS_Injection
<1>11. \E i \in D : place[i] = p
  BY <1>10, Fun_SurjectionProperties
<1>. QED
  BY <1>8, <1>11

(* A digest is the queue in another order.                                 *)
LEMMA DigestKeeps ==
  ASSUME NEW q \in Queues
  PROVE  /\ Digest(q) \in Queues
         /\ \A p \in DOMAIN Digest(q) : \E i \in DOMAIN q : Digest(q)[p] = q[i]
         /\ \A i \in DOMAIN q : \E p \in DOMAIN Digest(q) : Digest(q)[p] = q[i]
PROOF
<1>. DEFINE at(p) == CHOOSE i \in DOMAIN q : Place(q, i) = p
<1>1. \A p \in DOMAIN q : at(p) \in DOMAIN q /\ Place(q, at(p)) = p
  BY PlacesTaken
<1>2. DOMAIN Digest(q) = DOMAIN q
      /\ \A p \in DOMAIN q : Digest(q)[p] = q[at(p)]
  BY DEF Digest
<1>. HIDE DEF at
<1>3. PICK m \in 0..MaxPending : q \in [1..m -> Alerts]
  BY QueueFacts
<1>4. Digest(q) \in [1..m -> Alerts]
  <2>1. Digest(q) = [p \in DOMAIN q |-> q[at(p)]]
    BY DEF Digest, at
  <2>. QED
    BY <1>1, <1>3, <2>1
<1>5. Digest(q) \in Queues
  BY <1>3, <1>4, QueueFacts
<1>6. ASSUME NEW i \in DOMAIN q
      PROVE  \E p \in DOMAIN Digest(q) : Digest(q)[p] = q[i]
  <2>. DEFINE D == DOMAIN q
              turn == [p \in D |-> at(p)]
  <2>1. IsFiniteSet(D)
    BY QueueLength, UpTo
  <2>2. turn \in [D -> D] /\ \A p, r \in D : turn[p] = turn[r] => p = r
    BY <1>1
  <2>3. turn \in Surjection(D, D)
    <3>1. turn \in Injection(D, D)
      BY <2>2, Fun_IsInj
    <3>. QED
      BY <2>1, <3>1, FS_Injection
  <2>4. PICK p \in D : turn[p] = i
    BY <2>3, Fun_SurjectionProperties
  <2>. QED
    BY <1>2, <2>4
<1>. QED
  BY <1>1, <1>2, <1>5, <1>6

(* What waits in an order comes out of it whole.                           *)
LEMMA InOrder ==
  ASSUME NEW S \in SUBSET Nodes
  PROVE  /\ Cardinality(S) \in Nat
         /\ Cardinality(S) <= Cardinality(Nodes)
         /\ SetToSeq(S) \in [1..Cardinality(S) -> S]
         /\ \A n \in S : \E i \in 1..Cardinality(S) : SetToSeq(S)[i] = n
PROOF
<1>. DEFINE c == Cardinality(S)
<1>1. IsFiniteSet(S) /\ c <= Cardinality(Nodes)
  BY AlertsAssumption, FS_Subset
<1>2. c \in Nat /\ ExistsBijection(1..c, S)
  BY <1>1, FS_CardinalityType
<1>3. \E f \in [1..c -> S] : IsInjective(f)
  <2>1. PICK f : f \in Bijection(1..c, S)
    BY <1>2 DEF ExistsBijection
  <2>2. f \in [1..c -> S] /\ \A a, b \in 1..c : f[a] = f[b] => a = b
    BY <2>1 DEF Bijection, Injection, IsInjective
  <2>. HIDE DEF c
  <2>3. DOMAIN f = 1..c
    BY <2>2
  <2>4. \A a, b \in DOMAIN f : f[a] = f[b] => a = b
    BY <2>2, <2>3
  <2>5. IsInjective(f)
    BY <2>4 DEF IsInjective
  <2>. QED
    BY <2>2, <2>5
<1>4. SetToSeq(S) \in [1..c -> S] /\ IsInjective(SetToSeq(S))
  BY <1>3 DEF SetToSeq
<1>5. SetToSeq(S) \in Injection(1..c, S)
  BY <1>4, Fun_IsInj DEF IsInjective
<1>6. SetToSeq(S) \in Surjection(1..c, S)
  <2>1. Cardinality(1..c) = c
    BY <1>2, UpTo
  <2>. QED
    BY <1>1, <1>5, <2>1, FS_Injection
<1>. QED
  BY <1>1, <1>2, <1>4, <1>6, Fun_SurjectionProperties

-----------------------------------------------------------------------------
(* The invariant.                                                          *)

Telling == Down \cup {"recovered"}

Both(n) ==
  Have(state.pending, Down, n) /\ Have(state.pending, {"recovered"}, n)

(* What is said last of n once all that waits was read.                    *)
Outcome(n) ==
  IF ~Have(state.pending, Telling, n) THEN told[n]
  ELSE IF Both(n) THEN "mixed"
  ELSE IF Have(state.pending, Down, n) THEN "down" ELSE "up"

Agrees(seen, said) ==
  ~seen.missed =>
    /\ seen.state = "critical" => said \in {"down", "mixed"}
    /\ seen.state = "healthy" => said # "down"

(* A scan has room for its alerts and somebody to address them to.         *)
Scans ==
  scan # NoScan =>
    /\ flight = NoFlight
    /\ Len(state.pending) + Cardinality(Nodes) <= MaxPending
    /\ state.initialized => settings.recipient \in Recipients

(* After a reset nothing waits and nothing was said.                       *)
Blank ==
  ~state.initialized => state.pending = <<>> /\ told = Untold

Owned ==
  torn \/ \A i \in DOMAIN state.pending :
            state.pending[i].for = settings.recipient

(* A batch holds what waits, less what was read of it.                     *)
Delivers ==
  flight # NoFlight /\ ~flight.reset =>
    /\ state.initialized
    /\ flight.mixed = {n \in Nodes : Both(n)}
    /\ \A i \in DOMAIN flight.left : \E j \in DOMAIN state.pending :
         flight.left[i] = state.pending[j]
    /\ \A n \in Nodes :
         \/ Have(state.pending, Telling, n) => Have(flight.left, Telling, n)
         \/ told[n] = Outcome(n)

(* Nothing was seen since the queue was dropped, or passed to another.     *)
Dropped ==
  flight # NoFlight /\ flight.reset /\ state.initialized =>
    \A n \in DOMAIN state.nodes : state.nodes[n].missed

(* The recipient will, of each node, know what was seen of it.             *)
Agreement ==
  state.initialized =>
    \A n \in DOMAIN state.nodes : Agrees(state.nodes[n], Outcome(n))

IInv ==
  TypeOK /\ Scans /\ Blank /\ Owned /\ OwnAlertsOnly /\ Delivers /\ Dropped
  /\ Agreement

LEMMA HaveParts ==
  ASSUME NEW q, NEW n
  PROVE  Have(q, Telling, n) <=> Have(q, Down, n) \/ Have(q, {"recovered"}, n)
PROOF
  BY DEF Have, Telling

LEMMA HaveMore ==
  ASSUME NEW q, NEW p, NEW K, NEW n, Have(q, K, n),
         \A i \in DOMAIN q : \E j \in DOMAIN p : q[i] = p[j]
  PROVE  Have(p, K, n)
PROOF
  BY DEF Have

LEMMA ManagedIsSettings ==
  ASSUME NEW s \in Settings
  PROVE  Managed(s) \in Settings
PROOF
<1>1. CASE s.env = Unmanaged
  BY <1>1 DEF Managed
<1>2. CASE s.env # Unmanaged
  <2>. DEFINE chat == IF s.env = NoRecipient THEN s.recipient ELSE s.env
  <2>1. /\ s.recipient \in Recipients \cup {NoRecipient}
        /\ s.env \in Recipients \cup {NoRecipient, Unmanaged}
    BY AlertsAssumption DEF Settings
  <2>2. chat \in Recipients \cup {NoRecipient}
    BY <1>2, <2>1
  <2>3. Managed(s) =
          [s EXCEPT !.recipient = chat, !.token = TRUE, !.enabled = TRUE]
    BY <1>2 DEF Managed, Settings
  <2>. HIDE DEF chat
  <2>4. [s EXCEPT !.recipient = chat, !.token = TRUE, !.enabled = TRUE]
          \in Settings
    BY <2>2, ZenonT(60) DEF Settings
  <2>. QED
    BY <2>3, <2>4
<1>. QED
  BY <1>1, <1>2

LEMMA InitIInv == Init => IInv
PROOF
<1>. SUFFICES ASSUME Init PROVE IInv
  OBVIOUS
<1>1. state \in Memory
  <2>1. <<>> \in UNION {[s -> Observed] : s \in SUBSET Nodes}
    <3>1. <<>> \in [{} -> Observed] /\ {} \in SUBSET Nodes
      OBVIOUS
    <3>. QED
      BY <3>1
  <2>. QED
    BY <2>1, NothingQueued DEF Init, EmptyState, Memory
<1>2. settings \in Settings
  <2>1. PICK env \in Environments :
          settings = Managed([recipient |-> NoRecipient, token |-> FALSE,
                              enabled |-> FALSE, wanted |-> Default,
                              env |-> env])
    BY DEF Init
  <2>2. [recipient |-> NoRecipient, token |-> FALSE, enabled |-> FALSE,
         wanted |-> Default, env |-> env] \in Settings
    BY DEF Settings, Default
  <2>. QED
    BY <2>1, <2>2, ManagedIsSettings
<1>3. TypeOK
  <2>1. status \in [Nodes -> States \cup {"absent"}] /\ 0 \in 0..MaxCrashes
    BY AlertsAssumption DEF Init
  <2>2. told \in [Nodes -> {"nothing", "down", "up", "mixed"}]
    BY DEF Init, Untold
  <2>. QED
    BY <1>1, <1>2, <2>1, <2>2 DEF Init, TypeOK
<1>4. Scans /\ Blank /\ Owned /\ OwnAlertsOnly /\ Delivers /\ Dropped
  BY DEF Init, EmptyState, Scans, Blank, Owned, OwnAlertsOnly, Delivers,
         Dropped
<1>5. Agreement
  BY DEF Init, EmptyState, Agreement
<1>. QED
  BY <1>3, <1>4, <1>5 DEF IInv

(* Steps that leave what was seen, queued and said.                        *)
LEMMA KeepsIInv ==
  ASSUME IInv, UNCHANGED <<state, told>>,
         flight' = flight \/ flight' = NoFlight,
         scan' = scan \/ scan' = NoScan,
         status' \in [Nodes -> States \cup {"absent"}],
         settings' \in Settings,
         saves' \subseteq [request : Requests, previous : Settings],
         torn' \in BOOLEAN, torn => torn',
         torn' \/ settings'.recipient = settings.recipient,
         \/ scan' = NoScan
         \/ settings'.recipient = settings.recipient
         \/ settings'.recipient \in Recipients,
         crashes' \in 0..MaxCrashes
  PROVE  IInv'
PROOF
<1>1. TypeOK'
  BY DEF IInv, TypeOK
<1>2. Scans'
  BY DEF IInv, Scans
<1>3. Blank'
  BY DEF IInv, Blank
<1>4. Owned'
  BY DEF IInv, Owned
<1>5. OwnAlertsOnly'
  BY DEF IInv, OwnAlertsOnly, Recipient
<1>6. Dropped'
  BY DEF IInv, Dropped
<1>7. /\ \A n : Both(n)' = Both(n)
      /\ \A n : Outcome(n)' = Outcome(n)
  BY DEF Both, Outcome
<1>8. Delivers'
  BY <1>7 DEF IInv, Delivers
<1>9. Agreement'
  BY <1>7 DEF IInv, Agreement
<1>. QED
  BY <1>1, <1>2, <1>3, <1>4, <1>5, <1>6, <1>8, <1>9 DEF IInv

LEMMA InFlightIsBatch ==
  ASSUME TypeOK, NEW r \in BOOLEAN
  PROVE  /\ InFlight(r) = NoFlight \/ InFlight(r) \in Batch
         /\ flight = NoFlight => InFlight(r) = NoFlight
         /\ flight # NoFlight =>
              InFlight(TRUE).reset /\ InFlight(TRUE).left = flight.left
              /\ InFlight(TRUE).to = flight.to
              /\ InFlight(TRUE).torn = flight.torn
PROOF
<1>1. CASE flight = NoFlight
  BY <1>1 DEF InFlight
<1>2. CASE flight # NoFlight
  <2>1. flight \in Batch
    BY <1>2 DEF TypeOK
  <2>2. InFlight(TRUE) = [flight EXCEPT !.reset = TRUE]
        /\ InFlight(FALSE) = flight
    BY <1>2 DEF InFlight
  <2>3. [flight EXCEPT !.reset = TRUE] \in Batch
    BY <2>1, ZenonT(60) DEF Batch
  <2>4. /\ [flight EXCEPT !.reset = TRUE].reset = TRUE
        /\ [flight EXCEPT !.reset = TRUE].left = flight.left
        /\ [flight EXCEPT !.reset = TRUE].to = flight.to
        /\ [flight EXCEPT !.reset = TRUE].torn = flight.torn
    BY <2>1 DEF Batch
  <2>. QED
    BY <1>2, <2>1, <2>2, <2>3, <2>4
<1>. QED
  BY <1>1, <1>2

(* Steps that forget what was seen, queued and said.                       *)
LEMMA ResetsIInv ==
  ASSUME IInv, Reset,
         flight' = InFlight(TRUE) \/ flight' = NoFlight,
         scan' = scan \/ scan' = NoScan,
         status' \in [Nodes -> States \cup {"absent"}],
         settings' \in Settings,
         saves' \subseteq [request : Requests, previous : Settings],
         crashes' \in 0..MaxCrashes
  PROVE  IInv'
PROOF
<1>1. TypeOK
  BY DEF IInv
<1>2. state' = EmptyState /\ told' = Untold /\ torn' = FALSE
  BY DEF Reset
<1>3. EmptyState \in Memory
  <2>1. <<>> \in UNION {[s -> Observed] : s \in SUBSET Nodes}
    <3>1. <<>> \in [{} -> Observed] /\ {} \in SUBSET Nodes
      OBVIOUS
    <3>. QED
      BY <3>1
  <2>. QED
    BY <2>1, NothingQueued DEF EmptyState, Memory
<1>4. flight' = NoFlight \/ flight' \in Batch
  BY <1>1, InFlightIsBatch
<1>5. TypeOK'
  BY <1>1, <1>2, <1>3, <1>4 DEF TypeOK, Untold
<1>6. ~state'.initialized /\ state'.pending = <<>> /\ Len(state'.pending) = 0
  BY <1>2 DEF EmptyState
<1>7. flight' # NoFlight => flight # NoFlight /\ flight' = InFlight(TRUE)
  BY <1>1, InFlightIsBatch
<1>8. Scans'
  <2>. SUFFICES ASSUME scan' # NoScan
                PROVE  /\ flight' = NoFlight
                       /\ 0 + Cardinality(Nodes) <= MaxPending
    BY <1>6 DEF Scans
  <2>1. /\ flight = NoFlight
        /\ Len(state.pending) + Cardinality(Nodes) <= MaxPending
    BY DEF IInv, Scans
  <2>2. Len(state.pending) \in Nat
    <3>1. state.pending \in Queues
      BY <1>1 DEF TypeOK, Memory
    <3>. QED
      BY <3>1, QueueLength
  <2>3. Cardinality(Nodes) \in Nat /\ MaxPending \in Nat
    BY AlertsAssumption, FS_CardinalityType
  <2>. QED
    BY <1>7, <2>1, <2>2, <2>3
<1>9. Blank' /\ Agreement'
  BY <1>2, <1>6 DEF Blank, Agreement, Untold
<1>10. Owned'
  BY <1>6 DEF Owned
<1>11. OwnAlertsOnly'
  BY <1>1, <1>7, InFlightIsBatch DEF IInv, OwnAlertsOnly, Recipient
<1>12. Delivers' /\ Dropped'
  BY <1>1, <1>6, <1>7, InFlightIsBatch DEF Delivers, Dropped
<1>. QED
  BY <1>5, <1>8, <1>9, <1>10, <1>11, <1>12 DEF IInv

-----------------------------------------------------------------------------
(* The steps.                                                              *)

LEMMA StateFacts ==
  ASSUME TypeOK
  PROVE  /\ state.pending \in Queues
         /\ state.pending \in Seq(Alerts) /\ Len(state.pending) \in Nat
         /\ state.initialized \in BOOLEAN
         /\ DOMAIN state.nodes \subseteq Nodes
         /\ \A n \in DOMAIN state.nodes : state.nodes[n] \in Observed
PROOF
<1>1. /\ state.pending \in Queues
      /\ state.initialized \in BOOLEAN
      /\ state.nodes \in UNION {[s -> Observed] : s \in SUBSET Nodes}
  BY DEF TypeOK, Memory
<1>2. PICK s \in SUBSET Nodes : state.nodes \in [s -> Observed]
  BY <1>1
<1>3. DOMAIN state.nodes = s
  BY <1>2
<1>. QED
  BY <1>1, <1>2, <1>3, QueueLength

LEMMA CollectNodesIInv ==
  ASSUME IInv, CollectNodes
  PROVE  IInv'
PROOF
<1>1. UNCHANGED <<status, settings, state, flight, saves, torn, told, crashes>>
  BY DEF CollectNodes
<1>2. \E s \in SUBSET Nodes : scan' \in [s -> States]
  <2>. DEFINE s == {m \in Nodes : status[m] # "absent"}
  <2>1. \A n \in s : status[n] \in States
    BY DEF IInv, TypeOK
  <2>2. scan' = [n \in s |-> status[n]]
    BY DEF CollectNodes
  <2>3. scan' \in [s -> States] /\ s \in SUBSET Nodes
    BY <2>1, <2>2
  <2>. QED
    BY <2>3
<1>3. TypeOK'
  BY <1>1, <1>2 DEF IInv, TypeOK
<1>4. Scans'
  <2>1. settings.recipient \in Recipients
    BY DEF IInv, TypeOK, CollectNodes, Active, Configured, Settings
  <2>. QED
    BY <1>1, <2>1 DEF CollectNodes, Idle, Scans
<1>5. /\ \A n : Both(n)' = Both(n)
      /\ \A n : Outcome(n)' = Outcome(n)
  BY <1>1 DEF Both, Outcome
<1>6. Blank' /\ Owned' /\ OwnAlertsOnly' /\ Dropped'
  BY <1>1 DEF IInv, Blank, Owned, OwnAlertsOnly, Recipient, Dropped
<1>7. Delivers' /\ Agreement'
  BY <1>1, <1>5 DEF IInv, Delivers, Agreement
<1>. QED
  BY <1>3, <1>4, <1>6, <1>7 DEF IInv

LEMMA StartFlushIInv ==
  ASSUME IInv, StartFlush
  PROVE  IInv'
PROOF
<1>. DEFINE q == state.pending
            mixed == {n \in Nodes : Both(n)}
            batch == [left |-> Digest(q), to |-> settings.recipient,
                      mixed |-> mixed, reset |-> FALSE, torn |-> torn]
<1>1. UNCHANGED <<status, settings, state, scan, saves, torn, told, crashes>>
  BY DEF StartFlush
<1>2. flight' = batch /\ scan = NoScan /\ q # <<>> /\ Configured(settings)
  BY DEF StartFlush, Idle, Both
<1>3. q \in Queues
  BY StateFacts DEF IInv
<1>4. Digest(q) \in Queues
  BY <1>3, DigestKeeps
<1>. HIDE DEF q, mixed
<1>5. settings.recipient \in Recipients /\ torn \in BOOLEAN
  BY <1>2 DEF IInv, TypeOK, Configured, Settings
<1>6. mixed \in SUBSET Nodes
  BY DEF mixed
<1>7. batch \in Batch
  BY <1>4, <1>5, <1>6, ZenonT(60) DEF Batch
<1>8. /\ flight'.left = Digest(q) /\ flight'.to = settings.recipient
      /\ flight'.mixed = mixed /\ flight'.reset = FALSE
      /\ flight'.torn = torn
  BY <1>2
<1>. HIDE DEF batch
<1>9. TypeOK'
  BY <1>1, <1>2, <1>7 DEF IInv, TypeOK
<1>10. Scans' /\ Blank' /\ Owned'
  BY <1>1, <1>2 DEF IInv, Scans, Blank, Owned
<1>11. OwnAlertsOnly'
  <2>1. torn \/ \A i \in DOMAIN q : q[i].for = settings.recipient
    BY DEF IInv, Owned, q
  <2>2. \A p \in DOMAIN Digest(q) : \E i \in DOMAIN q : Digest(q)[p] = q[i]
    BY <1>3, DigestKeeps
  <2>3. torn \/ \A p \in DOMAIN Digest(q) :
                  Digest(q)[p].for = settings.recipient
    BY <2>1, <2>2
  <2>. QED
    BY <1>8, <2>3 DEF OwnAlertsOnly, Recipient
<1>12. /\ \A n : Both(n)' = Both(n)
       /\ \A n : Outcome(n)' = Outcome(n)
  BY <1>1 DEF Both, Outcome
<1>13. Delivers'
  <2>1. state.initialized
    BY <1>2 DEF IInv, Blank, q
  <2>2. mixed = {n \in Nodes : Both(n)'}
    BY <1>12 DEF mixed
  <2>3. \A i \in DOMAIN Digest(q) : \E j \in DOMAIN q : Digest(q)[i] = q[j]
    BY <1>3, DigestKeeps
  <2>4. \A i \in DOMAIN q : \E j \in DOMAIN Digest(q) : q[i] = Digest(q)[j]
    BY <1>3, DigestKeeps
  <2>5. \A n \in Nodes : Have(q, Telling, n) => Have(Digest(q), Telling, n)
    BY <2>4, HaveMore
  <2>6. state' = state /\ q = state.pending
    BY <1>1 DEF q
  <2>. QED
    BY <1>8, <2>1, <2>2, <2>3, <2>5, <2>6 DEF Delivers
<1>14. Dropped'
  BY <1>8 DEF Dropped
<1>15. Agreement'
  BY <1>1, <1>12 DEF IInv, Agreement
<1>. QED
  BY <1>9, <1>10, <1>11, <1>13, <1>14, <1>15 DEF IInv

(* What is read of a batch makes what was said of a node its outcome.      *)
LEMMA TellsOutcome ==
  ASSUME IInv, flight # NoFlight, NEW k \in 0..Len(flight.left), Tell(k),
         UNCHANGED state
  PROVE  /\ told' \in [Nodes -> {"nothing", "down", "up", "mixed"}]
         /\ flight.reset => told' = told
         /\ ~flight.reset => \A n \in Nodes :
              /\ told'[n] = told[n] \/ told'[n] = Outcome(n)
              /\ Outcome(n)' = Outcome(n)
              /\ Have(SubSeq(flight.left, 1, k), Telling, n) =>
                   told'[n] = Outcome(n)
PROOF
<1>. DEFINE left == flight.left
            read == SubSeq(left, 1, k)
            said(n) == IF flight.reset \/ ~Have(read, Telling, n) THEN told[n]
                       ELSE IF n \in flight.mixed THEN "mixed"
                       ELSE IF Have(read, Down, n) THEN "down" ELSE "up"
<1>1. told' = [n \in Nodes |-> said(n)]
  BY DEF Tell, Telling
<1>2. told \in [Nodes -> {"nothing", "down", "up", "mixed"}]
  BY DEF IInv, TypeOK
<1>3. flight \in Batch /\ left \in Queues
  BY DEF IInv, TypeOK, Batch
<1>4. /\ Len(left) \in Nat /\ left \in Seq(Alerts)
      /\ DOMAIN left = 1..Len(left)
  BY <1>3, QueueLength
<1>5. \A i \in DOMAIN read : i \in DOMAIN left /\ read[i] = left[i]
  BY <1>4
<1>. HIDE DEF left, read
<1>6. told' \in [Nodes -> {"nothing", "down", "up", "mixed"}]
  BY <1>1, <1>2
<1>7. flight.reset => told' = told
  BY <1>1, <1>2
<1>8. ASSUME ~flight.reset, NEW n \in Nodes, Have(read, Telling, n)
      PROVE  said(n) = Outcome(n) /\ Have(state.pending, Telling, n)
  <2>1. \A i \in DOMAIN left : \E j \in DOMAIN state.pending :
          left[i] = state.pending[j]
    BY <1>8 DEF IInv, Delivers, left
  <2>2. \A i \in DOMAIN read : \E j \in DOMAIN state.pending :
          read[i] = state.pending[j]
    BY <1>5, <2>1
  <2>3. Have(state.pending, Telling, n)
    BY <1>8, <2>2, HaveMore
  <2>4. Have(read, Down, n) => Have(state.pending, Down, n)
    BY <2>2, HaveMore
  <2>5. Have(read, {"recovered"}, n) => Have(state.pending, {"recovered"}, n)
    BY <2>2, HaveMore
  <2>6. n \in flight.mixed <=> Both(n)
    BY <1>8 DEF IInv, Delivers
  <2>7. Have(read, Down, n) \/ Have(read, {"recovered"}, n)
    BY <1>8, HaveParts
  <2>8. said(n) = IF Both(n) THEN "mixed"
                  ELSE IF Have(read, Down, n) THEN "down" ELSE "up"
    BY <1>8, <2>6
  <2>9. Outcome(n) = IF Both(n) THEN "mixed"
                     ELSE IF Have(state.pending, Down, n) THEN "down" ELSE "up"
    BY <2>3 DEF Outcome
  <2>10. ~Both(n) => (Have(read, Down, n) <=> Have(state.pending, Down, n))
    BY <2>4, <2>5, <2>7 DEF Both
  <2>. QED
    BY <2>3, <2>8, <2>9, <2>10
<1>9. ASSUME ~flight.reset, NEW n \in Nodes
      PROVE  /\ told'[n] = told[n] \/ told'[n] = Outcome(n)
             /\ Outcome(n)' = Outcome(n)
             /\ Have(read, Telling, n) => told'[n] = Outcome(n)
  <2>1. told'[n] = said(n)
    BY <1>1
  <2>2. CASE Have(read, Telling, n)
    <3>1. said(n) = Outcome(n) /\ Have(state.pending, Telling, n)
      BY <1>8, <1>9, <2>2
    <3>2. Outcome(n)' = Outcome(n)
      BY <3>1 DEF Outcome, Both
    <3>. QED
      BY <2>1, <3>1, <3>2
  <2>3. CASE ~Have(read, Telling, n)
    <3>1. told'[n] = told[n]
      BY <2>1, <2>3
    <3>2. Outcome(n)' = Outcome(n)
      BY <3>1 DEF Outcome, Both
    <3>. QED
      BY <2>3, <3>1, <3>2
  <2>. QED
    BY <2>2, <2>3
<1>. QED
  BY <1>6, <1>7, <1>9 DEF read, left

LEMMA SendMessageIInv ==
  ASSUME IInv, NEW k \in 1..MaxPending, SendMessage(k)
  PROVE  IInv'
PROOF
<1>. DEFINE left == flight.left
            read == SubSeq(left, 1, k)
            rest == SubSeq(left, k + 1, Len(left))
<1>1. /\ flight # NoFlight /\ k \in DOMAIN left /\ Tell(k)
      /\ flight' = [flight EXCEPT !.left = rest]
      /\ UNCHANGED <<status, settings, state, scan, saves, torn, crashes>>
  BY DEF SendMessage
<1>2. flight \in Batch /\ left \in Queues
  BY <1>1 DEF IInv, TypeOK, Batch
<1>3. /\ Len(left) \in Nat /\ left \in Seq(Alerts) /\ Len(left) <= MaxPending
      /\ DOMAIN left = 1..Len(left) /\ MaxPending \in Nat
  BY <1>2, QueueLength, AlertsAssumption
<1>4. k \in 0..Len(left) /\ k \in 1..Len(left)
  BY <1>1, <1>3
<1>. HIDE DEF left
<1>5. /\ rest \in Seq(Alerts) /\ Len(rest) = Len(left) - k
      /\ DOMAIN rest = 1..(Len(left) - k)
      /\ \A i \in 1..(Len(left) - k) : rest[i] = left[k + i]
  <2>. DEFINE n == Len(left)
              m == k + 1
  <2>1. n \in Nat /\ m \in 1..(n + 1) /\ left \in Seq(Alerts)
    BY <1>3, <1>4
  <2>2. \A i \in m..n : left[i] \in Alerts
    BY <1>3, <2>1
  <2>. HIDE DEF m
  <2>3. /\ SubSeq(left, m, n) \in Seq(Alerts)
        /\ Len(SubSeq(left, m, n)) = n - m + 1
        /\ \A i \in 1..(n - m + 1) : SubSeq(left, m, n)[i] = left[m + i - 1]
    BY <2>1, <2>2, SubSeqProperties
  <2>4. rest = SubSeq(left, m, n) /\ n - m + 1 = n - k
        /\ \A i \in 1..(n - k) : m + i - 1 = k + i
    BY <1>3, <1>4 DEF m
  <2>5. /\ rest \in Seq(Alerts) /\ Len(rest) = n - k
        /\ \A i \in 1..(n - k) : rest[i] = left[k + i]
    BY <2>3, <2>4
  <2>. QED
    BY <2>5
<1>6. DOMAIN read = 1..k /\ \A i \in 1..k : read[i] = left[i]
  BY <1>3, <1>4
<1>. HIDE DEF rest, read
<1>7. rest \in Queues
  BY <1>3, <1>4, <1>5, SeqIsQueue
<1>8. /\ flight' \in Batch
      /\ flight'.left = rest /\ flight'.to = flight.to
      /\ flight'.mixed = flight.mixed /\ flight'.reset = flight.reset
      /\ flight'.torn = flight.torn
  <2>1. [flight EXCEPT !.left = rest] \in Batch
    BY <1>2, <1>7, ZenonT(60) DEF Batch
  <2>. QED
    BY <1>1, <1>2, <2>1 DEF Batch
<1>9. /\ told' \in [Nodes -> {"nothing", "down", "up", "mixed"}]
      /\ flight.reset => told' = told
      /\ ~flight.reset => \A n \in Nodes :
           /\ told'[n] = told[n] \/ told'[n] = Outcome(n)
           /\ Outcome(n)' = Outcome(n)
           /\ Have(read, Telling, n) => told'[n] = Outcome(n)
  BY <1>1, <1>4, TellsOutcome DEF left, read
<1>10. TypeOK'
  BY <1>1, <1>8, <1>9 DEF IInv, TypeOK
<1>11. Scans' /\ Owned'
  BY <1>1 DEF IInv, Scans, Owned
<1>12. Blank'
  BY <1>1, <1>9 DEF IInv, Blank, Delivers
<1>13. OwnAlertsOnly'
  <2>1. flight.torn \/ \A i \in DOMAIN left : left[i].for = flight.to
    BY <1>1 DEF IInv, OwnAlertsOnly, Recipient, left
  <2>2. \A i \in DOMAIN rest : k + i \in DOMAIN left
    BY <1>3, <1>4, <1>5
  <2>3. flight.torn \/ \A i \in DOMAIN rest : rest[i].for = flight.to
    BY <1>5, <2>1, <2>2
  <2>. QED
    BY <1>8, <2>3 DEF OwnAlertsOnly, Recipient
<1>14. Delivers'
  <2>. SUFFICES ASSUME ~flight.reset
                PROVE  /\ state.initialized
                       /\ flight.mixed = {n \in Nodes : Both(n)'}
                       /\ \A i \in DOMAIN rest :
                            \E j \in DOMAIN state.pending :
                              rest[i] = state.pending[j]
                       /\ \A n \in Nodes :
                            \/ Have(state.pending, Telling, n) =>
                                 Have(rest, Telling, n)
                            \/ told'[n] = Outcome(n)'
    BY <1>1, <1>8 DEF Delivers
  <2>1. /\ state.initialized
        /\ flight.mixed = {n \in Nodes : Both(n)}
        /\ \A i \in DOMAIN left : \E j \in DOMAIN state.pending :
             left[i] = state.pending[j]
        /\ \A n \in Nodes :
             \/ Have(state.pending, Telling, n) => Have(left, Telling, n)
             \/ told[n] = Outcome(n)
    BY <1>1 DEF IInv, Delivers, left
  <2>2. \A n : Both(n)' = Both(n)
    BY <1>1 DEF Both
  <2>3. \A i \in DOMAIN rest : \E j \in DOMAIN state.pending :
          rest[i] = state.pending[j]
    <3>1. \A i \in DOMAIN rest : k + i \in DOMAIN left
      BY <1>3, <1>4, <1>5
    <3>. QED
      BY <1>5, <2>1, <3>1
  <2>4. ASSUME NEW n \in Nodes, told'[n] # Outcome(n)',
               Have(state.pending, Telling, n)
        PROVE  Have(rest, Telling, n)
    <3>1. told[n] # Outcome(n) /\ ~Have(read, Telling, n)
      BY <1>9, <2>4
    <3>2. Have(left, Telling, n)
      BY <2>1, <2>4, <3>1
    <3>3. PICK i \in DOMAIN left : left[i].kind \in Telling /\ left[i].node = n
      BY <3>2 DEF Have
    <3>4. i \notin 1..k
      BY <1>6, <3>1, <3>3 DEF Have
    <3>5. i - k \in DOMAIN rest /\ rest[i - k] = left[i]
      <4>1. i - k \in 1..(Len(left) - k) /\ k + (i - k) = i
        BY <1>3, <1>4, <3>3, <3>4
      <4>. QED
        BY <1>5, <4>1
    <3>. QED
      BY <3>3, <3>5 DEF Have
  <2>. QED
    BY <2>1, <2>2, <2>3, <2>4
<1>15. Dropped'
  BY <1>1, <1>8 DEF IInv, Dropped
<1>16. Agreement'
  <2>1. DOMAIN state.nodes \subseteq Nodes
    BY StateFacts DEF IInv
  <2>2. flight.reset => \A n : Outcome(n)' = Outcome(n)
    BY <1>1, <1>9 DEF Outcome, Both
  <2>3. state.initialized =>
          \A n \in DOMAIN state.nodes : Outcome(n)' = Outcome(n)
    BY <1>9, <2>1, <2>2
  <2>4. state' = state
    BY <1>1
  <2>. QED
    BY <2>3, <2>4 DEF IInv, Agreement
<1>. QED
  BY <1>10, <1>11, <1>12, <1>13, <1>14, <1>15, <1>16 DEF IInv

LEMMA FailMessageIInv ==
  ASSUME IInv, FailMessage
  PROVE  IInv'
PROOF
<1>1. /\ flight # NoFlight /\ flight' = NoFlight
      /\ UNCHANGED <<status, settings, state, scan, saves, torn, crashes>>
  BY DEF FailMessage
<1>2. PICK k \in 0..Len(flight.left) : Tell(k)
  BY DEF FailMessage
<1>3. /\ told' \in [Nodes -> {"nothing", "down", "up", "mixed"}]
      /\ flight.reset => told' = told
      /\ ~flight.reset => \A n \in Nodes : Outcome(n)' = Outcome(n)
  BY <1>1, <1>2, TellsOutcome
<1>4. TypeOK'
  BY <1>1, <1>3 DEF IInv, TypeOK
<1>5. Scans' /\ Owned' /\ OwnAlertsOnly' /\ Delivers' /\ Dropped'
  BY <1>1 DEF IInv, Scans, Owned, OwnAlertsOnly, Delivers, Dropped
<1>6. Blank'
  BY <1>1, <1>3 DEF IInv, Blank, Delivers
<1>7. Agreement'
  <2>1. DOMAIN state.nodes \subseteq Nodes
    BY StateFacts DEF IInv
  <2>2. flight.reset => \A n : Outcome(n)' = Outcome(n)
    BY <1>1, <1>3 DEF Outcome, Both
  <2>3. state.initialized =>
          \A n \in DOMAIN state.nodes : Outcome(n)' = Outcome(n)
    BY <1>3, <2>1, <2>2
  <2>4. state' = state
    BY <1>1
  <2>. QED
    BY <2>3, <2>4 DEF IInv, Agreement
<1>. QED
  BY <1>4, <1>5, <1>6, <1>7 DEF IInv

LEMMA NothingHeld ==
  ASSUME NEW K, NEW n
  PROVE  ~Have(<<>>, K, n)
PROOF
  BY DEF Have

LEMMA FinishFlushIInv ==
  ASSUME IInv, FinishFlush
  PROVE  IInv'
PROOF
<1>1. /\ flight # NoFlight /\ flight' = NoFlight /\ flight.left = <<>>
      /\ state' = [state EXCEPT !.pending = <<>>]
      /\ UNCHANGED <<status, settings, scan, saves, torn, told, crashes>>
  BY DEF FinishFlush
<1>2. /\ state' \in Memory
      /\ state'.initialized = state.initialized
      /\ state'.nodes = state.nodes
      /\ state'.pending = <<>>
  <2>1. state \in Memory
    BY DEF IInv, TypeOK
  <2>2. [state EXCEPT !.pending = <<>>] \in Memory
    BY <2>1, NothingQueued, ZenonT(60) DEF Memory
  <2>. QED
    BY <1>1, <2>1, <2>2 DEF Memory
<1>3. TypeOK'
  BY <1>1, <1>2 DEF IInv, TypeOK
<1>4. Scans' /\ OwnAlertsOnly' /\ Delivers' /\ Dropped'
  BY <1>1 DEF IInv, Scans, OwnAlertsOnly, Delivers, Dropped
<1>5. Blank' /\ Owned'
  BY <1>1, <1>2 DEF IInv, Blank, Owned
<1>6. Agreement'
  <2>. SUFFICES ASSUME state.initialized, NEW n \in DOMAIN state.nodes,
                       ~state.nodes[n].missed
                PROVE  Agrees(state.nodes[n], Outcome(n)')
    BY <1>2 DEF Agreement, Agrees
  <2>1. n \in Nodes /\ ~flight.reset
    BY <1>1, StateFacts DEF IInv, Dropped
  <2>2. \/ Have(state.pending, Telling, n) => Have(flight.left, Telling, n)
        \/ told[n] = Outcome(n)
    BY <1>1, <2>1 DEF IInv, Delivers
  <2>3. told[n] = Outcome(n)
    BY <1>1, <2>2, NothingHeld DEF Outcome
  <2>4. Outcome(n)' = told[n]
    BY <1>1, <1>2, NothingHeld DEF Outcome
  <2>5. Agrees(state.nodes[n], Outcome(n))
    BY DEF IInv, Agreement
  <2>. QED
    BY <2>3, <2>4, <2>5
<1>. QED
  BY <1>3, <1>4, <1>5, <1>6 DEF IInv

LEMMA KindFacts ==
  ASSUME NEW n, NEW due
  PROVE  /\ Kind(n, due) \in Kinds \cup {"none"}
         /\ scan[n] = "critical" => Kind(n, due) \in Down \cup {"none"}
         /\ scan[n] = "healthy" => Kind(n, due) \in {"recovered", "none"}
PROOF
<1>. DEFINE kind ==
        CASE scan[n] = "critical" /\ Was(n) = "unknown" ->
               IF n \in due THEN "critical" ELSE "none"
          [] scan[n] = "critical" /\ Was(n) = "critical" ->
               IF Reminds(n, due) THEN "reminder" ELSE "none"
          [] scan[n] = "critical" /\ Was(n) \notin {"unknown", "critical"} ->
               "critical"
          [] scan[n] = "healthy"
             /\ Was(n) \in {"critical", "verifying", "unstable"} ->
               "recovered"
          [] scan[n] = "unstable" /\ Was(n) \notin {"unknown", "unstable"} ->
               "unstable"
          [] OTHER -> "none"
<1>1. Kind(n, due) = IF kind \in settings.wanted THEN kind ELSE "none"
  BY DEF Kind
<1>2. /\ kind \in Kinds \cup {"none"}
      /\ scan[n] = "critical" => kind \in Down \cup {"none"}
      /\ scan[n] = "healthy" => kind \in {"recovered", "none"}
  BY DEF Kinds, Down
<1>. HIDE DEF kind
<1>. QED
  BY <1>1, <1>2

LEMMA HaveAppended ==
  ASSUME NEW q \in Seq(Alerts), NEW more \in Seq(Alerts), NEW K, NEW n
  PROVE  Have(q \o more, K, n) <=> Have(q, K, n) \/ Have(more, K, n)
PROOF
<1>1. /\ DOMAIN q = 1..Len(q) /\ Len(q) \in Nat
      /\ DOMAIN more = 1..Len(more) /\ Len(more) \in Nat
      /\ DOMAIN (q \o more) = 1..(Len(q) + Len(more))
      /\ \A i \in 1..Len(q) : (q \o more)[i] = q[i]
      /\ \A i \in 1..Len(more) : (q \o more)[Len(q) + i] = more[i]
  OBVIOUS
<1>. DEFINE both == q \o more
<1>. HIDE DEF both
<1>2. ASSUME Have(q, K, n) PROVE Have(both, K, n)
  <2>1. PICK i \in DOMAIN q : q[i].kind \in K /\ q[i].node = n
    BY <1>2 DEF Have
  <2>2. i \in DOMAIN both /\ both[i] = q[i]
    BY <1>1, <2>1 DEF both
  <2>. QED
    BY <2>1, <2>2 DEF Have
<1>3. ASSUME Have(more, K, n) PROVE Have(both, K, n)
  <2>1. PICK i \in DOMAIN more : more[i].kind \in K /\ more[i].node = n
    BY <1>3 DEF Have
  <2>2. Len(q) + i \in DOMAIN both /\ both[Len(q) + i] = more[i]
    BY <1>1, <2>1 DEF both
  <2>. QED
    BY <2>1, <2>2 DEF Have
<1>4. ASSUME Have(both, K, n) PROVE Have(q, K, n) \/ Have(more, K, n)
  <2>1. PICK i \in DOMAIN both : both[i].kind \in K /\ both[i].node = n
    BY <1>4 DEF Have
  <2>2. CASE i \in 1..Len(q)
    <3>1. i \in DOMAIN q /\ both[i] = q[i]
      BY <1>1, <2>2 DEF both
    <3>. QED
      BY <2>1, <3>1 DEF Have
  <2>3. CASE i \notin 1..Len(q)
    <3>1. i - Len(q) \in 1..Len(more) /\ Len(q) + (i - Len(q)) = i
      BY <1>1, <2>1, <2>3 DEF both
    <3>2. both[i] = more[i - Len(q)]
      BY <1>1, <3>1 DEF both
    <3>. QED
      BY <1>1, <2>1, <3>1, <3>2 DEF Have
  <2>. QED
    BY <2>2, <2>3
<1>. QED
  BY <1>2, <1>3, <1>4 DEF both

LEMMA RaisedFacts ==
  ASSUME IInv, scan # NoScan, state.initialized, NEW due
  PROVE  /\ Raised(due) \in Seq(Alerts)
         /\ Len(Raised(due)) \in Nat
         /\ Len(Raised(due)) <= Cardinality(Nodes)
         /\ \A i \in DOMAIN Raised(due) :
              Raised(due)[i].for = settings.recipient
         /\ \A n, K : "none" \notin K =>
              (Have(Raised(due), K, n) <=>
                 n \in DOMAIN scan /\ Kind(n, due) \in K)
PROOF
<1>. DEFINE alerts == {n \in DOMAIN scan : Kind(n, due) # "none"}
            c == Cardinality(alerts)
            order == SetToSeq(alerts)
            alert(n) == [kind |-> Kind(n, due), node |-> n,
                         for |-> settings.recipient]
<1>1. DOMAIN scan \subseteq Nodes
  BY DEF IInv, TypeOK
<1>2. alerts \in SUBSET Nodes
  BY <1>1
<1>. HIDE DEF alerts
<1>3. /\ c \in Nat /\ c <= Cardinality(Nodes)
      /\ order \in [1..c -> alerts]
      /\ \A n \in alerts : \E i \in 1..c : order[i] = n
  BY <1>2, InOrder
<1>4. Raised(due) = [i \in 1..c |-> alert(order[i])]
  BY DEF Raised, alerts
<1>. HIDE DEF c, order
<1>5. settings.recipient \in Recipients
  BY DEF IInv, Scans
<1>6. \A n \in alerts : Kind(n, due) \in Kinds /\ n \in Nodes
  BY <1>2, KindFacts DEF alerts
<1>7. \A n \in alerts : alert(n) \in Alerts
  <2>. SUFFICES ASSUME NEW n \in alerts PROVE alert(n) \in Alerts
    OBVIOUS
  <2>1. Kind(n, due) \in Kinds /\ n \in Nodes
    BY <1>6
  <2>. QED
    BY <1>5, <2>1, ZenonT(60) DEF Alerts
<1>8. /\ \A n : /\ alert(n).kind = Kind(n, due) /\ alert(n).node = n
                /\ alert(n).for = settings.recipient
  OBVIOUS
<1>. HIDE DEF alert
<1>9. \A i \in 1..c : order[i] \in alerts /\ Raised(due)[i] = alert(order[i])
  BY <1>3, <1>4
<1>10. Raised(due) \in [1..c -> Alerts]
  BY <1>3, <1>4, <1>7
<1>11. /\ Raised(due) \in Seq(Alerts) /\ Len(Raised(due)) = c
       /\ DOMAIN Raised(due) = 1..c
  BY <1>3, <1>10
<1>12. ASSUME NEW n, NEW K, "none" \notin K
       PROVE  Have(Raised(due), K, n) <=>
                n \in DOMAIN scan /\ Kind(n, due) \in K
  <2>1. ASSUME Have(Raised(due), K, n)
        PROVE  n \in DOMAIN scan /\ Kind(n, due) \in K
    <3>1. PICK i \in 1..c :
            Raised(due)[i].kind \in K /\ Raised(due)[i].node = n
      BY <1>11, <2>1 DEF Have
    <3>2. order[i] = n /\ order[i] \in alerts /\ Kind(n, due) \in K
      BY <1>8, <1>9, <3>1
    <3>. QED
      BY <3>2 DEF alerts
  <2>2. ASSUME n \in DOMAIN scan, Kind(n, due) \in K
        PROVE  Have(Raised(due), K, n)
    <3>1. n \in alerts
      BY <1>12, <2>2 DEF alerts
    <3>2. PICK i \in 1..c : order[i] = n
      BY <1>3, <3>1
    <3>3. Raised(due)[i].kind \in K /\ Raised(due)[i].node = n
      BY <1>8, <1>9, <2>2, <3>2
    <3>. QED
      BY <1>11, <3>3 DEF Have
  <2>. QED
    BY <2>1, <2>2
<1>. QED
  BY <1>3, <1>8, <1>9, <1>11, <1>12

LEMMA FirstScanIInv ==
  ASSUME IInv, scan # NoScan, ~state.initialized,
         state' = FirstScan, scan' = NoScan,
         UNCHANGED <<status, settings, flight, saves, torn, told, crashes>>
  PROVE  IInv'
PROOF
<1>. DEFINE nodes == [n \in DOMAIN scan |->
                        [state |-> scan[n], alerted |-> FALSE,
                         missed |-> scan[n] = "critical"]]
<1>1. flight = NoFlight
  BY DEF IInv, Scans
<1>2. state.pending = <<>> /\ told = Untold
  BY DEF IInv, Blank
<1>3. /\ DOMAIN scan \in SUBSET Nodes
      /\ \A n \in DOMAIN scan : scan[n] \in NodeStates
  <2>1. PICK s \in SUBSET Nodes : scan \in [s -> States]
    BY DEF IInv, TypeOK
  <2>. QED
    BY <2>1, AlertsAssumption
<1>4. nodes \in UNION {[s -> Observed] : s \in SUBSET Nodes}
  <2>1. nodes \in [DOMAIN scan -> Observed]
    BY <1>3 DEF Observed
  <2>. HIDE DEF nodes
  <2>. QED
    BY <1>3, <2>1
<1>5. state' = [initialized |-> TRUE, nodes |-> nodes, pending |-> <<>>]
  BY <1>2 DEF FirstScan
<1>6. \A n \in DOMAIN nodes :
        nodes[n].state = "critical" => nodes[n].missed
  OBVIOUS
<1>. HIDE DEF nodes
<1>7. /\ state' \in Memory
      /\ state'.initialized = TRUE /\ state'.nodes = nodes
      /\ state'.pending = <<>>
  <2>1. [initialized |-> TRUE, nodes |-> nodes, pending |-> <<>>] \in Memory
    BY <1>4, NothingQueued, ZenonT(60) DEF Memory
  <2>. QED
    BY <1>5, <2>1
<1>8. TypeOK'
  BY <1>7 DEF IInv, TypeOK
<1>9. /\ Scans' /\ Blank' /\ Owned' /\ OwnAlertsOnly'
      /\ Delivers' /\ Dropped'
  BY <1>1, <1>7
     DEF Scans, Blank, Owned, OwnAlertsOnly, Delivers, Dropped
<1>10. Agreement'
  <2>1. DOMAIN nodes \subseteq Nodes
    BY <1>3 DEF nodes
  <2>. SUFFICES ASSUME NEW n \in DOMAIN nodes
                PROVE  Agrees(nodes[n], Outcome(n)')
    BY <1>7 DEF Agreement
  <2>2. Outcome(n)' = told[n]
    BY <1>7, NothingHeld DEF Outcome
  <2>3. told[n] = "nothing"
    BY <1>2, <2>1 DEF Untold
  <2>. QED
    BY <1>6, <2>2, <2>3 DEF Agrees
<1>. QED
  BY <1>8, <1>9, <1>10 DEF IInv

LEMMA NextScanIInv ==
  ASSUME IInv, scan # NoScan, state.initialized,
         NEW due, NEW forgotten \in SUBSET (DOMAIN state.nodes \ DOMAIN scan),
         state' = NextScan(due, forgotten), scan' = NoScan,
         UNCHANGED <<status, settings, flight, saves, torn, told, crashes>>
  PROVE  IInv'
PROOF
<1>. DEFINE S == (DOMAIN state.nodes \cup DOMAIN scan) \ forgotten
            seen(n) == [state |-> scan[n],
                        alerted |-> Alerted(n) \/ Kind(n, due) \in Down,
                        missed |-> Missed(n, due)]
            nodes == [n \in S |-> IF n \in DOMAIN scan THEN seen(n)
                                 ELSE state.nodes[n]]
            queue == state.pending \o Raised(due)
<1>1. flight = NoFlight
      /\ Len(state.pending) + Cardinality(Nodes) <= MaxPending
  BY DEF IInv, Scans
<1>2. /\ DOMAIN scan \in SUBSET Nodes
      /\ \A n \in DOMAIN scan : scan[n] \in NodeStates
  <2>1. PICK s \in SUBSET Nodes : scan \in [s -> States]
    BY DEF IInv, TypeOK
  <2>. QED
    BY <2>1, AlertsAssumption
<1>3. /\ state.pending \in Seq(Alerts) /\ Len(state.pending) \in Nat
      /\ DOMAIN state.nodes \subseteq Nodes
      /\ \A n \in DOMAIN state.nodes : state.nodes[n] \in Observed
  BY StateFacts DEF IInv
<1>4. /\ Raised(due) \in Seq(Alerts)
      /\ Len(Raised(due)) \in Nat
      /\ Len(Raised(due)) <= Cardinality(Nodes)
      /\ \A i \in DOMAIN Raised(due) :
           Raised(due)[i].for = settings.recipient
  BY RaisedFacts
<1>5. state' = [initialized |-> TRUE, nodes |-> nodes, pending |-> queue]
  BY DEF NextScan
<1>6. \A n \in DOMAIN state.nodes :
        /\ state.nodes[n].state \in NodeStates
        /\ state.nodes[n].alerted \in BOOLEAN
        /\ state.nodes[n].missed \in BOOLEAN
  BY <1>3 DEF Observed
<1>7. \A n \in DOMAIN scan : seen(n) \in Observed
  <2>. SUFFICES ASSUME NEW n \in DOMAIN scan PROVE seen(n) \in Observed
    OBVIOUS
  <2>1. Alerted(n) \in BOOLEAN
    BY <1>6, Zenon DEF Alerted, Known
  <2>3. Missed(n, due) \in BOOLEAN
    BY DEF Missed
  <2>2. (Alerted(n) \/ Kind(n, due) \in Down) \in BOOLEAN
        /\ scan[n] \in NodeStates
    BY <1>2
  <2>. QED
    BY <2>1, <2>2, <2>3, ZenonT(60) DEF Observed
<1>8. \A n : /\ seen(n).state = scan[n]
             /\ seen(n).alerted = (Alerted(n) \/ Kind(n, due) \in Down)
             /\ seen(n).missed = Missed(n, due)
  OBVIOUS
<1>. HIDE DEF seen
<1>9. /\ DOMAIN nodes = S
      /\ \A n \in S : n \in DOMAIN scan => nodes[n] = seen(n)
      /\ \A n \in S : n \notin DOMAIN scan => nodes[n] = state.nodes[n]
  OBVIOUS
<1>10. S \in SUBSET Nodes /\ nodes \in [S -> Observed]
  BY <1>2, <1>3, <1>7
<1>. HIDE DEF nodes
<1>11. queue \in Queues
  <2>1. Cardinality(Nodes) \in Nat /\ MaxPending \in Nat
    BY AlertsAssumption, FS_CardinalityType
  <2>2. queue \in Seq(Alerts)
        /\ Len(queue) = Len(state.pending) + Len(Raised(due))
    BY <1>3, <1>4
  <2>. HIDE DEF queue
  <2>3. Len(queue) <= MaxPending
    BY <1>1, <1>3, <1>4, <2>1, <2>2
  <2>. QED
    BY <2>2, <2>3, SeqIsQueue
<1>. HIDE DEF queue, S
<1>12. /\ state' \in Memory
       /\ state'.initialized = TRUE /\ state'.nodes = nodes
       /\ state'.pending = queue
  <2>1. nodes \in UNION {[s -> Observed] : s \in SUBSET Nodes}
    BY <1>10
  <2>2. [initialized |-> TRUE, nodes |-> nodes, pending |-> queue] \in Memory
    BY <1>11, <2>1, ZenonT(60) DEF Memory
  <2>. QED
    BY <1>5, <2>2
<1>13. TypeOK'
  BY <1>12 DEF IInv, TypeOK
<1>14. Scans' /\ Blank' /\ OwnAlertsOnly' /\ Delivers' /\ Dropped'
  BY <1>1, <1>12 DEF Scans, Blank, OwnAlertsOnly, Delivers, Dropped
<1>15. Owned'
  <2>. SUFFICES ASSUME ~torn, NEW i \in DOMAIN queue
                PROVE  queue[i].for = settings.recipient
    BY <1>12 DEF Owned
  <2>1. \A j \in DOMAIN state.pending :
          state.pending[j].for = settings.recipient
    BY DEF IInv, Owned
  <2>2. \/ i \in DOMAIN state.pending /\ queue[i] = state.pending[i]
        \/ \E j \in DOMAIN Raised(due) : queue[i] = Raised(due)[j]
    <3>. DEFINE q == state.pending
                more == Raised(due)
    <3>1. /\ DOMAIN q = 1..Len(q) /\ Len(q) \in Nat
          /\ DOMAIN more = 1..Len(more) /\ Len(more) \in Nat
          /\ DOMAIN queue = 1..(Len(q) + Len(more))
          /\ \A h \in 1..Len(q) : queue[h] = q[h]
          /\ \A h \in 1..(Len(q) + Len(more)) :
               h > Len(q) => queue[h] = more[h - Len(q)]
      <4>. HIDE DEF q, more
      <4>1. q \in Seq(Alerts) /\ more \in Seq(Alerts) /\ queue = q \o more
        BY <1>3, <1>4 DEF queue, q, more
      <4>. QED
        BY <4>1
    <3>. HIDE DEF q, more
    <3>2. CASE i <= Len(q)
      BY <3>1, <3>2 DEF q
    <3>3. CASE i > Len(q)
      <4>1. i - Len(q) \in DOMAIN more /\ queue[i] = more[i - Len(q)]
        BY <3>1, <3>3
      <4>. QED
        BY <4>1 DEF more
    <3>. QED
      BY <3>1, <3>2, <3>3
  <2>. QED
    BY <1>4, <2>1, <2>2
<1>16. Agreement'
  <2>. SUFFICES ASSUME NEW n \in S
                PROVE  Agrees(nodes[n], Outcome(n)')
    BY <1>9, <1>12 DEF Agreement
  <2>. DEFINE old(K) == Have(state.pending, K, n)
              new(K) == n \in DOMAIN scan /\ Kind(n, due) \in K
  <2>1. \A K : "none" \notin K => (Have(queue, K, n) <=> old(K) \/ new(K))
    BY <1>3, <1>4, RaisedFacts, HaveAppended DEF queue
  <2>2. "none" \notin Telling /\ "none" \notin Down
        /\ "none" \notin {"recovered"}
    BY DEF Telling, Down
  <2>3. /\ Have(queue, Telling, n) <=> old(Telling) \/ new(Telling)
        /\ Have(queue, Down, n) <=> old(Down) \/ new(Down)
        /\ Have(queue, {"recovered"}, n) <=>
             old({"recovered"}) \/ new({"recovered"})
    BY <2>1, <2>2
  <2>4. Outcome(n)' =
          IF ~Have(queue, Telling, n) THEN told[n]
          ELSE IF Have(queue, Down, n) /\ Have(queue, {"recovered"}, n)
               THEN "mixed"
               ELSE IF Have(queue, Down, n) THEN "down" ELSE "up"
    BY <1>12 DEF Outcome, Both
  <2>5. Outcome(n) =
          IF ~old(Telling) THEN told[n]
          ELSE IF old(Down) /\ old({"recovered"}) THEN "mixed"
               ELSE IF old(Down) THEN "down" ELSE "up"
    BY DEF Outcome, Both
  <2>6. /\ old(Telling) <=> old(Down) \/ old({"recovered"})
        /\ Have(queue, Telling, n) <=>
             Have(queue, Down, n) \/ Have(queue, {"recovered"}, n)
    BY HaveParts
  <2>7. n \in DOMAIN state.nodes => Agrees(state.nodes[n], Outcome(n))
    BY DEF IInv, Agreement
  <2>. HIDE DEF old, new
  <2>8. ~new(Telling) => Outcome(n)' = Outcome(n)
    <3>1. new(Telling) <=> new(Down) \/ new({"recovered"})
      BY DEF new, Telling
    <3>. QED
      BY <2>3, <2>4, <2>5, <3>1
  <2>9. CASE n \notin DOMAIN scan
    <3>1. n \in DOMAIN state.nodes /\ nodes[n] = state.nodes[n]
      BY <1>9, <2>9 DEF S
    <3>2. ~new(Telling)
      BY <2>9 DEF new
    <3>. QED
      BY <2>7, <2>8, <3>1, <3>2
  <2>10. CASE n \in DOMAIN scan
    <3>1. nodes[n].state = scan[n] /\ nodes[n].missed = Missed(n, due)
      BY <1>8, <1>9, <2>10
    <3>. SUFFICES ASSUME ~Missed(n, due), scan[n] \in {"critical", "healthy"}
                  PROVE  /\ scan[n] = "critical" =>
                              Outcome(n)' \in {"down", "mixed"}
                         /\ scan[n] = "healthy" => Outcome(n)' # "down"
      BY <3>1 DEF Agrees
    <3>2. CASE Kind(n, due) = "none"
      <4>1. scan[n] = Was(n) /\ ~state.nodes[n].missed
        BY <3>2 DEF Missed
      <4>2. n \in DOMAIN state.nodes /\ state.nodes[n].state = scan[n]
        BY <4>1 DEF Was, Known
      <4>3. ~new(Telling)
        BY <3>2 DEF new, Telling, Down
      <4>. QED
        BY <2>7, <2>8, <4>1, <4>2, <4>3 DEF Agrees
    <3>3. CASE Kind(n, due) # "none"
      <4>1. CASE scan[n] = "critical"
        <5>1. new(Down)
          BY <2>10, <3>3, <4>1, KindFacts DEF new
        <5>. QED
          BY <2>3, <2>4, <2>6, <4>1, <5>1
      <4>2. CASE scan[n] = "healthy"
        <5>1. new({"recovered"})
          BY <2>10, <3>3, <4>2, KindFacts DEF new
        <5>. QED
          BY <2>3, <2>4, <2>6, <4>2, <5>1
      <4>. QED
        BY <4>1, <4>2
    <3>. QED
      BY <3>2, <3>3
  <2>. QED
    BY <2>9, <2>10
<1>. QED
  BY <1>13, <1>14, <1>15, <1>16 DEF IInv

LEMMA JudgeIInv ==
  ASSUME IInv, NEW due, Judge(due)
  PROVE  IInv'
PROOF
<1>1. CASE state.initialized
  BY <1>1, NextScanIInv DEF Judge
<1>2. CASE ~state.initialized
  BY <1>2, FirstScanIInv DEF Judge
<1>. QED
  BY <1>1, <1>2

LEMMA TokenIsSettings ==
  ASSUME settings \in Settings, NEW b \in BOOLEAN
  PROVE  /\ [settings EXCEPT !.token = b] \in Settings
         /\ [settings EXCEPT !.token = b].recipient = settings.recipient
         /\ [settings EXCEPT !.token = b].env = settings.env
PROOF
  BY ZenonT(60) DEF Settings

LEMMA RemovedIsSettings ==
  ASSUME TypeOK
  PROVE  Removed \in Settings
PROOF
<1>1. settings \in Settings
  BY DEF TypeOK
<1>. QED
  BY <1>1, ZenonT(60) DEF Removed, Settings

LEMMA SavedIsSettings ==
  ASSUME TypeOK, NEW s \in saves
  PROVE  /\ s.request \in Requests /\ s.previous \in Settings
         /\ Saved(s.request) \in Settings
         /\ Saved(s.request).recipient = s.request.recipient
         /\ s.request.recipient \in Recipients
PROOF
<1>1. s.request \in Requests /\ s.previous \in Settings /\ settings \in Settings
  BY DEF TypeOK
<1>. DEFINE to == s.request.recipient
            on == s.request.enabled
            kinds == s.request.wanted
            token == settings.token \/ s.request.withToken
<1>2. /\ to \in Recipients /\ on \in BOOLEAN /\ kinds \in SUBSET Kinds
      /\ s.request.withToken \in BOOLEAN
  BY <1>1, AlertsAssumption
<1>3. token \in BOOLEAN
  OBVIOUS
<1>4. Saved(s.request) = [settings EXCEPT !.recipient = to, !.token = token,
                                          !.enabled = on, !.wanted = kinds]
  BY DEF Saved
<1>. HIDE DEF to, on, kinds, token
<1>5. [settings EXCEPT !.recipient = to, !.token = token, !.enabled = on,
                       !.wanted = kinds] \in Settings
  BY <1>1, <1>2, <1>3, ZenonT(60) DEF Settings
<1>6. Saved(s.request).recipient = to
  BY <1>1, <1>4 DEF Settings
<1>. QED
  BY <1>1, <1>2, <1>4, <1>5, <1>6 DEF to

(* Steps that keep the state, perhaps for another recipient.               *)
LEMMA KeepIInv ==
  ASSUME IInv, Keep,
         \/ flight' = InFlight(settings'.recipient # settings.recipient)
         \/ flight' = NoFlight,
         scan' = scan \/ scan' = NoScan,
         status' \in [Nodes -> States \cup {"absent"}],
         settings' \in Settings,
         saves' \subseteq [request : Requests, previous : Settings],
         torn' \in BOOLEAN, torn => torn',
         \/ torn' \/ settings'.recipient = settings.recipient
         \/ state.pending = <<>>,
         \/ scan' = NoScan
         \/ settings'.recipient = settings.recipient
         \/ settings'.recipient \in Recipients,
         crashes' \in 0..MaxCrashes
  PROVE  IInv'
PROOF
<1>1. CASE settings'.recipient = settings.recipient
  <2>1. UNCHANGED <<state, told>>
    BY <1>1 DEF Keep
  <2>2. flight' = flight \/ flight' = NoFlight
    BY <1>1 DEF InFlight
  <2>. QED
    BY <1>1, <2>1, <2>2, KeepsIInv
<1>2. CASE settings'.recipient # settings.recipient
  <2>. DEFINE nodes == [n \in DOMAIN state.nodes |->
                          [state.nodes[n] EXCEPT !.missed = TRUE]]
  <2>1. state' = [state EXCEPT !.nodes = nodes] /\ told' = Untold
    BY <1>2 DEF Keep
  <2>2. TypeOK
    BY DEF IInv
  <2>3. /\ DOMAIN nodes = DOMAIN state.nodes
        /\ nodes \in UNION {[s -> Observed] : s \in SUBSET Nodes}
        /\ \A n \in DOMAIN nodes : nodes[n].missed
    <3>1. /\ DOMAIN state.nodes \subseteq Nodes
          /\ \A n \in DOMAIN state.nodes : state.nodes[n] \in Observed
      BY <2>2, StateFacts
    <3>2. ASSUME NEW o \in Observed
          PROVE  /\ [o EXCEPT !.missed = TRUE] \in Observed
                 /\ [o EXCEPT !.missed = TRUE].missed = TRUE
      BY DEF Observed
    <3>3. nodes \in [DOMAIN state.nodes -> Observed]
      BY <3>1, <3>2
    <3>. QED
      BY <3>1, <3>2, <3>3
  <2>. HIDE DEF nodes
  <2>4. /\ state' \in Memory
        /\ state'.nodes = nodes
        /\ state'.initialized = state.initialized
        /\ state'.pending = state.pending
    <3>1. state \in Memory
      BY <2>2 DEF TypeOK
    <3>2. [state EXCEPT !.nodes = nodes] \in Memory
      BY <2>3, <3>1, ZenonT(60) DEF Memory
    <3>. QED
      BY <2>1, <3>1, <3>2 DEF Memory
  <2>5. \/ flight' = NoFlight
        \/ flight # NoFlight /\ flight' = InFlight(TRUE)
    BY <1>2, <2>2, InFlightIsBatch
  <2>6. flight' = NoFlight \/ flight' \in Batch
    BY <2>2, <2>5, InFlightIsBatch
  <2>7. TypeOK'
    BY <2>1, <2>2, <2>4, <2>6 DEF TypeOK, Untold
  <2>8. Scans'
    BY <1>2, <2>4, <2>5 DEF IInv, Scans
  <2>9. Blank'
    BY <2>1, <2>4 DEF IInv, Blank, Untold
  <2>10. Owned'
    BY <1>2, <2>4 DEF IInv, Owned
  <2>11. OwnAlertsOnly'
    BY <2>2, <2>5, InFlightIsBatch DEF IInv, OwnAlertsOnly, Recipient
  <2>12. Delivers' /\ Dropped'
    BY <2>2, <2>3, <2>4, <2>5, InFlightIsBatch DEF Delivers, Dropped
  <2>13. Agreement'
    BY <2>3, <2>4 DEF Agreement, Agrees
  <2>. QED
    BY <2>7, <2>8, <2>9, <2>10, <2>11, <2>12, <2>13 DEF IInv
<1>. QED
  BY <1>1, <1>2

LEMMA CommitSaveIInv ==
  ASSUME IInv, NEW s \in saves, CommitSave(s)
  PROVE  IInv'
PROOF
<1>1. /\ settings' = Saved(s.request)
      /\ saves' = saves \ {s}
      /\ UNCHANGED <<status, scan, crashes>>
  BY DEF CommitSave
<1>2. TypeOK
  BY DEF IInv
<1>3. /\ status' \in [Nodes -> States \cup {"absent"}]
      /\ settings' \in Settings
      /\ saves' \subseteq [request : Requests, previous : Settings]
      /\ crashes' \in 0..MaxCrashes
      /\ settings'.recipient = s.request.recipient
      /\ s.request.recipient \in Recipients
  BY <1>1, <1>2, SavedIsSettings DEF TypeOK
<1>4. CASE Resets(s.request, s.previous)
  <2>1. Reset /\ flight' = InFlight(TRUE)
    BY <1>4 DEF CommitSave, InFlight
  <2>. QED
    BY <1>1, <1>3, <2>1, ResetsIInv
<1>5. CASE ~Resets(s.request, s.previous)
  <2>1. Keep /\ torn' = (torn \/ s.previous # settings)
    BY <1>5 DEF CommitSave
  <2>2. flight' = InFlight(settings'.recipient # settings.recipient)
    BY <1>5 DEF CommitSave, InFlight
  <2>3. torn' \in BOOLEAN /\ (torn => torn')
    BY <1>2, <2>1 DEF TypeOK
  <2>4. torn' \/ settings'.recipient = settings.recipient
    <3>1. s.previous.recipient = s.request.recipient
      BY <1>5 DEF Resets
    <3>2. torn' \/ s.previous = settings
      BY <2>1
    <3>. QED
      BY <1>3, <3>1, <3>2
  <2>. QED
    BY <1>1, <1>3, <2>1, <2>2, <2>3, <2>4, KeepIInv
<1>. QED
  BY <1>4, <1>5

LEMMA RestartsIInv ==
  ASSUME IInv, NEW saved \in Settings, Restart(saved)
  PROVE  /\ flight' = NoFlight /\ scan' = NoScan
         /\ settings' \in Settings /\ settings' = Managed(saved)
         /\ status' \in [Nodes -> States \cup {"absent"}]
         /\ saves' \subseteq [request : Requests, previous : Settings]
         /\ crashes' \in 0..MaxCrashes
PROOF
<1>1. crashes \in 0..MaxCrashes /\ MaxCrashes \in Nat
  BY AlertsAssumption DEF IInv, TypeOK
<1>2. crashes' \in 0..MaxCrashes
  BY <1>1 DEF Restart
<1>3. settings' \in Settings /\ settings' = Managed(saved)
  BY ManagedIsSettings DEF Restart
<1>. QED
  BY <1>2, <1>3 DEF IInv, TypeOK, Restart

LEMMA CrashInDisconnectIInv ==
  ASSUME IInv, CrashInDisconnect
  PROVE  IInv'
PROOF
<1>. DEFINE saved == [settings EXCEPT !.token = FALSE]
<1>1. settings.env = Unmanaged /\ Restart(saved)
  BY DEF CrashInDisconnect
<1>2. settings \in Settings /\ torn \in BOOLEAN
  BY DEF IInv, TypeOK
<1>3. /\ saved \in Settings /\ saved.recipient = settings.recipient
      /\ saved.env = settings.env
  BY <1>2, TokenIsSettings
<1>. HIDE DEF saved
<1>4. settings' = saved
  BY <1>1, <1>3 DEF Restart, Managed
<1>5. CASE Reset
  BY <1>1, <1>3, <1>5, RestartsIInv, ResetsIInv
<1>6. CASE UNCHANGED <<state, torn, told>>
  BY <1>1, <1>2, <1>3, <1>4, <1>6, RestartsIInv, KeepsIInv
<1>. QED
  BY <1>5, <1>6 DEF CrashInDisconnect

LEMMA SettlesIInv ==
  ASSUME IInv,
         \/ \E n \in Nodes, s \in States \cup {"absent"} : Change(n, s)
         \/ \E request \in Requests : BeginSave(request)
         \/ \E s \in saves : RejectSave(s)
  PROVE  IInv'
PROOF
<1>1. TypeOK
  BY DEF IInv
<1>2. CASE \E n \in Nodes, s \in States \cup {"absent"} : Change(n, s)
  <2>1. PICK n \in Nodes, s \in States \cup {"absent"} : Change(n, s)
    BY <1>2
  <2>2. status' \in [Nodes -> States \cup {"absent"}]
    BY <1>1, <2>1 DEF Change, TypeOK
  <2>. QED
    BY <1>1, <2>1, <2>2, KeepsIInv DEF Change, TypeOK
<1>3. CASE \E request \in Requests : BeginSave(request)
  <2>1. PICK request \in Requests : BeginSave(request)
    BY <1>3
  <2>2. saves' \subseteq [request : Requests, previous : Settings]
    BY <1>1, <2>1 DEF BeginSave, TypeOK
  <2>. QED
    BY <1>1, <2>1, <2>2, KeepsIInv DEF BeginSave, TypeOK
<1>4. CASE \E s \in saves : RejectSave(s)
  BY <1>1, <1>4, KeepsIInv DEF RejectSave, TypeOK
<1>. QED
  BY <1>2, <1>3, <1>4

LEMMA NextIInv == IInv /\ [Next]_vars => IInv'
PROOF
<1>. SUFFICES ASSUME IInv, [Next]_vars PROVE IInv'
  OBVIOUS
<1>1. TypeOK
  BY DEF IInv
<1>2. CASE CollectNodes \/ \E due \in SUBSET Nodes : Judge(due)
  BY <1>2, CollectNodesIInv, JudgeIInv
<1>3. CASE StartFlush \/ FailMessage \/ FinishFlush
  BY <1>3, StartFlushIInv, FailMessageIInv, FinishFlushIInv
<1>4. CASE \E k \in 1..MaxPending : SendMessage(k)
  BY <1>4, SendMessageIInv
<1>5. CASE \E s \in saves : CommitSave(s)
  BY <1>5, CommitSaveIInv
<1>6. CASE \E s \in saves : CrashInSave(s)
  <2>1. PICK s \in saves : CrashInSave(s)
    BY <1>6
  <2>2. Keep /\ torn' = TRUE
    BY <2>1 DEF CrashInSave
  <2>3. \E saved \in Settings : Restart(saved)
    <3>1. Saved(s.request) \in Settings
      BY <1>1, SavedIsSettings
    <3>2. settings \in Settings
      BY <1>1 DEF TypeOK
    <3>3. [settings EXCEPT !.token = TRUE] \in Settings
      BY <3>2, TokenIsSettings
    <3>. QED
      BY <2>1, <3>1, <3>3 DEF CrashInSave
  <2>. QED
    BY <2>2, <2>3, RestartsIInv, KeepIInv
<1>7. CASE Disconnect
  <2>1. settings' \in Settings
    BY <1>1, <1>7, RemovedIsSettings DEF Disconnect
  <2>. QED
    BY <1>1, <1>7, <2>1, ResetsIInv DEF Disconnect, TypeOK
<1>8. CASE Crash
  <2>1. settings \in Settings /\ torn \in BOOLEAN
    BY <1>1 DEF TypeOK
  <2>2. /\ Restart(settings) /\ Keep
        /\ torn' = \/ torn
                   \/ /\ state.pending # <<>>
                      /\ settings'.recipient # settings.recipient
    BY <1>8 DEF Crash
  <2>3. torn' \in BOOLEAN /\ (torn => torn')
        /\ \/ torn' \/ settings'.recipient = settings.recipient
           \/ state.pending = <<>>
    BY <2>1, <2>2
  <2>. QED
    BY <2>1, <2>2, <2>3, RestartsIInv, KeepIInv
<1>9. CASE NewSession
  <2>1. settings \in Settings
    BY <1>1 DEF TypeOK
  <2>. QED
    BY <1>9, <2>1, RestartsIInv, ResetsIInv DEF NewSession
<1>10. CASE UNCHANGED vars
  BY <1>1, <1>10, KeepsIInv DEF vars, TypeOK
<1>. QED
  BY <1>2, <1>3, <1>4, <1>5, <1>6, <1>7, <1>8, <1>9, <1>10,
     CrashInDisconnectIInv, SettlesIInv, Zenon DEF Next

LEMMA Invariance == Spec => []IInv
PROOF
<1>1. IInv /\ [Next]_vars => IInv'
  BY NextIInv
<1>. QED
  BY <1>1, InitIInv, PTL DEF Spec

-----------------------------------------------------------------------------
(* Settings, queue, batch and what was seen keep their form, and a scan    *)
(* never fills the queue beyond its bound (Manager.evaluate, flush, Save). *)
THEOREM AlertsTypeOK == Spec => []TypeOK
PROOF
<1>1. IInv => TypeOK
  BY DEF IInv
<1>. QED
  BY <1>1, Invariance, PTL

(* A batch goes to the recipient its alerts were raised for, unless two    *)
(* saves overlapped, the process died within one, or its environment put   *)
(* another chat in the place of the saved one at a start (flush, Save,     *)
(* Disconnect, NewManager).                                                *)
THEOREM AlertsReachTheirOwn == Spec => []OwnAlertsOnly
PROOF
<1>1. IInv => OwnAlertsOnly
  BY DEF IInv
<1>. QED
  BY <1>1, Invariance, PTL

(* When nothing waits, the recipient knows what was seen last of every     *)
(* node whose state was reported, whatever was tried again, lost, begun    *)
(* anew or asked for since (evaluate, flush, Save).                        *)
THEOREM RecipientsAgreeAtRest == Spec => []AgreesAtRest
PROOF
<1>1. IInv => AgreesAtRest
  <2>. SUFFICES ASSUME IInv, state.initialized, state.pending = <<>>,
                       NEW n \in DOMAIN state.nodes
                PROVE  Agrees(state.nodes[n], told[n])
    BY DEF AgreesAtRest, Agrees
  <2>1. Outcome(n) = told[n]
    BY NothingHeld DEF Outcome
  <2>. QED
    BY <2>1 DEF IInv, Agreement
<1>. QED
  BY <1>1, Invariance, PTL

=============================================================================
