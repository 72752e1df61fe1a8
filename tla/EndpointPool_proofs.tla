------------------------ MODULE EndpointPool_proofs ------------------------
(***************************************************************************)
(* What the pool of endpoints holds after any sequence of polls, for every *)
(* set of keys, every number of reads and every DetachAfterPolls.          *)
(***************************************************************************)
EXTENDS EndpointPool, FiniteSetTheorems, TLAPS

(* What a candidate has pending was seen in the last poll that counted: a  *)
(* revision in the last one that reported the key, a replacement in the    *)
(* last one of all.                                                        *)
PendingIsRecent ==
  \A k \in Keys : Present(k) =>
    /\ pool[k].pendingRounds = 1 => pool[k].pendingRevision = lastRev[k]
    /\ pool[k].pendingReplacementKey # NoKey =>
         pool[k].pendingReplacementKey \in successors[k]

IInv == TypeOK /\ PendingIsRecent /\ PoolIsRecent

-----------------------------------------------------------------------------
(* Polls.                                                                  *)

LEMMA RoundSamples ==
  ASSUME NEW round \in Rounds
  PROVE  round.samples \in Nat
PROOF
<1>1. PICK n \in Samples :
        round \in {Summary(reads) : reads \in [1..n -> Reads]}
  BY DEF Rounds
<1>2. PICK reads \in [1..n -> Reads] : round = Summary(reads)
  BY <1>1
<1>3. n \in Nat
  BY EndpointPoolAssumption
<1>4. Cardinality(1..n) \in Nat
  <2>1. 1 \in Int /\ n \in Int
    BY <1>3
  <2>2. IsFiniteSet(1..n)
    BY <2>1, FS_Interval
  <2>. QED
    BY <2>2, FS_CardinalityType
<1>5. DOMAIN reads = 1..n
  OBVIOUS
<1>. QED
  BY <1>2, <1>4, <1>5 DEF Summary

(* The port that takes the place of another was reported, that one not.    *)
LEMMA ReplacementIsReported ==
  ASSUME NEW round \in Rounds, NEW k \in Keys \ Reported(round)
  PROVE  /\ ReplacementKey(round, k) \in Keys \cup {NoKey}
         /\ ReplacementKey(round, k) # NoKey =>
              /\ ReplacementKey(round, k) \in Reported(round)
              /\ ReplacementKey(round, k) \in SuccessorsIn(round, k)
              /\ ServerOf[ReplacementKey(round, k)] = ServerOf[k]
PROOF
<1>. DEFINE key == ReplacementKey(round, k)
<1>1. CASE ~(/\ round.samples >= 2
             /\ Cardinality(Replacements(round, k)) = 1)
  BY <1>1 DEF ReplacementKey
<1>2. CASE round.samples >= 2 /\ Cardinality(Replacements(round, k)) = 1
  <2>1. Replacements(round, k) # {}
    BY <1>2, FS_EmptySet
  <2>2. key \in Replacements(round, k)
    BY <1>2, <2>1 DEF ReplacementKey
  <2>3. round.samples \in Nat
    BY RoundSamples
  <2>. HIDE DEF key
  <2>4. /\ key \in Keys
        /\ ServerOf[key] = ServerOf[k]
        /\ \E r \in Revs : round.count[<<key, r>>] = round.samples
    BY <2>2 DEF Replacements
  <2>5. \E r \in Revs : round.count[<<key, r>>] > 0
    BY <1>2, <2>3, <2>4
  <2>6. key \in Reported(round)
    BY <2>4, <2>5 DEF Reported
  <2>7. key \in SuccessorsIn(round, k)
    BY <2>4, <2>6 DEF SuccessorsIn
  <2>. QED
    BY <2>4, <2>6, <2>7 DEF key
<1>. QED
  BY <1>1, <1>2

-----------------------------------------------------------------------------
(* Candidates.                                                             *)

LEMMA AbsentIsNone ==
  /\ Absent \notin Candidate
  /\ \A r \in Revs : NewCandidate(r) \in Candidate
BY EndpointPoolAssumption DEF Candidate, Absent, NewCandidate

(* A reported endpoint stays. It gets another configuration only when that *)
(* was counted twice or was pending since the last report.                 *)
LEMMA SightedCandidate ==
  ASSUME NEW c \in Candidate, NEW r \in Revs, NEW copies
  PROVE  LET d == Sighted(c, r, copies)
         IN /\ d \in Candidate
            /\ d.missingPolls = 0
            /\ d.pendingReplacementKey = NoKey
            /\ d.pendingRounds = 1 => d.pendingRevision = r
            /\ d.config # c.config =>
                 /\ d.config = r
                 /\ \/ copies >= 2
                    \/ c.pendingRevision = r /\ c.pendingRounds = 1
PROOF
<1>. DEFINE b == Back(c)
            d == Sighted(c, r, copies)
<1>1. /\ 0 \in 0..(DetachAfterPolls - 1) /\ 0 \in 0..1 /\ 1 \in 0..1
      /\ NoKey \in Keys \cup {NoKey} /\ NoRev \in Revs \cup {NoRev}
      /\ r \in Revs \cup {NoRev}
  BY EndpointPoolAssumption
<1>2. /\ b \in Candidate
      /\ b.config = c.config
      /\ b.missingPolls = 0
      /\ b.pendingReplacementKey = NoKey
      /\ b.pendingRevision = c.pendingRevision
      /\ b.pendingRounds = c.pendingRounds
  <2>1. b \in Candidate
    BY <1>1, ZenonT(60) DEF Back, Candidate
  <2>2. /\ b.config = c.config
        /\ b.missingPolls = 0
        /\ b.pendingReplacementKey = NoKey
        /\ b.pendingRevision = c.pendingRevision
        /\ b.pendingRounds = c.pendingRounds
    BY DEF Back, Candidate
  <2>. QED
    BY <2>1, <2>2
<1>3. c.pendingRounds \in 0..1 /\ PendingRounds(c, r) \in 1..2
  BY DEF Candidate, PendingRounds
<1>. HIDE DEF b
<1>4. CASE c.config = r \/ copies >= 2 \/ PendingRounds(c, r) >= 2
  <2>1. d = Settled(b, r)
    BY <1>4 DEF Sighted, b
  <2>. HIDE DEF d
  <2>2. d \in Candidate
    BY <1>1, <1>2, <2>1, ZenonT(60) DEF Settled, Candidate
  <2>3. /\ d.config = r
        /\ d.missingPolls = 0
        /\ d.pendingReplacementKey = NoKey
        /\ d.pendingRounds = 0
    BY <1>2, <2>1 DEF Settled, Candidate
  <2>4. PendingRounds(c, r) >= 2 =>
          c.pendingRevision = r /\ c.pendingRounds = 1
    BY <1>3 DEF PendingRounds
  <2>. QED
    BY <1>4, <2>2, <2>3, <2>4 DEF d
<1>5. CASE ~(c.config = r \/ copies >= 2 \/ PendingRounds(c, r) >= 2)
  <2>1. PendingRounds(b, r) = 1
    BY <1>2, <1>3, <1>5 DEF PendingRounds
  <2>2. d = [b EXCEPT !.pendingRevision = r, !.pendingRounds = 1]
    BY <1>5, <2>1 DEF Sighted, Awaiting, b
  <2>. HIDE DEF d
  <2>3. d \in Candidate
    BY <1>1, <1>2, <2>2, ZenonT(60) DEF Candidate
  <2>4. /\ d.config = c.config
        /\ d.missingPolls = 0
        /\ d.pendingReplacementKey = NoKey
        /\ d.pendingRevision = r
    BY <1>2, <2>2 DEF Candidate
  <2>. QED
    BY <2>3, <2>4 DEF d
<1>. QED
  BY <1>4, <1>5

(* An endpoint that is not reported goes, with the cause, or waits.        *)
LEMMA MissedCandidate ==
  ASSUME NEW c \in Candidate, NEW key \in Keys \cup {NoKey}
  PROVE  LET d == Missed(c, key)
         IN \/ /\ d = Absent
               /\ \/ c.missingPolls + 1 >= DetachAfterPolls
                  \/ key # NoKey /\ c.pendingReplacementKey = key
            \/ /\ d \in Candidate
               /\ d.config = c.config
               /\ d.missingPolls = c.missingPolls + 1
               /\ d.missingPolls < DetachAfterPolls
               /\ d.pendingReplacementKey = key
               /\ d.pendingRevision = c.pendingRevision
               /\ d.pendingRounds = c.pendingRounds
PROOF
<1>. DEFINE d == Missed(c, key)
            rounds == ReplacementRounds(c, key)
<1>1. /\ rounds \in 0..2
      /\ rounds >= 2 => key # NoKey /\ c.pendingReplacementKey = key
  BY DEF ReplacementRounds, Candidate
<1>. HIDE DEF rounds
<1>2. CASE rounds >= 2 \/ Expired(c)
  <2>1. d = Absent
    BY <1>2 DEF Missed, rounds
  <2>. QED
    BY <1>1, <1>2, <2>1 DEF Expired
<1>3. CASE ~(rounds >= 2 \/ Expired(c))
  <2>1. d = [c EXCEPT !.pendingReplacementKey = key,
                      !.replacementRounds = rounds,
                      !.missingPolls = @ + 1]
    BY <1>3 DEF Missed, rounds
  <2>2. DetachAfterPolls \in Nat \ {0} /\ c.missingPolls \in Nat
    BY EndpointPoolAssumption DEF Candidate
  <2>3. /\ c.missingPolls + 1 \in 0..(DetachAfterPolls - 1)
        /\ rounds \in 0..1
    BY <1>1, <1>3, <2>2 DEF Expired
  <2>. HIDE DEF d
  <2>4. d \in Candidate
    BY <2>1, <2>3 DEF Candidate
  <2>. QED
    BY <2>1, <2>2, <2>3, <2>4 DEF Candidate, d
<1>. QED
  BY <1>2, <1>3

-----------------------------------------------------------------------------
(* What a poll makes of one key.                                           *)

LEMMA Reporting ==
  ASSUME IInv, NEW round \in Rounds, Observe(round),
         NEW k \in Reported(round)
  PROVE  /\ pool'[k] \in Candidate /\ Present(k)'
         /\ pool'[k].missingPolls = 0 /\ unseen'[k] = 0
         /\ pool'[k].pendingReplacementKey = NoKey
         /\ pool'[k].pendingRounds = 1 =>
              pool'[k].pendingRevision = lastRev'[k]
         /\ lastRev'[k] \in Revs
         /\ Present(k) /\ pool'[k].config # pool[k].config =>
              /\ lastRev'[k] = pool'[k].config
              /\ k \in twice' \/ lastRev[k] = lastRev'[k]
PROOF
<1>1. k \in Keys
  BY DEF Reported
<1>2. PICK observed \in [Reported(round) -> Revs] :
        /\ pool' = [m \in Keys |->
             IF m \notin Reported(round)
             THEN IF Present(m) THEN Missed(pool[m], ReplacementKey(round, m))
                                ELSE Absent
             ELSE IF Present(m)
                  THEN Sighted(pool[m], observed[m],
                               round.count[<<m, observed[m]>>])
                  ELSE NewCandidate(observed[m])]
        /\ lastRev' = [m \in Keys |->
             IF m \in Reported(round) THEN observed[m] ELSE lastRev[m]]
        /\ twice' = {m \in Reported(round) :
                       round.count[<<m, observed[m]>>] >= 2}
        /\ unseen' = [m \in Keys |->
             IF m \in Reported(round) THEN 0
             ELSE Least(unseen[m] + 1, DetachAfterPolls)]
  BY DEF Observe
<1>. DEFINE r == observed[k]
            copies == round.count[<<k, r>>]
<1>3. /\ r \in Revs
      /\ lastRev'[k] = r
      /\ unseen'[k] = 0
      /\ k \in twice' <=> copies >= 2
      /\ pool'[k] = IF Present(k) THEN Sighted(pool[k], r, copies)
                                  ELSE NewCandidate(r)
  BY <1>1, <1>2
<1>. HIDE DEF r, copies
<1>4. CASE Present(k)
  <2>1. pool[k] \in Candidate
    BY <1>1, <1>4 DEF IInv, TypeOK, Present
  <2>2. /\ pool'[k] \in Candidate
        /\ pool'[k].missingPolls = 0
        /\ pool'[k].pendingReplacementKey = NoKey
        /\ pool'[k].pendingRounds = 1 => pool'[k].pendingRevision = r
        /\ pool'[k].config # pool[k].config =>
             /\ pool'[k].config = r
             /\ \/ copies >= 2
                \/ pool[k].pendingRevision = r /\ pool[k].pendingRounds = 1
    BY <1>3, <1>4, <2>1, SightedCandidate
  <2>3. pool[k].pendingRounds = 1 => pool[k].pendingRevision = lastRev[k]
    BY <1>1, <1>4 DEF IInv, PendingIsRecent
  <2>. QED
    BY <1>3, <2>2, <2>3, AbsentIsNone DEF Present
<1>5. CASE ~Present(k)
  <2>1. pool'[k] = NewCandidate(r) /\ pool'[k] \in Candidate
    BY <1>3, <1>5, AbsentIsNone
  <2>2. /\ NewCandidate(r).missingPolls = 0
        /\ NewCandidate(r).pendingReplacementKey = NoKey
        /\ NewCandidate(r).pendingRounds = 0
    BY DEF NewCandidate, Absent
  <2>. QED
    BY <1>3, <1>5, <2>1, <2>2, AbsentIsNone DEF Present
<1>. QED
  BY <1>4, <1>5

LEMMA Missing ==
  ASSUME IInv, NEW round \in Rounds, Observe(round),
         NEW k \in Keys \ Reported(round)
  PROVE  /\ lastRev'[k] = lastRev[k]
         /\ successors'[k] = SuccessorsIn(round, k)
         /\ unseen[k] \in 0..DetachAfterPolls
         /\ unseen'[k] \in 1..DetachAfterPolls
         /\ unseen[k] < DetachAfterPolls => unseen'[k] = unseen[k] + 1
         /\ unseen[k] = DetachAfterPolls => unseen'[k] = DetachAfterPolls
         /\ ~Present(k) => pool'[k] = Absent
         /\ Present(k) =>
              \/ /\ pool'[k] = Absent
                 /\ \/ unseen'[k] = DetachAfterPolls
                    \/ \E j \in Reported(round) :
                         /\ ServerOf[j] = ServerOf[k]
                         /\ j \in successors[k] \cap successors'[k]
              \/ /\ pool'[k] \in Candidate
                 /\ pool'[k].config = pool[k].config
                 /\ pool'[k].missingPolls = unseen'[k]
                 /\ unseen'[k] < DetachAfterPolls
                 /\ pool'[k].pendingReplacementKey \in
                      successors'[k] \cup {NoKey}
                 /\ pool'[k].pendingRevision = pool[k].pendingRevision
                 /\ pool'[k].pendingRounds = pool[k].pendingRounds
PROOF
<1>. DEFINE key == ReplacementKey(round, k)
<1>1. /\ pool'[k] = IF Present(k) THEN Missed(pool[k], key) ELSE Absent
      /\ lastRev'[k] = lastRev[k]
      /\ unseen'[k] = Least(unseen[k] + 1, DetachAfterPolls)
      /\ successors'[k] = SuccessorsIn(round, k)
  BY DEF Observe
<1>2. /\ key \in Keys \cup {NoKey}
      /\ key # NoKey =>
           /\ key \in Reported(round)
           /\ key \in SuccessorsIn(round, k)
           /\ ServerOf[key] = ServerOf[k]
  BY ReplacementIsReported
<1>. HIDE DEF key
<1>3. DetachAfterPolls \in Nat \ {0} /\ unseen[k] \in 0..DetachAfterPolls
  BY EndpointPoolAssumption DEF IInv, TypeOK
<1>4. /\ unseen'[k] \in 1..DetachAfterPolls
      /\ unseen[k] < DetachAfterPolls => unseen'[k] = unseen[k] + 1
      /\ unseen[k] = DetachAfterPolls => unseen'[k] = DetachAfterPolls
  BY <1>1, <1>3 DEF Least
<1>5. ASSUME Present(k)
      PROVE  \/ /\ pool'[k] = Absent
                /\ \/ unseen'[k] = DetachAfterPolls
                   \/ \E j \in Reported(round) :
                        /\ ServerOf[j] = ServerOf[k]
                        /\ j \in successors[k] \cap successors'[k]
             \/ /\ pool'[k] \in Candidate
                /\ pool'[k].config = pool[k].config
                /\ pool'[k].missingPolls = unseen'[k]
                /\ unseen'[k] < DetachAfterPolls
                /\ pool'[k].pendingReplacementKey \in
                     successors'[k] \cup {NoKey}
                /\ pool'[k].pendingRevision = pool[k].pendingRevision
                /\ pool'[k].pendingRounds = pool[k].pendingRounds
  <2>1. pool[k] \in Candidate /\ pool'[k] = Missed(pool[k], key)
    BY <1>1, <1>5 DEF IInv, TypeOK, Present
  <2>2. unseen[k] = pool[k].missingPolls /\ unseen[k] < DetachAfterPolls
    BY <1>5 DEF IInv, PoolIsRecent
  <2>3. unseen'[k] = unseen[k] + 1
    BY <1>4, <2>2
  <2>4. pool[k].pendingReplacementKey # NoKey =>
          pool[k].pendingReplacementKey \in successors[k]
    BY <1>5 DEF IInv, PendingIsRecent
  <2>5. \/ /\ pool'[k] = Absent
           /\ \/ pool[k].missingPolls + 1 >= DetachAfterPolls
              \/ key # NoKey /\ pool[k].pendingReplacementKey = key
        \/ /\ pool'[k] \in Candidate
           /\ pool'[k].config = pool[k].config
           /\ pool'[k].missingPolls = pool[k].missingPolls + 1
           /\ pool'[k].missingPolls < DetachAfterPolls
           /\ pool'[k].pendingReplacementKey = key
           /\ pool'[k].pendingRevision = pool[k].pendingRevision
           /\ pool'[k].pendingRounds = pool[k].pendingRounds
    BY <1>2, <2>1, MissedCandidate
  <2>6. CASE pool[k].missingPolls + 1 >= DetachAfterPolls
    BY <1>3, <2>2, <2>3, <2>5, <2>6, <1>1, <1>2
  <2>7. CASE ~(pool[k].missingPolls + 1 >= DetachAfterPolls)
    BY <1>1, <1>2, <2>2, <2>3, <2>4, <2>5, <2>7
  <2>. QED
    BY <2>6, <2>7
<1>. QED
  BY <1>1, <1>3, <1>4, <1>5

LEMMA MissingOnce ==
  ASSUME IInv, NEW round \in Rounds, Observe(round),
         NEW k \in Keys \ Reported(round), unseen[k] < DetachAfterPolls
  PROVE  unseen'[k] = unseen[k] + 1
BY Missing

-----------------------------------------------------------------------------
LEMMA InitIInv == Init => IInv
PROOF
<1>. SUFFICES ASSUME Init
              PROVE  IInv
  OBVIOUS
<1>1. \A k \in Keys : pool[k] \in {Absent} \cup {NewCandidate(r) : r \in Revs}
  BY DEF Init
<1>2. ASSUME NEW k \in Keys
      PROVE  /\ pool[k] \in Candidate \cup {Absent}
             /\ pool[k].config \in Revs \cup {NoRev}
             /\ pool[k].pendingRounds = 0
             /\ pool[k].pendingReplacementKey = NoKey
             /\ pool[k].missingPolls = 0
  <2>1. CASE pool[k] = Absent
    BY <2>1 DEF Absent
  <2>2. ASSUME NEW r \in Revs, pool[k] = NewCandidate(r)
        PROVE  /\ pool[k] \in Candidate
               /\ pool[k].config \in Revs
               /\ pool[k].pendingRounds = 0
               /\ pool[k].pendingReplacementKey = NoKey
               /\ pool[k].missingPolls = 0
    BY <2>2, AbsentIsNone DEF NewCandidate, Absent
  <2>. QED
    BY <1>1, <2>1, <2>2
<1>3. DetachAfterPolls \in Nat \ {0}
  BY EndpointPoolAssumption
<1>4. TypeOK
  <2>1. pool \in [Keys -> Candidate \cup {Absent}]
    BY <1>2 DEF Init
  <2>2. lastRev \in [Keys -> Revs \cup {NoRev}]
    BY <1>2 DEF Init
  <2>3. unseen \in [Keys -> 0..DetachAfterPolls]
    BY <1>3 DEF Init
  <2>. QED
    BY <2>1, <2>2, <2>3 DEF Init, TypeOK
<1>5. PendingIsRecent
  BY <1>2 DEF PendingIsRecent
<1>6. PoolIsRecent
  BY <1>2, <1>3 DEF PoolIsRecent, Init
<1>. QED
  BY <1>4, <1>5, <1>6 DEF IInv

LEMMA ObserveIInv ==
  ASSUME IInv, NEW round \in Rounds, Observe(round)
  PROVE  IInv'
PROOF
<1>1. Reported(round) \subseteq Keys
  BY DEF Reported
<1>2. DetachAfterPolls \in Nat \ {0}
  BY EndpointPoolAssumption
<1>3. TypeOK'
  <2>1. ASSUME NEW k \in Keys
        PROVE  /\ pool'[k] \in Candidate \cup {Absent}
               /\ lastRev'[k] \in Revs \cup {NoRev}
               /\ unseen'[k] \in 0..DetachAfterPolls
    <3>1. CASE k \in Reported(round)
      BY <1>2, <3>1, Reporting
    <3>2. CASE k \notin Reported(round)
      BY <1>2, <3>2, Missing DEF IInv, TypeOK
    <3>. QED
      BY <3>1, <3>2
  <2>2. /\ DOMAIN pool' = Keys /\ pool' = [k \in Keys |-> pool'[k]]
        /\ DOMAIN lastRev' = Keys /\ lastRev' = [k \in Keys |-> lastRev'[k]]
        /\ DOMAIN unseen' = Keys /\ unseen' = [k \in Keys |-> unseen'[k]]
    BY DEF Observe
  <2>3. /\ pool' \in [Keys -> Candidate \cup {Absent}]
        /\ lastRev' \in [Keys -> Revs \cup {NoRev}]
        /\ unseen' \in [Keys -> 0..DetachAfterPolls]
    BY <2>1, <2>2
  <2>4. twice' \subseteq Keys
    BY <1>1 DEF Observe
  <2>5. successors' \in [Keys -> SUBSET Keys]
    <3>1. \A k \in Keys : SuccessorsIn(round, k) \in SUBSET Keys
      BY <1>1 DEF SuccessorsIn
    <3>. QED
      BY <3>1 DEF Observe
  <2>6. replacement' \in [Keys -> Keys \cup {NoKey}]
    <3>1. ASSUME NEW k \in Keys
          PROVE  ReplacementIn(round, k) \in Keys \cup {NoKey}
      <4>1. SuccessorsIn(round, k) \subseteq Keys
        BY <1>1 DEF SuccessorsIn
      <4>2. Cardinality(SuccessorsIn(round, k)) = 1 =>
              SuccessorsIn(round, k) # {}
        BY FS_EmptySet
      <4>. QED
        BY <4>1, <4>2 DEF ReplacementIn
    <3>. QED
      BY <3>1 DEF Observe
  <2>. QED
    BY <2>3, <2>4, <2>5, <2>6 DEF TypeOK
<1>4. PendingIsRecent'
  <2>. SUFFICES ASSUME NEW k \in Keys, Present(k)'
                PROVE  /\ pool'[k].pendingRounds = 1 =>
                            pool'[k].pendingRevision = lastRev'[k]
                       /\ pool'[k].pendingReplacementKey # NoKey =>
                            pool'[k].pendingReplacementKey \in successors'[k]
    BY DEF PendingIsRecent
  <2>1. CASE k \in Reported(round)
    BY <2>1, Reporting
  <2>2. CASE k \notin Reported(round)
    <3>1. Present(k) /\ pool'[k] # Absent
      BY <2>2, Missing DEF Present
    <3>2. pool[k].pendingRounds = 1 => pool[k].pendingRevision = lastRev[k]
      BY <3>1 DEF IInv, PendingIsRecent
    <3>. QED
      BY <2>2, <3>1, <3>2, Missing
  <2>. QED
    BY <2>1, <2>2
<1>5. PoolIsRecent'
  <2>. SUFFICES ASSUME NEW k \in Keys
                PROVE  IF Present(k)'
                       THEN /\ unseen'[k] = pool'[k].missingPolls
                            /\ unseen'[k] < DetachAfterPolls
                       ELSE \/ unseen'[k] = DetachAfterPolls
                            \/ \E j \in Keys : /\ ServerOf[j] = ServerOf[k]
                                               /\ Present(j)'
                                               /\ unseen'[j] < unseen'[k]
    BY DEF PoolIsRecent
  <2>1. CASE k \in Reported(round)
    BY <1>2, <2>1, Reporting
  <2>2. CASE k \notin Reported(round) /\ Present(k)'
    BY <2>2, Missing DEF Present
  <2>3. CASE k \notin Reported(round) /\ ~Present(k)'
    <3>1. unseen'[k] \in 1..DetachAfterPolls
      BY <2>3, Missing
    <3>2. ASSUME NEW j \in Reported(round), ServerOf[j] = ServerOf[k]
          PROVE  \E i \in Keys : /\ ServerOf[i] = ServerOf[k]
                                 /\ Present(i)'
                                 /\ unseen'[i] < unseen'[k]
      <4>1. j \in Keys /\ Present(j)' /\ unseen'[j] = 0
        BY <1>1, Reporting
      <4>2. unseen'[j] < unseen'[k]
        BY <3>1, <4>1
      <4>. QED
        BY <3>2, <4>1, <4>2
    <3>3. CASE Present(k)
      BY <2>3, <3>2, <3>3, Missing, AbsentIsNone DEF Present
    <3>4. CASE ~Present(k)
      <4>1. CASE unseen[k] = DetachAfterPolls
        BY <2>3, <4>1, Missing
      <4>2. CASE unseen[k] # DetachAfterPolls
        <5>1. PICK j \in Keys : /\ ServerOf[j] = ServerOf[k]
                                /\ Present(j)
                                /\ unseen[j] < unseen[k]
          BY <3>4, <4>2 DEF IInv, PoolIsRecent
        <5>2. /\ unseen[k] \in 0..DetachAfterPolls
              /\ unseen[k] < DetachAfterPolls
              /\ unseen'[k] = unseen[k] + 1
          <6>1. unseen[k] \in 0..DetachAfterPolls
            BY DEF IInv, TypeOK
          <6>2. unseen[k] < DetachAfterPolls
            BY <1>2, <4>2, <6>1
          <6>. QED
            BY <2>3, <6>1, <6>2, MissingOnce
        <5>3. CASE j \in Reported(round)
          BY <2>3, <3>2, <5>1, <5>3
        <5>4. CASE j \notin Reported(round)
          <6>1. unseen[j] \in 0..DetachAfterPolls /\ unseen'[j] = unseen[j] + 1
            <7>1. unseen[j] \in 0..DetachAfterPolls
              BY DEF IInv, TypeOK
            <7>2. unseen[j] < DetachAfterPolls
              BY <1>2, <5>1, <5>2, <7>1
            <7>. QED
              BY <5>4, <7>1, <7>2, MissingOnce
          <6>2. unseen'[j] < unseen'[k] /\ unseen'[j] # DetachAfterPolls
            BY <1>2, <5>1, <5>2, <6>1
          <6>3. CASE Present(j)'
            BY <2>3, <5>1, <6>2, <6>3
          <6>4. CASE ~Present(j)'
            <7>1. pool'[j] = Absent
              BY <6>4 DEF Present
            <7>2. PICK i \in Reported(round) : ServerOf[i] = ServerOf[j]
              BY <5>1, <5>4, <6>2, <7>1, Missing, AbsentIsNone
            <7>. QED
              BY <2>3, <3>2, <5>1, <7>2
          <6>. QED
            BY <6>3, <6>4
        <5>. QED
          BY <5>3, <5>4
      <4>. QED
        BY <4>1, <4>2
    <3>. QED
      BY <3>3, <3>4
  <2>. QED
    BY <2>1, <2>2, <2>3
<1>. QED
  BY <1>3, <1>4, <1>5 DEF IInv

LEMMA NextIInv == IInv /\ [Next]_vars => IInv'
PROOF
<1>1. IInv /\ Next => IInv'
  BY ObserveIInv DEF Next
<1>2. IInv /\ UNCHANGED vars => IInv'
  BY DEF vars, seen, IInv, TypeOK, PendingIsRecent, PoolIsRecent, Present
<1>. QED
  BY <1>1, <1>2

LEMMA Invariant == Spec => []IInv
BY InitIInv, NextIInv, PTL DEF Spec

-----------------------------------------------------------------------------
(* Counters stay below the polls that end them: a change is never pending  *)
(* for two polls, an endpoint never missing for DetachAfterPolls.          *)
THEOREM EndpointPoolTypeOK == Spec => []TypeOK
PROOF
<1>1. IInv => TypeOK
  BY DEF IInv
<1>. QED
  BY <1>1, Invariant, PTL

(* The pool is what the last DetachAfterPolls polls reported, less the     *)
(* ports whose place another port of the server has taken, however the     *)
(* panel mixes its answers.                                                *)
THEOREM PoolStaysRecent == Spec => []PoolIsRecent
PROOF
<1>1. IInv => PoolIsRecent
  BY DEF IInv
<1>. QED
  BY <1>1, Invariant, PTL

(* The configuration of an endpoint changes only to one that was counted   *)
(* twice in a poll or made out in two polls that reported the endpoint.    *)
THEOREM ChangesAreConfirmed == Spec => ChangeConfirmed
PROOF
<1>. DEFINE Confirmed ==
       \A k \in Keys :
         Present(k) /\ Present(k)' /\ pool'[k].config # pool[k].config
           => /\ lastRev'[k] = pool'[k].config
              /\ k \in twice' \/ lastRev[k] = lastRev'[k]
<1>1. IInv /\ [Next]_vars => [Confirmed]_vars
  <2>. SUFFICES ASSUME IInv, NEW round \in Rounds, Observe(round),
                       NEW k \in Keys, Present(k), Present(k)',
                       pool'[k].config # pool[k].config
                PROVE  /\ lastRev'[k] = pool'[k].config
                       /\ k \in twice' \/ lastRev[k] = lastRev'[k]
    BY DEF Next
  <2>1. k \in Reported(round)
    BY Missing DEF Present
  <2>. QED
    BY <2>1, Reporting
<1>. QED
  BY <1>1, Invariant, PTL DEF Spec, ChangeConfirmed

(* An endpoint is detached after DetachAfterPolls polls without it, or for *)
(* a port of its server that two polls in a row reported in its place.     *)
THEOREM DetachesWithCause == Spec => DetachedWithCause
PROOF
<1>. DEFINE Caused ==
       \A k \in Keys :
         Present(k) /\ ~Present(k)'
           => \/ unseen'[k] = DetachAfterPolls
              \/ successors[k] \cap successors'[k] # {}
<1>1. IInv /\ [Next]_vars => [Caused]_vars
  <2>. SUFFICES ASSUME IInv, NEW round \in Rounds, Observe(round),
                       NEW k \in Keys, Present(k), ~Present(k)'
                PROVE  \/ unseen'[k] = DetachAfterPolls
                       \/ successors[k] \cap successors'[k] # {}
    BY DEF Next
  <2>1. k \notin Reported(round)
    BY Reporting
  <2>2. pool'[k] \notin Candidate
    BY AbsentIsNone DEF Present
  <2>. QED
    BY <2>1, <2>2, Missing
<1>. QED
  BY <1>1, Invariant, PTL DEF Spec, DetachedWithCause

=============================================================================
