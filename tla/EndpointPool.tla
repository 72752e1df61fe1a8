---------------------------- MODULE EndpointPool ----------------------------
(***************************************************************************)
(* The pool of endpoints of a subscription (checker/endpoint_pool.go).  A  *)
(* panel may answer every read with another member of a host's node pool,  *)
(* so a poll makes several reads and the pool remembers what it has seen:  *)
(* it adds an endpoint at once, believes a changed configuration only when *)
(* that is confirmed, and lets an endpoint go when it was not reported for *)
(* DetachAfterPolls polls or when another port took its place.             *)
(*                                                                         *)
(* A key stands for host, server and port; a revision for everything else  *)
(* GenerateRevisionID hashes.  Names, timestamps and statistics are left   *)
(* out.                                                                    *)
(***************************************************************************)
EXTENDS Integers, FiniteSets, Functions

CONSTANTS
  Keys,              \* endpointPoolKey
  ServerOf,          \* key -> endpointHostServerKey
  Revs,              \* revisions of a connection configuration
  NoKey, NoRev,      \* "": no key, no revision
  DetachAfterPolls,  \* endpointDetachAfterPolls, 30 in the code
  Samples,           \* how many of the reads of a poll may have succeeded
  MaxCopies,         \* how often a read may repeat an entry
  MaxEntries         \* how many entries a read may hold

ASSUME EndpointPoolAssumption ==
  /\ NoKey \notin Keys /\ NoRev \notin Revs
  /\ IsFiniteSet(Keys) /\ IsFiniteSet(Revs)
  /\ DetachAfterPolls \in Nat \ {0}
  /\ Samples \subseteq Nat \ {0}
  /\ MaxCopies \in Nat /\ MaxEntries \in Nat

VARIABLES
  pool,        \* pool.candidates
  lastRev,     \* what a poll last made of the reports of a key
  twice,       \* keys the last poll counted twice or more
  unseen,      \* polls since the key was reported, DetachAfterPolls at most
  successors,  \* keys of its server reported in a poll that did not report it
  replacement  \* the one port that every read of that poll reported instead

seen == <<lastRev, twice, unseen, successors, replacement>>
vars == <<pool, seen>>

-----------------------------------------------------------------------------
(* Polls.                                                                  *)

Entries == Keys \X Revs
Total(f) == FoldFunction(+, 0, f)
Reads == {read \in [Entries -> 0..MaxCopies] : Total(read) <= MaxEntries}

(* What Observe can tell of its reads: how many there were and how often   *)
(* they held an entry; inEvery serves the properties alone.                *)
Summary(reads) ==
  [samples |-> Cardinality(DOMAIN reads),
   count   |-> [e \in Entries |-> Total([i \in DOMAIN reads |-> reads[i][e]])],
   inEvery |-> {k \in Keys : \A i \in DOMAIN reads :
                  \E r \in Revs : reads[i][<<k, r>>] > 0}]

Rounds == UNION {{Summary(reads) : reads \in [1..n -> Reads]} : n \in Samples}

Reported(round) == {k \in Keys : \E r \in Revs : round.count[<<k, r>>] > 0}

(* The revision reported most; of several, the map's order decides.        *)
Observed(round, k) ==
  {r \in Revs : \A q \in Revs : round.count[<<k, q>>] <= round.count[<<k, r>>]}

-----------------------------------------------------------------------------
(* Candidates.                                                             *)

Candidate ==
  [config : Revs, missingPolls : 0..(DetachAfterPolls - 1),
   pendingRevision : Revs \cup {NoRev}, pendingRounds : 0..1,
   pendingReplacementKey : Keys \cup {NoKey}, replacementRounds : 0..1]

Absent ==
  [config |-> NoRev, missingPolls |-> 0, pendingRevision |-> NoRev,
   pendingRounds |-> 0, pendingReplacementKey |-> NoKey,
   replacementRounds |-> 0]

NewCandidate(r) == [Absent EXCEPT !.config = r]

Present(k) == pool[k] # Absent

(* Mutant: the endpoint's return leaves a replacement half confirmed.      *)
BackKeepingReplacement(c) == [c EXCEPT !.missingPolls = 0]

Back(c) ==
  [c EXCEPT !.missingPolls = 0,
            !.pendingReplacementKey = NoKey, !.replacementRounds = 0]

Settled(c, r) ==
  [c EXCEPT !.config = r, !.pendingRevision = NoRev, !.pendingRounds = 0]

PendingRounds(c, r) == IF c.pendingRevision = r THEN c.pendingRounds + 1 ELSE 1

Awaiting(c, r) ==
  [c EXCEPT !.pendingRevision = r, !.pendingRounds = PendingRounds(c, r)]

(* Mutant: a report of the running revision leaves the pending one.        *)
SightedKeepingPending(c, r, copies) ==
  IF c.config = r THEN Back(c)
  ELSE IF copies >= 2 \/ PendingRounds(c, r) >= 2 THEN Settled(Back(c), r)
  ELSE Awaiting(Back(c), r)

(* Mutant: a third poll has to confirm.                                    *)
SightedThrice(c, r, copies) ==
  IF c.config = r \/ copies >= 2 \/ PendingRounds(c, r) >= 3
  THEN Settled(Back(c), r)
  ELSE Awaiting(Back(c), r)

Sighted(c, r, copies) ==
  IF c.config = r \/ copies >= 2 \/ PendingRounds(c, r) >= 2
  THEN Settled(Back(c), r)
  ELSE Awaiting(Back(c), r)

(* The ports of the server of k that were counted once for every read.     *)
Replacements(round, k) ==
  {j \in Keys \ {k} : /\ ServerOf[j] = ServerOf[k]
                      /\ \E r \in Revs : round.count[<<j, r>>] = round.samples}

ReplacementKey(round, k) ==
  IF round.samples >= 2 /\ Cardinality(Replacements(round, k)) = 1
  THEN CHOOSE j \in Replacements(round, k) : TRUE
  ELSE NoKey

ReplacementRounds(c, key) ==
  IF key = NoKey THEN 0
  ELSE IF c.pendingReplacementKey = key THEN c.replacementRounds + 1 ELSE 1

(* Mutant: one poll too few.                                               *)
ExpiredEarly(c) == c.missingPolls + 2 >= DetachAfterPolls

Expired(c) == c.missingPolls + 1 >= DetachAfterPolls

Missed(c, key) ==
  IF ReplacementRounds(c, key) >= 2 \/ Expired(c)
  THEN Absent
  ELSE [c EXCEPT !.pendingReplacementKey = key,
                 !.replacementRounds = ReplacementRounds(c, key),
                 !.missingPolls = @ + 1]

-----------------------------------------------------------------------------
(* What the properties remember of the polls.                              *)

Least(m, n) == IF m <= n THEN m ELSE n

SuccessorsIn(round, k) ==
  IF k \in Reported(round) THEN {}
  ELSE {j \in Reported(round) : ServerOf[j] = ServerOf[k]}

(* README, on the replacement of a port: every sample reports the new port *)
(* and none the old one.                                                   *)
ReplacementIn(round, k) ==
  LET ports == SuccessorsIn(round, k)
  IN IF round.samples >= 2 /\ Cardinality(ports) = 1
          /\ ports \subseteq round.inEvery
     THEN CHOOSE j \in ports : TRUE
     ELSE NoKey

-----------------------------------------------------------------------------
Init ==
  /\ pool \in [Keys -> {Absent} \cup {NewCandidate(r) : r \in Revs}]
  /\ lastRev = [k \in Keys |-> pool[k].config]
  /\ twice = {}
  /\ unseen = [k \in Keys |-> IF Present(k) THEN 0 ELSE DetachAfterPolls]
  /\ successors = [k \in Keys |-> {}]
  /\ replacement = [k \in Keys |-> NoKey]

(* One poll.  A read that failed is not among the reads.                   *)
Observe(round) ==
  \E observed \in [Reported(round) -> Revs] :
    /\ \A k \in Reported(round) : observed[k] \in Observed(round, k)
    /\ pool' = [k \in Keys |->
         IF k \notin Reported(round)
         THEN IF Present(k) THEN Missed(pool[k], ReplacementKey(round, k))
                            ELSE Absent
         ELSE IF Present(k)
              THEN Sighted(pool[k], observed[k],
                           round.count[<<k, observed[k]>>])
              ELSE NewCandidate(observed[k])]
    /\ lastRev' = [k \in Keys |->
         IF k \in Reported(round) THEN observed[k] ELSE lastRev[k]]
    /\ twice' = {k \in Reported(round) : round.count[<<k, observed[k]>>] >= 2}
    /\ unseen' = [k \in Keys |->
         IF k \in Reported(round) THEN 0
         ELSE Least(unseen[k] + 1, DetachAfterPolls)]
    /\ successors' = [k \in Keys |-> SuccessorsIn(round, k)]
    /\ replacement' = [k \in Keys |-> ReplacementIn(round, k)]

Next == \E round \in Rounds : Observe(round)

Spec == Init /\ [][Next]_vars

-----------------------------------------------------------------------------
(* Correctness.                                                            *)

TypeOK ==
  /\ pool \in [Keys -> Candidate \cup {Absent}]
  /\ lastRev \in [Keys -> Revs \cup {NoRev}]
  /\ twice \subseteq Keys
  /\ unseen \in [Keys -> 0..DetachAfterPolls]
  /\ successors \in [Keys -> SUBSET Keys]
  /\ replacement \in [Keys -> Keys \cup {NoKey}]

(* An endpoint goes on being checked with the configuration it has until a *)
(* change is confirmed: counted twice in one poll, or made out in this and *)
(* in the last poll that reported the endpoint at all.                     *)
ChangeConfirmed ==
  [][ \A k \in Keys :
        Present(k) /\ Present(k)' /\ pool'[k].config # pool[k].config
          => /\ lastRev'[k] = pool'[k].config
             /\ k \in twice' \/ lastRev[k] = lastRev'[k] ]_vars

(* A port is given up for another only when two polls in a row reported    *)
(* that other port of the server and not this one: "without confusing a    *)
(* genuinely rotating multi-port pool".                                    *)
DetachedWithCause ==
  [][ \A k \in Keys :
        Present(k) /\ ~Present(k)'
          => \/ unseen'[k] = DetachAfterPolls
             \/ successors[k] \cap successors'[k] # {} ]_vars

(* The pool holds nothing that was not reported for DetachAfterPolls polls *)
(* and, but for replaced ports, everything that was: random sampling alone *)
(* does not make an endpoint come and go.                                  *)
PoolIsRecent ==
  \A k \in Keys :
    IF Present(k)
    THEN unseen[k] = pool[k].missingPolls /\ unseen[k] < DetachAfterPolls
    ELSE \/ unseen[k] = DetachAfterPolls
         \/ \E j \in Keys : /\ ServerOf[j] = ServerOf[k]
                            /\ Present(j)
                            /\ unseen[j] < unseen[k]

(* README, Subscription topology: "If every sample in two consecutive      *)
(* refresh rounds reports the new port and not the old one, the old        *)
(* binding is detached immediately".                                       *)
ReplacedInTwoPolls ==
  [][ \A k \in Keys :
        replacement[k] # NoKey /\ replacement'[k] = replacement[k]
          => ~Present(k)' ]_vars

=============================================================================
