------------------------- MODULE SubscriptionUpdate -------------------------
(***************************************************************************)
(* A refresh from the pooled subscription to the running list              *)
(* (subscription_update.go, updateConfiguration in main.go,                *)
(* checker/proxy_update.go, ApplyProxyUpdate): when a new list is let      *)
(* through, how its bindings are paired with those of the old one, and     *)
(* where the stored results go.                                            *)
(*                                                                         *)
(* A binding is a host (the display identity of an entry), a server with   *)
(* its port, and a revision of the connection. The pool returns any list   *)
(* with one binding for each host and server: how it comes to one is the   *)
(* matter of EndpointPool. A result is the revision it was measured on.    *)
(*                                                                         *)
(* Abstracted: metrics labels; the hashes; repair histories; an entry's    *)
(* own logical ID is its endpoint, whether it was seeded at start or not.  *)
(***************************************************************************)
EXTENDS Naturals, Sequences, FiniteSets

CONSTANTS
  Order,      \* all bindings [host, server, rev], by host, then revision
  Identity,   \* revision -> connection without its secrets
  MassSize,   \* changed bindings that make a mass revision (100)
  NoResult

VARIABLES
  pool,      \* what the pool returned last
  pending,   \* the mass revision that waits, and how often it came
  next,      \* the list let through, while its refresh is under way
  stage,     \* what the refresh does next
  list,      \* updater.configs and pc.proxies: binding -> its IDs
  running,   \* bindings of the running Xray; none: it is stopped
  results,   \* pc.results: metric key -> revision measured, or NoResult
  lastDiff,  \* auxiliary: the list of the last poll with a difference
  renamed    \* auxiliary: endpoints renamed into and not measured since

vars == <<pool, pending, next, stage, list, running, results, lastDiff,
          renamed>>

Bindings == {Order[i] : i \in DOMAIN Order}
Rank(b) == CHOOSE i \in DOMAIN Order : Order[i] = b
Endpoint(b) == <<b.host, b.server>>
Endpoints == {Endpoint(b) : b \in Bindings}
Lists == {s \in SUBSET Bindings :
            /\ s # {}
            /\ \A b, c \in s : Endpoint(b) = Endpoint(c) => b = c}

(* What validation may leave of a list: an empty one builds, too.          *)
Installed == Lists \cup {{}}

(* AssignStableIDs: bindings with the same identity are told apart by      *)
(* their place among them.                                                 *)
MetricKey(b, s) ==
  <<Endpoint(b), Cardinality({c \in s : /\ Identity[c.rev] = Identity[b.rev]
                                        /\ Rank(c) < Rank(b)})>>

Keys == UNION {{MetricKey(b, s) : b \in s} : s \in Lists}
NoPending == [set |-> {}, count |-> 0]

ASSUME SubscriptionUpdateAssumption ==
  /\ Order \in Seq(Bindings) /\ Order # <<>>
  /\ \A b, c \in Bindings : b.rev = c.rev => b.server = c.server
  /\ \A b \in Bindings : b.rev \in DOMAIN Identity
  /\ NoResult \notin {b.rev : b \in Bindings}
  /\ MassSize \in Nat \ {0}

TypeOK ==
  /\ pool \in Installed
  /\ pending \in [set : Lists \cup {{}}, count : 0..2]
  /\ next \in Lists \cup {{}}
  /\ stage \in {"idle", "reload", "prune"}
  /\ DOMAIN list \in Installed
  /\ \A b \in DOMAIN list : /\ list[b].logical \in Endpoints
                            /\ list[b].key \in Keys
                            /\ list[b].key[1] = Endpoint(b)
  /\ running \in Installed
  /\ results \in [Keys -> {b.rev : b \in Bindings} \cup {NoResult}]
  /\ lastDiff \in Lists \cup {{}}
  /\ renamed \subseteq Endpoints

-----------------------------------------------------------------------------
(* Which binding of the new list carries on which of the old.              *)

First(s) == CHOOSE b \in s : \A c \in s : Rank(b) <= Rank(c)
Final(s) == CHOOSE b \in s : \A c \in s : Rank(b) >= Rank(c)

Revision == [b \in Bindings |-> b.rev]
Host == [b \in Bindings |-> b.host]

Left(old, taken) == old \ {taken[n] : n \in DOMAIN taken}

(* n takes over one of those with its key, of its own host if there is one.*)
TakeOver(old, taken, n, key) ==
  LET candidates == {o \in Left(old, taken) : key[o] = key[n]}
      sameHost == {o \in candidates : o.host = n.host}
  IN IF n \in DOMAIN taken \/ candidates = {} THEN taken
     ELSE [m \in DOMAIN taken \cup {n} |->
             IF m # n THEN taken[m]
             ELSE First(IF sameHost # {} THEN sameHost ELSE candidates)]

(* The new bindings do so one after the other.                             *)
Match(old, new, taken, key) ==
  LET upTo[i \in 0..Len(Order)] ==
        IF i = 0 THEN taken
        ELSE IF Order[i] \in new
             THEN TakeOver(old, upTo[i - 1], Order[i], key)
             ELSE upTo[i - 1]
  IN upTo[Len(Order)]

(* PlanProxyUpdate: first by connection, which covers renames, then by     *)
(* display identity, which covers replacements.                            *)
Plans == [lists \in Installed \X Installed |->
  LET old == lists[1]
      new == lists[2]
  IN Match(old, new, Match(old, new, <<>>, Revision), Host)]

PlanProxyUpdate(old, new) == Plans[<<old, new>>]

Changed(plan) == {n \in DOMAIN plan : plan[n].rev # n.rev}
Renamed(plan) == {n \in DOMAIN plan : /\ plan[n].rev = n.rev
                                      /\ plan[n].host # n.host}

(* Mutant: a binding that takes over keeps the place of its result.        *)
PreparedKeepingKey(plan, valid, whole) ==
  [b \in valid |->
     IF b \in DOMAIN plan THEN list[plan[b]]
     ELSE [logical |-> Endpoint(b), key |-> MetricKey(b, whole)]]

(* The new list, prepared as whole before validation left out some of it.  *)
Prepared(plan, valid, whole) ==
  [b \in valid |->
     [logical |-> IF b \in DOMAIN plan THEN list[plan[b]].logical
                  ELSE Endpoint(b),
      key |-> MetricKey(b, whole)]]

-----------------------------------------------------------------------------
(* A poll.                                                                 *)

IsMass(old, new) ==
  LET plan == PlanProxyUpdate(old, new)
  IN /\ Cardinality(Changed(plan)) >= MassSize
     /\ DOMAIN plan = new
     /\ Left(old, plan) = {}

(* The mass revision that waits after this difference.                     *)
(* Mutant: an ordinary difference does not end the wait.                   *)
ConfirmedKeeping(new) ==
  IF ~IsMass(DOMAIN list, new) THEN pending
  ELSE IF pending.set = new THEN [set |-> new, count |-> 2]
  ELSE [set |-> new, count |-> 1]

(* Mutant: compared with the list that runs.                               *)
ConfirmedByRunning(new) ==
  IF ~IsMass(DOMAIN list, new) THEN NoPending
  ELSE IF pending.set = DOMAIN list THEN [set |-> new, count |-> 2]
  ELSE [set |-> new, count |-> 1]

Confirmed(new) ==
  IF ~IsMass(DOMAIN list, new) THEN NoPending
  ELSE IF pending.set = new THEN [set |-> new, count |-> 2]
  ELSE [set |-> new, count |-> 1]

Deferred(new) == IsMass(DOMAIN list, new) /\ Confirmed(new).count < 2

Observe(new) ==
  /\ stage = "idle"
  /\ pool' = new
  /\ IF new = DOMAIN list
     THEN UNCHANGED <<pending, next, stage, lastDiff>>
     ELSE /\ pending' = Confirmed(new)
          /\ lastDiff' = new
          /\ IF Deferred(new) THEN UNCHANGED <<next, stage>>
             ELSE next' = new /\ stage' = "reload"
  /\ UNCHANGED <<list, running, results, renamed>>

-----------------------------------------------------------------------------
(* updateConfiguration.                                                    *)

Abandon ==
  /\ next' = {}
  /\ stage' = "idle"
  /\ UNCHANGED <<pool, pending, list, results, lastDiff, renamed>>

(* The configuration could not be generated or written.                    *)
RejectConfig == stage = "reload" /\ Abandon /\ UNCHANGED running

(* Xray was stopped, with or without an error, and did not start.          *)
FailStart == stage = "reload" /\ Abandon /\ running' = {}

(* ApplyProxyUpdate: results of changed bindings are dropped, those of     *)
(* renamed ones read first, then moved one after the other.                *)
Loaded(plan, prepared, n) ==
  LET same == {m \in Renamed(plan) :
                 /\ prepared[m].logical = prepared[n].logical
                 /\ results[list[plan[m]].key] # NoResult}
  IN IF same = {} THEN NoResult ELSE results[list[plan[Final(same)]].key]

(* Mutant: only the old place of a changed binding is cleared.             *)
ClearedOldOnly(plan, prepared) ==
  [k \in Keys |->
     IF \E n \in Changed(plan) : k = list[plan[n]].key /\ k # prepared[n].key
     THEN NoResult ELSE results[k]]

Cleared(plan, prepared) ==
  [k \in Keys |->
     IF \E n \in Changed(plan) : k \in {list[plan[n]].key, prepared[n].key}
     THEN NoResult ELSE results[k]]

Applied(plan, prepared) ==
  LET cleared == Cleared(plan, prepared)
      movers(k) == {n \in Renamed(plan) :
                      /\ Loaded(plan, prepared, n) # NoResult
                      /\ k \in {list[plan[n]].key, prepared[n].key}}
  IN [k \in Keys |->
        IF movers(k) = {} THEN cleared[k]
        ELSE IF k = list[plan[Final(movers(k))]].key THEN NoResult
        ELSE Loaded(plan, prepared, Final(movers(k)))]

(* Xray is replaced and the update applied, all with checks paused. Xray   *)
(* may have rejected any of the bindings, even all: the rest is taken.     *)
Reload(valid) ==
  \E plan \in {PlanProxyUpdate(DOMAIN list, valid)} :
  \E prepared \in {Prepared(plan, valid, next)} :
     /\ stage = "reload"
     /\ running' = valid
     /\ list' = prepared
     /\ results' = Applied(plan, prepared)
     /\ renamed' = (renamed \ {Endpoint(b) : b \in Changed(plan)})
                   \cup {Endpoint(b) : b \in Renamed(plan)}
     /\ stage' = "prune"
     /\ next' = {}
     /\ UNCHANGED <<pool, pending, lastDiff>>

ReloadAll == next # {} /\ Reload(next)
ReloadPart == \E valid \in SUBSET next : valid # next /\ Reload(valid)

(* PruneStaleResults, after the updated bindings were checked.             *)
Prune ==
  /\ stage = "prune"
  /\ results' = [k \in Keys |->
       IF \E b \in DOMAIN list : list[b].key = k THEN results[k]
       ELSE NoResult]
  /\ stage' = "idle"
  /\ UNCHANGED <<pool, pending, next, list, running, lastDiff, renamed>>

(* A check of a current binding; without Xray it fails, and is stored.     *)
Measure(b) ==
  /\ results' = [results EXCEPT ![list[b].key] = b.rev]
  /\ renamed' = renamed \ {Endpoint(b)}
  /\ UNCHANGED <<pool, pending, next, stage, list, running, lastDiff>>

(* The process starts with what validation leaves of the list it reads,    *)
(* and with those stored results that are of a current connection.         *)
Init ==
  \E whole \in Lists : \E valid \in SUBSET whole : \E restored \in SUBSET valid :
    LET stored(k) == {b \in restored : MetricKey(b, whole) = k}
    IN /\ pool = valid
       /\ pending = NoPending
       /\ next = {}
       /\ stage = "idle"
       /\ list = [b \in valid |-> [logical |-> Endpoint(b),
                                   key |-> MetricKey(b, whole)]]
       /\ running = valid
       /\ results = [k \in Keys |-> IF stored(k) = {} THEN NoResult
                                    ELSE First(stored(k)).rev]
       /\ lastDiff = {}
       /\ renamed = {}

Next ==
  \/ \E new \in Lists : Observe(new)
  \/ RejectConfig \/ FailStart \/ ReloadAll \/ ReloadPart \/ Prune
  \/ \E b \in DOMAIN list : Measure(b)

Spec == Init /\ [][Next]_vars

(* The scheduler polls also when the subscription stays as it is,          *)
(* refreshes go on, and not every start fails.                             *)
Fairness ==
  /\ WF_vars(Observe(pool))
  /\ WF_vars(RejectConfig \/ FailStart \/ ReloadAll \/ ReloadPart \/ Prune)
  /\ SF_vars(ReloadAll)

FairSpec == Spec /\ Fairness

-----------------------------------------------------------------------------
(* A mass revision is let through only if the poll before it that saw any  *)
(* difference returned the same one ("deferring large subscription diff    *)
(* until the same revision is returned twice").                            *)
MassConfirmed ==
  [][stage' = "reload" /\ stage = "idle" /\ IsMass(DOMAIN list, next')
     => lastDiff = next']_vars

(* What is stored for a current binding was measured on its connection,    *)
(* whatever was edited, moved, dropped, put off or failed to start: only a *)
(* binding that took over another host's entry may show what its host had  *)
(* before, until it is checked.                                            *)
ResultsFollowConnection ==
  \A b \in DOMAIN list :
    \/ results[list[b].key] \in {NoResult, b.rev}
    \/ Endpoint(b) \in renamed

(* A subscription that settles is installed for good, whatever the mass    *)
(* guard put off and however often Xray failed to start.                   *)
Settles == <>[][pool' = pool]_pool => <>[](DOMAIN list = pool)

=============================================================================
