------------------------- MODULE NodeMonitor_proofs -------------------------
(***************************************************************************)
(* Proofs about NodeMonitor: its types, the repair state every writer of   *)
(* it leaves behind, the provenance of stored results, that store and      *)
(* history are a mailbox, that the state is the verdict of the history,    *)
(* when what it counts was measured, and that nothing stored is forgotten. *)
(***************************************************************************)
EXTENDS NodeMonitor, TLAPS

(* The monitor knows every node of the subscription, and a set that is     *)
(* being checked aims at connections the nodes have.                       *)
KnownPresent == \A n \in Present : monitor[n] # NoNode

JobFits(j) ==
  /\ j.pending # {} => j.phase = "checking"
  /\ j.pending \subseteq Named(j.targets)
  /\ j.phase = "checking" => \A n \in Nodes : j.targets[n] \in {Absent, cfg[n]}

JobsCurrent == \A w \in Workers : JobFits(job[w])

HoldersCheck ==
  \A n \in Nodes : holder[n] # NoOne => n \in job[holder[n]].pending

EvidenceHeld ==
  \A n \in Nodes : evidence[n] # NoResult =>
    /\ job["diagnosis"].phase = "checking"
    /\ n \in Named(job["diagnosis"].targets)
    /\ n \notin job["diagnosis"].pending

TypeInv ==
  TypeOK /\ KnownPresent /\ JobsCurrent /\ HoldersCheck /\ EvidenceHeld

(* Results of nodes that left are gone once they are pruned.               *)
PrunedResults ==
  \A n \in Nodes : cfg[n] = Absent /\ refresh # "prune" =>
    results[n] = NoResult

-----------------------------------------------------------------------------
(* The functions on one node's state.                                      *)

(* The delays and states the code assigns.                                 *)
LEMMA Assigned ==
  /\ {0, 45, 60, 120, 300, 600, HealthyWait, UnstableWait} \subseteq Waits
  /\ {"ip_changed", "config_changed", "verifying_new_ip", "new_ip_failed",
      "fixed", "healthy", "unstable", "suspected", "needs_replacement"}
       \subseteq States
BY DEF Waits, HealthyWait, UnstableWait, States, Replacing

(* A new node is a node, with fitting counters and due at once.            *)
LEMMA NewNodeFits ==
  ASSUME NEW rev \in Revs
  PROVE  NewNode(rev) \in Node /\ CountersFit(NewNode(rev))
BY NodeStateAssumption
   DEF NewNode, Node, CountersFit, States, Replacing, Waits

(* A replaced connection starts the counters again and is due at once.     *)
LEMMA MarkFits ==
  ASSUME NEW node \in Node, NEW rev \in Revs, NEW now \in Nat
  PROVE  LET new == MarkRevisionChanged(node, rev, now)
         IN /\ new \in Node
            /\ CountersFit(new)
            /\ new.wait = 0
            /\ new.lastResultAt = node.lastResultAt
<1> DEFINE addr == AddrOf[rev]
           new == MarkRevisionChanged(node, rev, now)
<1>1. addr \in Addrs /\ LiteralIPs[addr] \in IPs \cup {NoIPs}
  BY NodeStateAssumption
<1>2. new \in Node
  <2> DEFINE moved == node.address # addr
             state == IF moved \/ StillReplacing(node, addr) THEN "ip_changed"
                      ELSE "config_changed"
             prevAddress == IF moved THEN node.address ELSE node.prevAddress
             changedAt == IF moved THEN now ELSE node.changedAt
             prevIPs == IF moved THEN node.ips ELSE node.prevIPs
             ips == IF moved \/ node.ips = NoIPs THEN LiteralIPs[addr]
                    ELSE node.ips
  <2>1. /\ state \in States /\ prevAddress \in Addrs \cup {NoAddr}
        /\ changedAt \in Nat /\ prevIPs \in IPs \cup {NoIPs}
        /\ ips \in IPs \cup {NoIPs}
    BY <1>1, Assigned DEF Node
  <2>2. new = [node EXCEPT !.state = state, !.prevAddress = prevAddress,
                 !.changedAt = changedAt, !.prevIPs = prevIPs, !.ips = ips,
                 !.address = addr, !.revision = rev, !.failures = 0,
                 !.successes = 0, !.wait = 0]
    BY Zenon DEF MarkRevisionChanged
  <2>3. 0 \in Nat /\ 0 \in Waits
    BY Assigned
  <2> HIDE DEF state, prevAddress, changedAt, prevIPs, ips
  <2> QED
    BY <1>1, <2>1, <2>2, <2>3, ZenonT(60) DEF Node
<1>3. /\ new.state \in {"ip_changed", "config_changed"}
      /\ new.failures = 0 /\ new.successes = 0
      /\ new.wait = 0 /\ new.lastResultAt = node.lastResultAt
  BY DEF MarkRevisionChanged, Node
<1>4. CountersFit(new)
  BY <1>3 DEF CountersFit
<1> QED
  BY <1>2, <1>3, <1>4

(* The node is where its connection is, and never where it was before.     *)
LEMMA MarkPlaces ==
  ASSUME NEW node \in Node, NEW rev \in Revs, NEW now \in Nat,
         node.prevAddress # node.address
  PROVE  LET new == MarkRevisionChanged(node, rev, now)
         IN /\ new.address = AddrOf[rev] /\ new.revision = rev
            /\ new.prevAddress # new.address
            /\ new.changedAt \in {node.changedAt, now}
BY DEF MarkRevisionChanged, Node

(* A node that returns keeps its state.                                    *)
LEMMA ReturnedFits ==
  ASSUME NEW node \in Node, NEW rev \in Revs
  PROVE  /\ Returned(node, rev) \in Node
         /\ CountersFit(node) => CountersFit(Returned(node, rev))
         /\ Returned(node, rev).wait = 0
         /\ Returned(node, rev).lastResultAt = node.lastResultAt
<1>1. LiteralIPs[AddrOf[rev]] \in IPs \cup {NoIPs}
  BY NodeStateAssumption
<1>2. Returned(node, rev) \in Node
  <2>1. 0 \in Waits
    BY Assigned
  <2> QED
    BY <1>1, <2>1, Zenon DEF Returned, Node
<1>3. /\ Returned(node, rev).state = node.state
      /\ Returned(node, rev).failures = node.failures
      /\ Returned(node, rev).successes = node.successes
      /\ Returned(node, rev).wait = 0
      /\ Returned(node, rev).lastResultAt = node.lastResultAt
  BY DEF Returned, Node
<1>4. CountersFit(node) => CountersFit(Returned(node, rev))
  BY <1>3 DEF CountersFit
<1> QED
  BY <1>2, <1>3, <1>4

(* An answer of the resolver restarts the counters or leaves them alone.   *)
LEMMA ResolveFits ==
  ASSUME NEW node \in Node, NEW ips \in IPs \cup {NoIPs}, NEW now \in Nat
  PROVE  LET new == ResolveNode(node, ips, now)
         IN /\ new \in Node
            /\ CountersFit(node) => CountersFit(new)
            /\ \/ new.wait = 0
               \/ new.wait = node.wait /\ Cadence(new) = Cadence(node)
            /\ new.lastResultAt = node.lastResultAt
<1> DEFINE new == ResolveNode(node, ips, now)
<1>1. CASE DNSMoves(node, ips)
  <2>1. new \in Node
    <3>1. /\ new = [node EXCEPT !.prevIPs = node.ips, !.ips = ips,
                      !.changedAt = now, !.state = "ip_changed",
                      !.failures = 0, !.successes = 0, !.wait = 0]
          /\ node.ips \in IPs \cup {NoIPs}
      BY <1>1 DEF ResolveNode, Node
    <3>2. 0 \in Nat /\ 0 \in Waits /\ "ip_changed" \in States
      BY Assigned
    <3> QED
      BY <3>1, <3>2, ZenonT(60) DEF Node
  <2>2. /\ new.state = "ip_changed" /\ new.failures = 0
        /\ new.successes = 0 /\ new.wait = 0
        /\ new.lastResultAt = node.lastResultAt
    BY <1>1 DEF ResolveNode, Node
  <2>3. CountersFit(new)
    BY <2>2 DEF CountersFit
  <2> QED
    BY <2>1, <2>2, <2>3
<1>2. CASE ~DNSMoves(node, ips)
  <2>1. new \in {node, [node EXCEPT !.ips = ips]}
    BY <1>2 DEF ResolveNode
  <2>2. new \in Node
    BY <2>1 DEF Node
  <2>3. /\ new.state = node.state /\ new.failures = node.failures
        /\ new.successes = node.successes /\ new.wait = node.wait
        /\ new.lastResultAt = node.lastResultAt
    BY <2>1 DEF Node
  <2>4. CountersFit(node) => CountersFit(new)
    BY <2>3 DEF CountersFit
  <2>5. Cadence(new) = Cadence(node)
    BY <2>3 DEF Cadence
  <2> QED
    BY <2>2, <2>3, <2>4, <2>5
<1> QED
  BY <1>1, <1>2

(* The delay after a failure is one of the table's.                        *)
LEMMA RecheckDelay ==
  ASSUME NEW failures \in Nat \ {0}
  PROVE  /\ failures = 1 => FailedRecheckDelay(failures) = 60
         /\ failures = 2 => FailedRecheckDelay(failures) = 120
         /\ failures = 3 => FailedRecheckDelay(failures) = 300
         /\ failures >= 4 => FailedRecheckDelay(failures) = 600
         /\ FailedRecheckDelay(failures) \in {60, 120, 300, 600}
BY DEF FailedRecheckDelay

(* A result leaves fitting counters and the delay of the table.            *)
LEMMA ApplyFits ==
  ASSUME NEW node \in Node, NEW r \in Result
  PROVE  LET new == ApplyResult(node, r)
         IN /\ new \in Node
            /\ CountersFit(node) => CountersFit(new)
            /\ new.wait = Cadence(new)
            /\ new.lastResultAt = r.at
<1> DEFINE new == ApplyResult(node, r)
           counted == [node EXCEPT !.lastResultAt = r.at]
           replacing == node.state \in Replacing
<1>1. /\ counted \in Node
      /\ counted.state = node.state /\ counted.failures = node.failures
      /\ counted.successes = node.successes /\ counted.lastResultAt = r.at
  BY DEF Node, Result
<1>2. node.failures \in Nat /\ node.successes \in Nat
  BY DEF Node
<1> HIDE DEF counted
<1>3. CASE r.kind = "clean"
  <2> DEFINE n == node.successes + 1
             verifying == replacing /\ n < 2
  <2>1. new = ApplyClean(counted, replacing)
    BY <1>3 DEF ApplyResult, Count, counted
  <2>2. new \in Node
    <3> DEFINE state == IF verifying THEN "verifying_new_ip"
                        ELSE IF replacing THEN "fixed" ELSE "healthy"
               wait == IF verifying THEN 45 ELSE HealthyWait
    <3>1. new = [counted EXCEPT !.failures = 0, !.successes = n,
                   !.state = state, !.wait = wait]
      BY <1>1, <2>1 DEF ApplyClean
    <3>2. 0 \in Nat /\ n \in Nat /\ state \in States /\ wait \in Waits
      BY <1>2, Assigned
    <3> HIDE DEF state, wait, n
    <3> QED
      BY <1>1, <3>1, <3>2, ZenonT(60) DEF Node
  <2>3. /\ new.failures = 0 /\ new.successes = n
        /\ new.state = IF verifying THEN "verifying_new_ip"
                       ELSE IF replacing THEN "fixed" ELSE "healthy"
        /\ new.wait = IF verifying THEN 45 ELSE HealthyWait
        /\ new.lastResultAt = r.at
    BY <1>1, <2>1 DEF ApplyClean, Node
  <2>4. CountersFit(new)
    BY <1>2, <2>3 DEF CountersFit
  <2>5. new.wait = Cadence(new)
    <3>1. CASE verifying
      BY <1>2, <2>3, <3>1 DEF Cadence
    <3>2. CASE ~verifying
      <4>1. new.state \in {"fixed", "healthy"} /\ new.wait = HealthyWait
        BY <2>3, <3>2
      <4> QED
        BY <4>1 DEF Cadence
    <3> QED
      BY <3>1, <3>2
  <2> QED
    BY <2>2, <2>3, <2>4, <2>5
<1>4. CASE r.kind = "unstable"
  <2>1. new = ApplyUnstable(counted, replacing)
    BY <1>4 DEF ApplyResult, Count, counted
  <2>2. new \in Node
    <3> DEFINE state == IF replacing THEN "verifying_new_ip" ELSE "unstable"
               wait == IF replacing THEN 60 ELSE UnstableWait
    <3>1. new = [counted EXCEPT !.failures = 0, !.successes = 0,
                   !.state = state, !.wait = wait]
      BY <2>1 DEF ApplyUnstable
    <3>2. 0 \in Nat /\ state \in States /\ wait \in Waits
      BY Assigned
    <3> HIDE DEF state, wait
    <3> QED
      BY <1>1, <3>1, <3>2, ZenonT(60) DEF Node
  <2>3. /\ new.failures = 0 /\ new.successes = 0
        /\ new.state = IF replacing THEN "verifying_new_ip" ELSE "unstable"
        /\ new.wait = IF replacing THEN 60 ELSE UnstableWait
        /\ new.lastResultAt = r.at
    BY <1>1, <2>1 DEF ApplyUnstable, Node
  <2>4. CountersFit(new)
    BY <2>3 DEF CountersFit
  <2>5. new.wait = Cadence(new)
    BY <2>3 DEF Cadence
  <2> QED
    BY <2>2, <2>3, <2>4, <2>5
<1>5. CASE r.kind = "fail"
  <2> DEFINE n == node.failures + 1
  <2>1. new = ApplyFail(counted, replacing)
    BY <1>5 DEF ApplyResult, Count, counted
  <2>2. n \in Nat \ {0}
    BY <1>2
  <2>3. FailedRecheckDelay(n) \in Waits
    BY <2>2, RecheckDelay, Assigned
  <2>4. new \in Node
    <3> DEFINE state ==
                 IF replacing
                 THEN IF n >= 2 THEN "new_ip_failed" ELSE "verifying_new_ip"
                 ELSE IF n >= 3 THEN "needs_replacement" ELSE "suspected"
               wait == FailedRecheckDelay(n)
    <3>1. new = [counted EXCEPT !.failures = n, !.successes = 0,
                   !.state = state, !.wait = wait]
      BY <1>1, <2>1 DEF ApplyFail
    <3>2. 0 \in Nat /\ n \in Nat /\ state \in States /\ wait \in Waits
      BY <2>2, <2>3, Assigned
    <3> HIDE DEF state, wait, n
    <3> QED
      BY <1>1, <3>1, <3>2, ZenonT(60) DEF Node
  <2>5. /\ new.failures = n /\ new.successes = 0
        /\ new.state = IF replacing
             THEN IF n >= 2 THEN "new_ip_failed" ELSE "verifying_new_ip"
             ELSE IF n >= 3 THEN "needs_replacement" ELSE "suspected"
        /\ new.wait = FailedRecheckDelay(n)
        /\ new.lastResultAt = r.at
    BY <1>1, <2>1 DEF ApplyFail, Node
  <2>6. CountersFit(new)
    BY <2>2, <2>5 DEF CountersFit
  <2>7. new.wait = Cadence(new)
    BY <2>2, <2>5, RecheckDelay DEF Cadence
  <2> QED
    BY <2>4, <2>5, <2>6, <2>7
<1> QED
  BY <1>3, <1>4, <1>5 DEF Result, Kinds

(* What the results file says of a node the monitor file does not hold.    *)
LEMMA InitializeFits ==
  ASSUME NEW rev \in Revs, NEW r \in Restored(rev)
  PROVE  LET new == InitializeFromResult(NewNode(rev), r)
         IN /\ Restorable(new)
            /\ new.changedAt <= Past /\ new.lastResultAt <= Past
<1> DEFINE node == NewNode(rev)
           new == InitializeFromResult(node, r)
           online == r.kind # "fail"
           state == CASE r.kind = "clean"    -> "healthy"
                      [] r.kind = "unstable" -> "unstable"
                      [] r.kind = "fail"     -> "suspected"
           wait == CASE r.kind = "clean"    -> HealthyWait
                     [] r.kind = "unstable" -> UnstableWait
                     [] r.kind = "fail"     -> FailedRecheckDelay(1)
           up == IF online THEN 1 ELSE node.successes
           down == IF online THEN node.failures ELSE 1
<1>1. r.kind \in {"clean", "unstable", "fail"} /\ r.at \in 1..Past
  BY DEF Restored, Kinds
<1>2. /\ node \in Node /\ node.successes = 0 /\ node.failures = 0
      /\ node.changedAt = 0 /\ node.address = AddrOf[rev]
      /\ node.prevAddress = NoAddr /\ node.revision = rev
  BY NewNodeFits DEF NewNode
<1>3. new = [node EXCEPT !.lastResultAt = r.at, !.successes = up,
               !.failures = down, !.state = state, !.wait = wait]
  BY Zenon DEF InitializeFromResult
<1>4. /\ r.at \in Nat /\ up \in Nat /\ down \in Nat
      /\ state \in {"healthy", "unstable", "suspected"}
      /\ wait \in {HealthyWait, UnstableWait, 60}
  BY <1>1, <1>2, NodeMonitorAssumption DEF FailedRecheckDelay
<1>5. /\ state = "healthy" => up = 1 /\ down = 0 /\ wait = HealthyWait
      /\ state = "unstable" => up = 1 /\ down = 0 /\ wait = UnstableWait
      /\ state = "suspected" => up = 0 /\ down = 1 /\ wait = 60
  BY <1>1, <1>2 DEF FailedRecheckDelay
<1> HIDE DEF node, state, wait, up, down, new
<1>6. state \in States /\ wait \in Waits
  BY <1>4, Assigned
<1>7. new \in Node
  BY <1>2, <1>3, <1>4, <1>6, ZenonT(60) DEF Node
<1>8. /\ new.state = state /\ new.successes = up /\ new.failures = down
      /\ new.wait = wait /\ new.lastResultAt = r.at /\ new.changedAt = 0
      /\ new.address = AddrOf[rev] /\ new.prevAddress = NoAddr
      /\ new.revision = rev
  BY <1>2, <1>3 DEF Node
<1>9. CountersFit(new) /\ new.wait = Cadence(new)
  BY <1>4, <1>5, <1>8 DEF CountersFit, Cadence
<1>10. new.prevAddress # new.address
  BY <1>8, NodeStateAssumption
<1> QED
  BY <1>1, <1>7, <1>8, <1>9, <1>10, NodeMonitorAssumption
     DEF Restorable, new, node

(* A state that stands for a result it has lost becomes unknown.           *)
LEMMA AttestedFits ==
  ASSUME NEW node, Restorable(node), NEW found \in BOOLEAN
  PROVE  LET kept == Attested(node, found)
         IN /\ Restorable(kept)
            /\ kept.revision = node.revision /\ kept.address = node.address
            /\ kept.changedAt = node.changedAt
            /\ kept.lastResultAt = node.lastResultAt
<1> DEFINE lost == [node EXCEPT !.state = "unknown", !.wait = 0]
<1>1. node \in Node /\ CountersFit(node)
  BY DEF Restorable
<1>2. CASE found \/ node.state \notin {"healthy", "fixed"}
  BY <1>2 DEF Attested
<1>3. CASE ~found /\ node.state \in {"healthy", "fixed"}
  <2>1. Attested(node, found) = lost
    BY <1>3 DEF Attested
  <2>2. "unknown" \in States /\ 0 \in Waits
    BY Assigned DEF States
  <2>3. lost \in Node
    BY <1>1, <2>2, ZenonT(60) DEF Node
  <2>4. /\ lost.state = "unknown" /\ lost.wait = 0
        /\ lost.successes = node.successes /\ lost.failures = node.failures
        /\ lost.revision = node.revision /\ lost.address = node.address
        /\ lost.prevAddress = node.prevAddress
        /\ lost.changedAt = node.changedAt
        /\ lost.lastResultAt = node.lastResultAt
    BY <1>1 DEF Node
  <2> HIDE DEF lost
  <2>5. node.failures = 0
    <3>1. node.failures \in Nat /\ node.successes \in Nat
      BY <1>1 DEF Node
    <3> QED
      BY <1>1, <1>3, <3>1 DEF CountersFit
  <2>6. CountersFit(lost)
    BY <2>4, <2>5 DEF CountersFit
  <2> QED
    BY <2>1, <2>3, <2>4, <2>6 DEF Restorable
<1> QED
  BY <1>2, <1>3

(* A node that was saved, on the connection the subscription has now.      *)
LEMMA ReconcileFits ==
  ASSUME NEW node \in Saved, NEW rev \in Revs, NEW found \in BOOLEAN
  PROVE  LET new == Reconcile(node, rev, found, Past)
         IN /\ Restorable(new)
            /\ new.changedAt <= Past /\ new.lastResultAt <= Past
<1> DEFINE kept == Attested(node, found)
           addr == AddrOf[rev]
           new == Reconcile(node, rev, found, Past)
<1>1. /\ Restorable(node) /\ node.changedAt <= Past
      /\ node.lastResultAt <= Past
  BY SavedAssumption
<1>2. /\ Restorable(kept) /\ kept.revision = node.revision
      /\ kept.changedAt <= Past /\ kept.lastResultAt <= Past
  BY <1>1, AttestedFits
<1> HIDE DEF kept
<1>3. /\ kept \in Node /\ CountersFit(kept)
      /\ kept.wait \in {0, Cadence(kept)}
      /\ kept.address = AddrOf[kept.revision]
      /\ kept.prevAddress # kept.address
  BY <1>2 DEF Restorable
<1>4. CASE node.revision # rev
  <2> DEFINE marked == MarkRevisionChanged(kept, rev, Past)
  <2>1. new = marked
    BY <1>4 DEF Reconcile, kept
  <2>2. /\ marked \in Node /\ CountersFit(marked) /\ marked.wait = 0
        /\ marked.lastResultAt = kept.lastResultAt
    BY <1>3, MarkFits, NodeMonitorAssumption
  <2>3. /\ marked.address = AddrOf[rev] /\ marked.revision = rev
        /\ marked.prevAddress # marked.address
        /\ marked.changedAt \in {kept.changedAt, Past}
    BY <1>3, MarkPlaces, NodeMonitorAssumption
  <2> HIDE DEF marked, new
  <2>4. Restorable(marked)
    BY <2>2, <2>3 DEF Restorable
  <2>5. marked.changedAt <= Past
    BY <1>2, <2>3, NodeMonitorAssumption
  <2> QED
    BY <1>2, <2>1, <2>2, <2>4, <2>5 DEF new
<1>5. CASE node.revision = rev
  <2> DEFINE ips == IF kept.ips = NoIPs THEN LiteralIPs[addr] ELSE kept.ips
             wait == IF kept.state \in {"healthy", "fixed"} THEN HealthyWait
                     ELSE kept.wait
  <2>1. new = [kept EXCEPT !.ips = ips, !.wait = wait]
    BY <1>5, Zenon DEF Reconcile, kept
  <2>2. /\ ips \in IPs \cup {NoIPs} /\ wait \in Waits
        /\ kept.state \in {"healthy", "fixed"} => wait = HealthyWait
        /\ kept.state \notin {"healthy", "fixed"} => wait = kept.wait
    BY <1>3, Assigned, NodeStateAssumption DEF Node
  <2> HIDE DEF ips, wait, new
  <2>3. new \in Node
    BY <1>3, <2>1, <2>2, ZenonT(60) DEF Node
  <2>4. /\ new.state = kept.state /\ new.wait = wait
        /\ new.successes = kept.successes /\ new.failures = kept.failures
        /\ new.revision = kept.revision /\ new.address = kept.address
        /\ new.prevAddress = kept.prevAddress
        /\ new.changedAt = kept.changedAt
        /\ new.lastResultAt = kept.lastResultAt
    BY <1>3, <2>1 DEF Node
  <2>5. CountersFit(new)
    BY <1>3, <2>4 DEF CountersFit
  <2>6. Cadence(new) = Cadence(kept)
    BY <2>4 DEF Cadence
  <2>7. new.wait \in {0, Cadence(new)}
    <3>1. CASE kept.state \in {"healthy", "fixed"}
      BY <2>2, <2>4, <3>1 DEF Cadence
    <3>2. CASE kept.state \notin {"healthy", "fixed"}
      BY <1>3, <2>2, <2>4, <2>6, <3>2
    <3> QED
      BY <3>1, <3>2
  <2>8. Restorable(new)
    BY <1>3, <2>3, <2>4, <2>5, <2>7 DEF Restorable
  <2> QED
    BY <1>2, <2>4, <2>8 DEF new
<1> QED
  BY <1>4, <1>5

(* Whatever the two files hold, a node starts with what the monitor file   *)
(* might hold.                                                             *)
LEMMA StartFits ==
  ASSUME NEW rev \in Revs \cup {Absent}, NEW saved \in Saved \cup {NoNode},
         NEW found \in {NoResult} \cup Restored(rev)
  PROVE  LET new == StartNode(rev, saved, found)
         IN /\ new \in Node \cup {NoNode}
            /\ rev # Absent => new # NoNode
            /\ new # NoNode => /\ Restorable(new) /\ new.changedAt <= Past
                               /\ new.lastResultAt <= Past
<1> DEFINE new == StartNode(rev, saved, found)
<1>1. \A node : Restorable(node) => node \in Node /\ node # NoNode
  BY NodeMonitorAssumption DEF Restorable
<1>2. CASE rev = Absent
  <2>1. new = saved
    BY <1>2 DEF StartNode
  <2> QED
    BY <1>1, <1>2, <2>1, SavedAssumption
<1>3. CASE rev # Absent /\ saved # NoNode
  <2> DEFINE kept == Reconcile(saved, rev, found # NoResult, Past)
  <2>1. new = kept /\ rev \in Revs /\ saved \in Saved
    BY <1>3 DEF StartNode
  <2>2. /\ Restorable(kept)
        /\ kept.changedAt <= Past /\ kept.lastResultAt <= Past
    BY <2>1, ReconcileFits
  <2> HIDE DEF kept, new
  <2> QED
    BY <1>1, <2>1, <2>2 DEF new
<1>4. CASE rev # Absent /\ saved = NoNode /\ found # NoResult
  <2> DEFINE first == InitializeFromResult(NewNode(rev), found)
  <2>1. new = first /\ rev \in Revs /\ found \in Restored(rev)
    BY <1>4 DEF StartNode
  <2>2. /\ Restorable(first)
        /\ first.changedAt <= Past /\ first.lastResultAt <= Past
    BY <2>1, InitializeFits
  <2> HIDE DEF first, new
  <2> QED
    BY <1>1, <2>1, <2>2 DEF new
<1>5. CASE rev # Absent /\ saved = NoNode /\ found = NoResult
  <2>1. new = NewNode(rev) /\ rev \in Revs
    BY <1>5 DEF StartNode
  <2>2. /\ Restorable(NewNode(rev))
        /\ NewNode(rev).changedAt = 0 /\ NewNode(rev).lastResultAt = 0
    BY <2>1, NewNodeFits, NodeStateAssumption DEF NewNode, Restorable
  <2> HIDE DEF new
  <2> QED
    BY <1>1, <2>1, <2>2, NodeMonitorAssumption DEF new
<1> QED
  BY <1>2, <1>3, <1>4, <1>5

-----------------------------------------------------------------------------
(* Type correctness.                                                       *)

(* The targets of a set are the captured ones of the nodes it names.       *)
LEMMA CaptureTypes ==
  ASSUME NEW proxies \in Targets, NEW S \in SUBSET Nodes
  PROVE  /\ Capture(proxies, S) \in Targets
         /\ \A n \in Nodes : Capture(proxies, S)[n] \in {Absent, proxies[n]}
         /\ Named(Capture(proxies, S)) = {n \in S : proxies[n] # Absent}
         /\ Queued(Capture(proxies, S)) \in Job
<1>1. Capture(proxies, S) \in Targets
  BY DEF Capture, Targets
<1>2. \A n \in Nodes : Capture(proxies, S)[n] \in {Absent, proxies[n]}
  BY DEF Capture
<1>3. Named(Capture(proxies, S)) = {n \in S : proxies[n] # Absent}
  BY DEF Capture, Named
<1>4. Queued(Capture(proxies, S)) \in Job
  BY <1>1 DEF Queued, Job
<1> QED
  BY <1>1, <1>2, <1>3, <1>4

LEMMA IdleTypes == Idle \in Job /\ Idle.pending = {} /\ Idle.phase = "idle"
BY DEF Idle, Job, NoTargets, Targets

LEMMA EmptyLogTypes ==
  ASSUME NEW cause \in {"start", "new", "reload", "dns"}, NEW state \in States,
         NEW now \in Nat
  PROVE  EmptyLog(cause, state, now) \in Log
BY DEF EmptyLog, Log

(* A node that starts brings the rounds its counters stand for.            *)
LEMMA StartLogTypes ==
  ASSUME NEW node \in Node \cup {NoNode}
  PROVE  StartLog(node) \in Log
<1>1. CASE node = NoNode
  BY <1>1, EmptyLogTypes, NodeMonitorAssumption DEF StartLog, States
<1>2. CASE node # NoNode
  <2> DEFINE before == [i \in 1..(node.failures + node.successes) |->
                          IF node.failures > 0 THEN "fail" ELSE "clean"]
             entry == EmptyLog("start", node.state, Past)
  <2>1. node.state \in States /\ node.failures + node.successes \in Nat
    BY <1>2 DEF Node
  <2>2. entry \in Log
    BY <2>1, EmptyLogTypes, NodeMonitorAssumption
  <2>3. before \in Seq(Kinds)
    BY <2>1 DEF Kinds
  <2>4. StartLog(node) = [entry EXCEPT !.before = before]
    BY <1>2 DEF StartLog
  <2> HIDE DEF before, entry
  <2> QED
    BY <2>2, <2>3, <2>4, Zenon DEF Log
<1> QED
  BY <1>1, <1>2

LEMMA TypeInit == Init => TypeInv
<1> SUFFICES ASSUME Init PROVE TypeInv
  OBVIOUS
<1> USE DEF Init
<1>1. ASSUME NEW n \in Nodes
      PROVE  /\ monitor[n] \in Node \cup {NoNode}
             /\ cfg[n] # Absent => monitor[n] # NoNode
             /\ results[n] \in Result \cup {NoResult}
             /\ log[n] \in Log
  <2>1. cfg[n] \in Revs \cup {Absent}
        /\ results[n] \in {NoResult} \cup Restored(cfg[n])
    BY DEF Targets
  <2>2. PICK saved \in [Nodes -> Saved \cup {NoNode}] :
          monitor = [m \in Nodes |-> StartNode(cfg[m], saved[m], results[m])]
    OBVIOUS
  <2>3. saved[n] \in Saved \cup {NoNode}
        /\ monitor[n] = StartNode(cfg[n], saved[n], results[n])
    BY <2>2
  <2>4. log[n] = StartLog(monitor[n])
    OBVIOUS
  <2> HIDE DEF Init
  <2>5. /\ monitor[n] \in Node \cup {NoNode}
        /\ cfg[n] # Absent => monitor[n] # NoNode
    BY <2>1, <2>3, StartFits
  <2>6. log[n] \in Log
    BY <2>4, <2>5, StartLogTypes
  <2>7. results[n] \in Result \cup {NoResult}
    BY <2>1, NodeMonitorAssumption DEF Restored, Result
  <2> QED
    BY <2>5, <2>6, <2>7
<1>2. /\ DOMAIN monitor = Nodes /\ monitor = [n \in Nodes |-> monitor[n]]
      /\ DOMAIN results = Nodes /\ results = [n \in Nodes |-> results[n]]
      /\ DOMAIN log = Nodes /\ log = [n \in Nodes |-> log[n]]
  OBVIOUS
<1>3. /\ monitor \in [Nodes -> Node \cup {NoNode}]
      /\ results \in [Nodes -> Result \cup {NoResult}]
      /\ log \in [Nodes -> Log]
  <2> HIDE DEF Init
  <2> QED
    BY <1>1, <1>2, Zenon
<1>4. KnownPresent
  BY <1>1 DEF KnownPresent, Present, Named
<1>5. clock \in Past..MaxClock /\ cfg \in Targets
  BY NodeMonitorAssumption
<1>6. TypeOK
  BY <1>3, <1>5, IdleTypes DEF TypeOK, CheckWorkers
<1>7. JobsCurrent /\ HoldersCheck /\ EvidenceHeld
  BY IdleTypes DEF JobsCurrent, JobFits, HoldersCheck, EvidenceHeld
<1> QED
  BY <1>4, <1>6, <1>7 DEF TypeInv

(* One set changes while the subscription stays.                           *)
LEMMA ReplaceJob ==
  ASSUME TypeInv, NEW w \in Workers, NEW j \in Job, JobFits(j),
         job' = [job EXCEPT ![w] = j], cfg' = cfg
  PROVE  /\ job' \in [Workers -> Job]
         /\ job'[w] = j
         /\ \A v \in Workers : v # w => job'[v] = job[v]
         /\ JobsCurrent'
<1>1. job' \in [Workers -> Job] /\ job'[w] = j
      /\ \A v \in Workers : v # w => job'[v] = job[v]
  BY DEF TypeInv, TypeOK
<1>2. ASSUME NEW v \in Workers PROVE JobFits(job[v])'
  <2>1. JobFits(job'[v])
    BY <1>1 DEF TypeInv, JobsCurrent
  <2> QED
    BY <2>1 DEF JobFits, Named
<1> QED
  BY <1>1, <1>2 DEF JobsCurrent

(* The steps that only move a check set or a probe along.                  *)
LEMMA TypeQueueChecks ==
  ASSUME TypeInv, NEW w \in CheckWorkers, NEW S \in SUBSET Nodes,
         QueueChecks(w, S)
  PROVE  TypeInv'
<1> DEFINE queued == Queued(Capture(cfg, S))
<1> USE DEF TypeInv, QueueChecks
<1>1. w \in Workers /\ job[w].phase = "idle"
  BY DEF CheckWorkers, Workers
<1>2. queued \in Job /\ JobFits(queued) /\ queued.pending = {}
  BY CaptureTypes DEF TypeOK, Queued, JobFits
<1>3. job' = [job EXCEPT ![w] = queued] /\ cfg' = cfg
  OBVIOUS
<1> HIDE DEF queued
<1>4. /\ job' \in [Workers -> Job] /\ JobsCurrent'
      /\ \A v \in Workers : v # w => job'[v] = job[v]
  BY <1>1, <1>2, <1>3, ReplaceJob
<1>5. TypeOK' /\ KnownPresent'
  BY <1>4 DEF TypeOK, KnownPresent, Present
<1>6. HoldersCheck'
  BY <1>1, <1>4, NodeMonitorAssumption
     DEF HoldersCheck, JobsCurrent, JobFits, TypeOK, Workers
<1>7. EvidenceHeld'
  BY <1>1, <1>4 DEF EvidenceHeld, TypeOK, Named, Workers
<1> QED
  BY <1>4, <1>5, <1>6, <1>7

LEMMA TypeEnterRuntime ==
  ASSUME TypeInv, NEW w \in CheckWorkers, EnterRuntime(w)
  PROVE  TypeInv'
<1> DEFINE current == StillCurrent(job[w].targets)
           targets == Capture(job[w].targets, current)
           entered == [phase |-> "checking", targets |-> targets,
                       pending |-> current]
<1> USE DEF TypeInv, EnterRuntime
<1>1. w \in Workers /\ job[w].phase = "queued" /\ job[w].targets \in Targets
  BY DEF CheckWorkers, Workers, TypeOK, Job
<1>2. /\ current \in SUBSET Nodes
      /\ \A n \in current : /\ job[w].targets[n] # Absent
                            /\ cfg[n] = job[w].targets[n]
  BY DEF StillCurrent, Named
<1>3. /\ targets \in Targets
      /\ Named(targets) = {n \in current : job[w].targets[n] # Absent}
  BY <1>1, <1>2, CaptureTypes
<1>4. Named(targets) = current
  BY <1>2, <1>3
<1>5. \A n \in Nodes : targets[n] \in {Absent, cfg[n]}
  BY <1>2 DEF Capture
<1>6. job' = [job EXCEPT ![w] = entered] /\ cfg' = cfg
  OBVIOUS
<1> HIDE DEF current, targets
<1>7. entered \in Job /\ JobFits(entered)
  BY <1>2, <1>3, <1>4, <1>5 DEF Job, JobFits
<1> HIDE DEF entered
<1>8. /\ job' \in [Workers -> Job] /\ JobsCurrent'
      /\ \A v \in Workers : v # w => job'[v] = job[v]
  BY <1>1, <1>6, <1>7, ReplaceJob
<1>9. TypeOK' /\ KnownPresent'
  BY <1>8 DEF TypeOK, KnownPresent, Present
<1>10. HoldersCheck'
  BY <1>1, <1>8, NodeMonitorAssumption
     DEF HoldersCheck, JobsCurrent, JobFits, TypeOK, Workers
<1>11. EvidenceHeld'
  BY <1>1, <1>8 DEF EvidenceHeld, TypeOK, Workers, CheckWorkers, Named
<1> QED
  BY <1>8, <1>9, <1>10, <1>11

LEMMA TypeGiveUp ==
  ASSUME TypeInv, NEW w \in CheckWorkers, GiveUp(w)
  PROVE  TypeInv'
<1> USE DEF TypeInv, GiveUp
<1>1. w \in Workers /\ job[w].phase = "queued"
  BY DEF CheckWorkers, Workers
<1>2. JobFits(Idle)
  BY IdleTypes DEF JobFits
<1>3. /\ job' \in [Workers -> Job] /\ JobsCurrent'
      /\ \A v \in Workers : v # w => job'[v] = job[v]
  BY <1>1, <1>2, IdleTypes, ReplaceJob
<1>4. TypeOK' /\ KnownPresent'
  BY <1>3 DEF TypeOK, KnownPresent, Present
<1>5. HoldersCheck'
  BY <1>1, <1>3, NodeMonitorAssumption
     DEF HoldersCheck, JobsCurrent, JobFits, TypeOK, Workers
<1>6. EvidenceHeld'
  BY <1>1, <1>3 DEF EvidenceHeld, TypeOK, Workers, CheckWorkers, Named
<1> QED
  BY <1>3, <1>4, <1>5, <1>6

(* One node less is pending.                                               *)
LEMMA DropPending ==
  ASSUME TypeInv, NEW w \in Workers, NEW n \in job[w].pending
  PROVE  LET dropped == [job[w] EXCEPT !.pending = @ \ {n}]
         IN /\ dropped \in Job /\ JobFits(dropped)
            /\ dropped.pending = job[w].pending \ {n}
            /\ dropped.phase = "checking" /\ job[w].phase = "checking"
            /\ dropped.targets = job[w].targets
            /\ n \in Nodes /\ job[w].targets[n] = cfg[n] /\ cfg[n] \in Revs
<1> USE DEF TypeInv
<1>1. job[w] \in Job /\ JobFits(job[w])
  BY DEF TypeOK, JobsCurrent
<1>2. job[w].phase = "checking" /\ n \in Named(job[w].targets)
  BY <1>1 DEF JobFits
<1>3. n \in Nodes /\ job[w].targets[n] = cfg[n] /\ cfg[n] \in Revs
  BY <1>1, <1>2 DEF JobFits, Named, TypeOK, Targets
<1> DEFINE dropped == [job[w] EXCEPT !.pending = @ \ {n}]
<1>4. /\ dropped \in Job /\ dropped.pending = job[w].pending \ {n}
      /\ dropped.phase = job[w].phase /\ dropped.targets = job[w].targets
  BY <1>1 DEF Job
<1> HIDE DEF dropped
<1>5. JobFits(dropped)
  BY <1>1, <1>2, <1>4 DEF JobFits
<1> QED
  BY <1>2, <1>3, <1>4, <1>5 DEF dropped

LEMMA TypeBeginCheck ==
  ASSUME TypeInv, NEW w \in CheckWorkers, NEW n \in Nodes, BeginCheck(w, n)
  PROVE  TypeInv'
<1> USE DEF TypeInv, BeginCheck
<1>1. w \in Workers /\ n \in job[w].pending /\ w # NoOne
  BY NodeMonitorAssumption DEF CheckWorkers, Workers
<1>2. CASE holder' = [holder EXCEPT ![n] = w] /\ UNCHANGED job
  <2>1. TypeOK' /\ KnownPresent' /\ EvidenceHeld'
    BY <1>2 DEF TypeOK, KnownPresent, Present, EvidenceHeld, Named
  <2>2. JobsCurrent'
    BY <1>2 DEF JobsCurrent, JobFits, Named
  <2>3. HoldersCheck'
    BY <1>1, <1>2 DEF HoldersCheck, TypeOK
  <2> QED
    BY <2>1, <2>2, <2>3
<1>3. CASE /\ job' = [job EXCEPT ![w].pending = @ \ {n}]
           /\ UNCHANGED holder
  <2> DEFINE dropped == [job[w] EXCEPT !.pending = @ \ {n}]
  <2>1. /\ dropped \in Job /\ JobFits(dropped)
        /\ dropped.pending = job[w].pending \ {n}
        /\ dropped.phase = job[w].phase /\ dropped.targets = job[w].targets
    BY <1>1, DropPending
  <2>2. job' = [job EXCEPT ![w] = dropped] /\ cfg' = cfg
    BY <1>3
  <2> HIDE DEF dropped
  <2>3. /\ job' \in [Workers -> Job] /\ JobsCurrent' /\ job'[w] = dropped
        /\ \A v \in Workers : v # w => job'[v] = job[v]
    BY <1>1, <2>1, <2>2, ReplaceJob
  <2>4. TypeOK' /\ KnownPresent'
    BY <1>3, <2>3 DEF TypeOK, KnownPresent, Present
  <2>5. \A m \in Nodes : holder[m] # NoOne => m # n /\ holder[m] \in Workers
    BY DEF TypeOK, CheckWorkers, Workers
  <2>6. HoldersCheck'
    BY <1>3, <2>1, <2>3, <2>5 DEF HoldersCheck
  <2>7. EvidenceHeld'
    BY <2>1, <2>3 DEF EvidenceHeld, Workers, CheckWorkers, Named
  <2> QED
    BY <2>3, <2>4, <2>6, <2>7
<1> QED
  BY <1>2, <1>3

LEMMA TypeFinishCheck ==
  ASSUME TypeInv, NEW w \in CheckWorkers, NEW n \in Nodes, NEW kind \in Kinds,
         FinishCheck(w, n, kind)
  PROVE  TypeInv'
<1> USE DEF TypeInv, FinishCheck
<1>1. w \in Workers /\ w # "diagnosis" /\ w # NoOne
  BY NodeMonitorAssumption DEF CheckWorkers, Workers
<1>2. n \in job[w].pending
  BY <1>1 DEF HoldersCheck
<1> DEFINE dropped == [job[w] EXCEPT !.pending = @ \ {n}]
<1>3. /\ dropped \in Job /\ JobFits(dropped)
      /\ dropped.pending = job[w].pending \ {n}
      /\ job[w].targets[n] = cfg[n] /\ cfg[n] \in Revs
  BY <1>1, <1>2, DropPending
<1>4. job' = [job EXCEPT ![w] = dropped] /\ cfg' = cfg
  OBVIOUS
<1> HIDE DEF dropped
<1>5. /\ job' \in [Workers -> Job] /\ JobsCurrent' /\ job'[w] = dropped
      /\ \A v \in Workers : v # w => job'[v] = job[v]
  BY <1>1, <1>3, <1>4, ReplaceJob
<1>6. clock \in Nat /\ clock' \in Past..MaxClock
  BY NodeMonitorAssumption DEF TypeOK
<1>7. [kind |-> kind, at |-> clock + 1, rev |-> job[w].targets[n]] \in Result
  BY <1>3, <1>6 DEF Result
<1>8. results' \in [Nodes -> Result \cup {NoResult}]
  BY <1>7 DEF TypeOK
<1>9. TypeOK' /\ KnownPresent'
  BY <1>5, <1>6, <1>8 DEF TypeOK, KnownPresent, Present
<1>10. HoldersCheck'
  <2>1. \A m \in Nodes \ {n} : holder'[m] = holder[m]
                               /\ holder[m] \in Workers \cup {NoOne}
    BY DEF TypeOK, CheckWorkers, Workers
  <2>2. holder'[n] = NoOne
    BY DEF TypeOK
  <2> QED
    BY <1>3, <1>5, <2>1, <2>2 DEF HoldersCheck
<1>11. EvidenceHeld'
  BY <1>1, <1>5 DEF EvidenceHeld, Workers, Named
<1> QED
  BY <1>5, <1>9, <1>10, <1>11

(* What a set counts was stored for nodes the monitor knows.               *)
LEMMA NewsOfKnown ==
  ASSUME TypeInv, NEW w \in Workers, job[w].phase = "checking",
         NEW n \in Named(job[w].targets), IsNews(n)
  PROVE  /\ n \in Nodes /\ cfg[n] # Absent
         /\ monitor[n] \in Node /\ results[n] \in Result
         /\ monitor[n].lastResultAt < results[n].at
BY DEF TypeInv, TypeOK, JobsCurrent, JobFits, Named, IsNews, KnownPresent,
       Present

LEMMA TypeRecordResults ==
  ASSUME TypeInv, NEW w \in Workers, RecordResults(w)
  PROVE  TypeInv'
<1> DEFINE news == {n \in Named(job[w].targets) : IsNews(n)}
<1> USE DEF TypeInv, RecordResults
<1>1. JobFits(Idle)
  BY IdleTypes DEF JobFits
<1>2. /\ job' \in [Workers -> Job] /\ JobsCurrent'
      /\ \A v \in Workers : v # w => job'[v] = job[v]
  BY <1>1, IdleTypes, ReplaceJob
<1>3. \A n \in news : /\ n \in Nodes /\ monitor[n] \in Node
                      /\ results[n] \in Result
  BY NewsOfKnown
<1>4. \A n \in news : ApplyResult(monitor[n], results[n]) \in Node
  BY <1>3, ApplyFits
<1>5. \A n \in news : [log[n] EXCEPT !.obs = Append(@, results[n])] \in Log
  <2> SUFFICES ASSUME NEW n \in news
               PROVE  [log[n] EXCEPT !.obs = Append(@, results[n])] \in Log
    OBVIOUS
  <2>1. log[n] \in Log /\ results[n] \in Result
    BY <1>3 DEF TypeOK
  <2>2. Append(log[n].obs, results[n]) \in Seq(Result)
    BY <2>1 DEF Log
  <2> QED
    BY <2>1, <2>2 DEF Log
<1>6. /\ monitor' = [n \in Nodes |->
           IF n \in news THEN ApplyResult(monitor[n], results[n])
           ELSE monitor[n]]
      /\ log' = [n \in Nodes |->
           IF n \in news
           THEN [log[n] EXCEPT !.obs = Append(@, results[n])]
           ELSE log[n]]
  OBVIOUS
<1> HIDE DEF news
<1>7. monitor' \in [Nodes -> Node \cup {NoNode}]
  BY <1>4, <1>6 DEF TypeOK
<1>8. log' \in [Nodes -> Log]
  BY <1>5, <1>6 DEF TypeOK
<1>9. TypeOK'
  BY <1>2, <1>7, <1>8 DEF TypeOK
<1>10. KnownPresent'
  BY <1>4, <1>6, NodeMonitorAssumption DEF KnownPresent, Present, Named
<1>11. HoldersCheck'
  BY <1>2, NodeMonitorAssumption
     DEF HoldersCheck, TypeOK, Workers, CheckWorkers
<1>12. EvidenceHeld'
  <2>1. CASE w = "diagnosis"
    BY <2>1 DEF EvidenceHeld
  <2>2. CASE w # "diagnosis"
    BY <1>2, <2>2 DEF EvidenceHeld, Workers, Named
  <2> QED
    BY <2>1, <2>2
<1> QED
  BY <1>2, <1>9, <1>10, <1>11, <1>12

LEMMA TypeStartDiagnosis ==
  ASSUME TypeInv, NEW S \in SUBSET Nodes, StartDiagnosis(S)
  PROVE  TypeInv'
<1> DEFINE run == [phase |-> "checking", targets |-> Capture(cfg, S),
                   pending |-> S]
<1> USE DEF TypeInv, StartDiagnosis
<1>1. "diagnosis" \in Workers
  BY DEF Workers
<1>2. cfg \in Targets /\ S \subseteq {n \in Nodes : cfg[n] # Absent}
  BY DEF TypeOK, Present, Named
<1>3. /\ Capture(cfg, S) \in Targets
      /\ Named(Capture(cfg, S)) = {n \in S : cfg[n] # Absent}
      /\ \A n \in Nodes : Capture(cfg, S)[n] \in {Absent, cfg[n]}
  BY <1>2, CaptureTypes
<1>. Named(Capture(cfg, S)) = S
  BY <1>2, <1>3
<1>4. run \in Job /\ JobFits(run)
  BY <1>3 DEF Job, JobFits
<1>5. job' = [job EXCEPT !["diagnosis"] = run] /\ cfg' = cfg
  OBVIOUS
<1> HIDE DEF run
<1>6. /\ job' \in [Workers -> Job] /\ JobsCurrent'
      /\ \A v \in Workers : v # "diagnosis" => job'[v] = job[v]
  BY <1>1, <1>4, <1>5, ReplaceJob
<1>7. TypeOK' /\ KnownPresent'
  BY <1>6 DEF TypeOK, KnownPresent, Present
<1>8. HoldersCheck'
  BY <1>6, NodeMonitorAssumption
     DEF HoldersCheck, TypeOK, Workers, CheckWorkers
<1>9. EvidenceHeld'
  BY DEF EvidenceHeld
<1> QED
  BY <1>6, <1>7, <1>8, <1>9

LEMMA JobRecord ==
  ASSUME NEW j \in Job, NEW pending \in SUBSET Nodes, NEW targets \in Targets
  PROVE  [j EXCEPT !.pending = pending, !.targets = targets]
           = [phase |-> j.phase, targets |-> targets, pending |-> pending]
<1> DEFINE a == [j EXCEPT !.pending = pending]
           b == [a EXCEPT !.targets = targets]
<1>1. /\ a \in Job /\ a.pending = pending /\ a.phase = j.phase
      /\ b = [j EXCEPT !.pending = pending, !.targets = targets]
  BY DEF Job
<1> HIDE DEF a
<1>2. b \in Job /\ b.pending = pending /\ b.phase = j.phase
      /\ b.targets = targets
  BY <1>1 DEF Job
<1> HIDE DEF b
<1>3. b = [phase |-> j.phase, targets |-> targets, pending |-> pending]
  BY <1>2 DEF Job
<1> QED
  BY <1>1, <1>3

(* A binding leaves the diagnosis.                                         *)
LEMMA DropTarget ==
  ASSUME TypeInv, NEW n \in Nodes, NEW pending \in SUBSET Nodes,
         pending \subseteq job["diagnosis"].pending \ {n},
         job["diagnosis"].phase = "checking"
  PROVE  LET dropped == [job["diagnosis"] EXCEPT !.pending = pending,
                                                 !.targets[n] = Absent]
         IN /\ dropped \in Job /\ JobFits(dropped)
            /\ dropped.pending = pending /\ dropped.phase = "checking"
            /\ Named(dropped.targets) =
                 Named(job["diagnosis"].targets) \ {n}
<1> DEFINE d == job["diagnosis"]
           targets == [d.targets EXCEPT ![n] = Absent]
           dropped == [d EXCEPT !.pending = pending, !.targets[n] = Absent]
<1>1. d \in Job /\ JobFits(d) /\ d.targets \in Targets
  BY DEF TypeInv, TypeOK, JobsCurrent, Workers, Job
<1>2. targets \in Targets /\ Named(targets) = Named(d.targets) \ {n}
  BY <1>1 DEF Targets, Named
<1>3. dropped = [phase |-> "checking", targets |-> targets,
                 pending |-> pending]
  <2>1. dropped = [[d EXCEPT !.pending = pending] EXCEPT !.targets = targets]
    BY <1>1 DEF Job
  <2> HIDE DEF targets, dropped
  <2> QED
    BY <1>1, <1>2, <2>1, JobRecord
<1>4. \A m \in Nodes : targets[m] \in {Absent, cfg[m]}
  BY <1>1 DEF JobFits, Targets
<1>5. pending \subseteq Named(targets)
  BY <1>1, <1>2 DEF JobFits
<1> HIDE DEF targets, d, dropped
<1>6. dropped \in Job /\ JobFits(dropped)
  BY <1>2, <1>3, <1>4, <1>5 DEF Job, JobFits
<1> QED
  BY <1>2, <1>3, <1>6 DEF d, dropped

LEMMA TypeProbeBinding ==
  ASSUME TypeInv, NEW n \in Nodes, NEW kind \in Kinds, ProbeBinding(n, kind)
  PROVE  TypeInv'
<1> DEFINE d == job["diagnosis"]
<1> USE DEF TypeInv, ProbeBinding
<1>1. "diagnosis" \in Workers /\ d.pending \in SUBSET Nodes
      /\ d.phase = "checking"
  BY DEF Workers, TypeOK, Job, JobsCurrent, JobFits
<1>2. CASE kind = "fail"
  <2> DEFINE dropped == [d EXCEPT !.pending = d.pending \ {n},
                                  !.targets[n] = Absent]
  <2>1. /\ dropped \in Job /\ JobFits(dropped)
        /\ dropped.pending = d.pending \ {n} /\ dropped.phase = "checking"
        /\ Named(dropped.targets) = Named(d.targets) \ {n}
    BY <1>1, DropTarget
  <2>2. job' = [job EXCEPT !["diagnosis"] = dropped] /\ cfg' = cfg
    BY <1>2 DEF TypeOK
  <2> HIDE DEF dropped
  <2>3. /\ job' \in [Workers -> Job] /\ JobsCurrent'
        /\ job'["diagnosis"] = dropped
        /\ \A v \in Workers : v # "diagnosis" => job'[v] = job[v]
    BY <1>1, <2>1, <2>2, ReplaceJob
  <2>4. TypeOK' /\ KnownPresent'
    BY <1>2, <2>3 DEF TypeOK, KnownPresent, Present
  <2>5. HoldersCheck'
    BY <2>3, NodeMonitorAssumption
       DEF HoldersCheck, TypeOK, Workers, CheckWorkers
  <2>6. \A m \in Nodes : evidence[m] # NoResult => m # n
    BY DEF EvidenceHeld
  <2>7. EvidenceHeld'
    BY <1>2, <2>1, <2>3, <2>6 DEF EvidenceHeld, Named
  <2> QED
    BY <2>3, <2>4, <2>5, <2>7
<1>3. CASE kind # "fail"
  <2> DEFINE dropped == [d EXCEPT !.pending = @ \ {n}]
  <2>1. /\ dropped \in Job /\ JobFits(dropped)
        /\ dropped.pending = d.pending \ {n} /\ dropped.phase = "checking"
        /\ dropped.targets = d.targets /\ d.targets[n] = cfg[n]
        /\ cfg[n] \in Revs
    BY <1>1, DropPending
  <2>2. job' = [job EXCEPT !["diagnosis"] = dropped] /\ cfg' = cfg
    BY <1>3
  <2> HIDE DEF dropped
  <2>3. /\ job' \in [Workers -> Job] /\ JobsCurrent'
        /\ job'["diagnosis"] = dropped
        /\ \A v \in Workers : v # "diagnosis" => job'[v] = job[v]
    BY <1>1, <2>1, <2>2, ReplaceJob
  <2>4. clock \in Nat /\ clock' \in Past..MaxClock /\ clock + 1 \in Nat
    BY <1>3, NodeMonitorAssumption DEF TypeOK
  <2>5. [kind |-> kind, at |-> clock + 1] \in Evidence
    BY <1>3, <2>4 DEF Evidence, Kinds
  <2>6. evidence' = [evidence EXCEPT ![n] =
                       [kind |-> kind, at |-> clock + 1]]
    BY <1>3
  <2>7. evidence' \in [Nodes -> Evidence \cup {NoResult}]
    BY <2>5, <2>6 DEF TypeOK
  <2>8. TypeOK' /\ KnownPresent'
    BY <2>3, <2>4, <2>7 DEF TypeOK, KnownPresent, Present
  <2>9. HoldersCheck'
    BY <2>3, NodeMonitorAssumption
       DEF HoldersCheck, TypeOK, Workers, CheckWorkers
  <2>10. n \in Named(d.targets)
    BY <1>1 DEF JobsCurrent, JobFits
  <2>11. EvidenceHeld'
    BY <2>1, <2>3, <2>6, <2>10 DEF EvidenceHeld, TypeOK, Named
  <2> QED
    BY <2>3, <2>8, <2>9, <2>11
<1> QED
  BY <1>2, <1>3

(* What is promoted was measured through the node's present connection.    *)
LEMMA PromotedTypes ==
  ASSUME TypeInv, NEW n \in Nodes, evidence[n] # NoResult
  PROVE  /\ evidence[n] \in Evidence
         /\ job["diagnosis"].phase = "checking"
         /\ job["diagnosis"].targets[n] = cfg[n] /\ cfg[n] \in Revs
         /\ [kind |-> evidence[n].kind, at |-> evidence[n].at,
             rev |-> job["diagnosis"].targets[n]] \in Result
<1> USE DEF TypeInv
<1>1. evidence[n] \in Evidence /\ job["diagnosis"].phase = "checking"
  BY DEF TypeOK, EvidenceHeld
<1>2. job["diagnosis"].targets[n] = cfg[n] /\ cfg[n] \in Revs
  BY DEF TypeOK, EvidenceHeld, JobsCurrent, JobFits, Named, Workers, Targets
<1>3. evidence[n].kind \in Kinds /\ evidence[n].at \in Nat
  BY <1>1 DEF Evidence, Kinds
<1> QED
  BY <1>1, <1>2, <1>3 DEF Result

LEMMA TypePromoteEvidence ==
  ASSUME TypeInv, NEW n \in Nodes, PromoteEvidence(n)
  PROVE  TypeInv'
<1> DEFINE d == job["diagnosis"]
<1> USE DEF TypeInv, PromoteEvidence
<1>1. "diagnosis" \in Workers
  BY DEF Workers
<1>2. evidence' \in [Nodes -> Evidence \cup {NoResult}]
      /\ evidence'[n] = NoResult
      /\ \A m \in Nodes : evidence'[m] # NoResult =>
           m # n /\ evidence[m] # NoResult
  BY DEF TypeOK
<1>3. CASE Superseded(n)
  <2> DEFINE dropped == [d EXCEPT !.targets[n] = Absent]
             also == [d EXCEPT !.pending = d.pending, !.targets[n] = Absent]
  <2>1. d \in Job /\ d.pending = {}
    BY <1>1 DEF TypeOK
  <2>2. dropped = also
    BY <2>1 DEF Job
  <2>3. /\ also \in Job /\ JobFits(also)
        /\ also.pending = {} /\ also.phase = "checking"
        /\ Named(also.targets) = Named(d.targets) \ {n}
    BY <2>1, DropTarget
  <2>4. job' = [job EXCEPT !["diagnosis"] = dropped] /\ cfg' = cfg
    BY <1>3 DEF TypeOK
  <2> HIDE DEF dropped, also
  <2>5. /\ job' \in [Workers -> Job] /\ JobsCurrent'
        /\ job'["diagnosis"] = dropped
        /\ \A v \in Workers : v # "diagnosis" => job'[v] = job[v]
    BY <1>1, <2>2, <2>3, <2>4, ReplaceJob
  <2>6. TypeOK' /\ KnownPresent'
    BY <1>2, <1>3, <2>5 DEF TypeOK, KnownPresent, Present
  <2>7. HoldersCheck'
    BY <2>5, NodeMonitorAssumption
       DEF HoldersCheck, TypeOK, Workers, CheckWorkers
  <2>8. EvidenceHeld'
    BY <1>2, <2>2, <2>3, <2>5 DEF EvidenceHeld, Named
  <2> QED
    BY <2>5, <2>6, <2>7, <2>8
<1>4. CASE ~Superseded(n)
  <2>1. results' \in [Nodes -> Result \cup {NoResult}]
    BY <1>4, PromotedTypes DEF TypeOK
  <2>2. UNCHANGED <<clock, cfg, monitor, job, holder, refresh, log>>
    BY <1>4
  <2>3. TypeOK' /\ KnownPresent'
    BY <1>2, <2>1, <2>2 DEF TypeOK, KnownPresent, Present
  <2>4. JobsCurrent' /\ HoldersCheck'
    BY <2>2 DEF JobsCurrent, JobFits, Named, HoldersCheck
  <2>5. EvidenceHeld'
    BY <1>2, <2>2 DEF EvidenceHeld, Named
  <2> QED
    BY <2>3, <2>4, <2>5
<1> QED
  BY <1>3, <1>4

(* The subscription updater.                                               *)
LEMMA UpdateTypes ==
  ASSUME TypeInv, NEW n \in Nodes, NEW new \in Targets
  PROVE  /\ UpdateNode(n, new) \in Node \cup {NoNode}
         /\ UpdateLog(n, new) \in Log
         /\ new[n] # Absent => UpdateNode(n, new) # NoNode
         /\ StateMatchesCounters /\ UpdateNode(n, new) # NoNode
              => CountersFit(UpdateNode(n, new))
         /\ \/ UpdateNode(n, new) = monitor[n]
            \/ UpdateNode(n, new) \in Node /\ UpdateNode(n, new).wait = 0
         /\ monitor[n] # NoNode =>
              UpdateNode(n, new).lastResultAt = monitor[n].lastResultAt
         /\ monitor[n] = NoNode /\ UpdateNode(n, new) # NoNode =>
              UpdateNode(n, new).lastResultAt = 0
<1> USE DEF TypeInv
<1>1. /\ clock + 1 \in Nat /\ monitor[n] \in Node \cup {NoNode}
      /\ log[n] \in Log /\ new[n] \in Revs \cup {Absent}
      /\ cfg[n] # Absent => monitor[n] # NoNode
      /\ StateMatchesCounters /\ monitor[n] # NoNode =>
           CountersFit(monitor[n])
  BY NodeMonitorAssumption
     DEF TypeOK, Targets, KnownPresent, Present, Named,
         StateMatchesCounters, Known
<1>2. CASE Added(n, new) /\ monitor[n] = NoNode
  <2>1. /\ UpdateNode(n, new) = NewNode(new[n])
        /\ UpdateLog(n, new) = EmptyLog("new", "unknown", clock + 1)
        /\ new[n] \in Revs /\ "unknown" \in States
    BY <1>1, <1>2 DEF UpdateNode, UpdateLog, Added, States
  <2>2. NewNode(new[n]).wait = 0 /\ NewNode(new[n]).lastResultAt = 0
    BY DEF NewNode
  <2> QED
    BY <1>1, <1>2, <2>1, <2>2, NewNodeFits, EmptyLogTypes,
       NodeMonitorAssumption
<1>3. CASE Changed(n, new) \/ ReturnedChanged(n, new)
  <2> DEFINE marked == MarkRevisionChanged(monitor[n], new[n], clock + 1)
  <2>1. monitor[n] \in Node /\ monitor[n] # NoNode /\ new[n] \in Revs
    BY <1>1, <1>3 DEF Changed, ReturnedChanged, Added
  <2>2. /\ UpdateNode(n, new) = marked
        /\ UpdateLog(n, new) = EmptyLog("reload", marked.state, clock + 1)
    BY <1>3, <2>1 DEF UpdateNode, UpdateLog
  <2>3. /\ marked \in Node /\ CountersFit(marked) /\ marked.wait = 0
        /\ marked.lastResultAt = monitor[n].lastResultAt
    BY <1>1, <2>1, MarkFits
  <2> HIDE DEF marked
  <2>4. marked.state \in States
    BY <2>3 DEF Node
  <2> QED
    BY <1>1, <2>1, <2>2, <2>3, <2>4, EmptyLogTypes, NodeMonitorAssumption
<1>4. CASE /\ Added(n, new) /\ monitor[n] # NoNode
           /\ ~(Changed(n, new) \/ ReturnedChanged(n, new))
  <2>1. /\ UpdateNode(n, new) = Returned(monitor[n], new[n])
        /\ UpdateLog(n, new) = log[n]
        /\ new[n] \in Revs /\ monitor[n] \in Node
    BY <1>1, <1>4 DEF UpdateNode, UpdateLog, Added
  <2>2. LET back == Returned(monitor[n], new[n])
        IN /\ back \in Node
           /\ CountersFit(monitor[n]) => CountersFit(back)
           /\ back.wait = 0 /\ back.lastResultAt = monitor[n].lastResultAt
    BY <2>1, ReturnedFits
  <2> QED
    BY <1>1, <1>4, <2>1, <2>2, NodeMonitorAssumption
<1>5. CASE ~Added(n, new) /\ ~(Changed(n, new) \/ ReturnedChanged(n, new))
  <2>1. UpdateNode(n, new) = monitor[n] /\ UpdateLog(n, new) = log[n]
    BY <1>5 DEF UpdateNode, UpdateLog
  <2>2. new[n] # Absent => cfg[n] # Absent
    BY <1>5 DEF Added
  <2> QED
    BY <1>1, <2>1, <2>2
<1> QED
  BY <1>2, <1>3, <1>4, <1>5

LEMMA TypeReload ==
  ASSUME TypeInv, NEW new \in Targets, Reload(new)
  PROVE  TypeInv'
<1> DEFINE S == {n \in Nodes : Added(n, new) \/ Changed(n, new)}
           queued == Queued(Capture(new, S))
<1> USE DEF TypeInv, Reload
<1>1. \A w \in Workers : job[w].phase # "checking" /\ job[w].pending = {}
  BY DEF ChecksPaused, JobsCurrent, JobFits
<1>2. queued \in Job /\ queued.phase = "queued" /\ queued.pending = {}
  BY CaptureTypes DEF Queued
<1>3. job' \in {job, [job EXCEPT !["update"] = queued]}
  OBVIOUS
<1> HIDE DEF queued, S
<1>4. /\ job' \in [Workers -> Job]
      /\ \A w \in Workers : job'[w].phase # "checking" /\ job'[w].pending = {}
  BY <1>1, <1>2, <1>3 DEF TypeOK
<1>5. clock' \in Past..MaxClock
  BY NodeMonitorAssumption DEF TypeOK
<1>6. /\ monitor' \in [Nodes -> Node \cup {NoNode}]
      /\ log' \in [Nodes -> Log]
  BY UpdateTypes
<1>7. results' \in [Nodes -> Result \cup {NoResult}]
  BY DEF TypeOK
<1>8. TypeOK'
  BY <1>4, <1>5, <1>6, <1>7 DEF TypeOK
<1>9. KnownPresent'
  BY UpdateTypes DEF KnownPresent, Present, Named
<1>10. JobsCurrent'
  BY <1>4 DEF JobsCurrent, JobFits, Named
<1>11. HoldersCheck'
  BY <1>1, NodeMonitorAssumption
  DEF HoldersCheck, TypeOK, CheckWorkers, Workers
<1>12. EvidenceHeld'
  BY <1>1 DEF EvidenceHeld, Workers
<1> QED
  BY <1>8, <1>9, <1>10, <1>11, <1>12

LEMMA TypeStutter ==
  ASSUME TypeInv, UNCHANGED vars
  PROVE  TypeInv'
BY DEF TypeInv, vars, TypeOK, KnownPresent, Present, Named, JobsCurrent,
       JobFits, HoldersCheck, EvidenceHeld

(* A node is asked to be checked at once.                                  *)
LEMMA AtOnce ==
  ASSUME NEW node \in Node
  PROVE  LET now == [node EXCEPT !.wait = 0]
         IN /\ now \in Node
            /\ CountersFit(node) => CountersFit(now)
            /\ now.wait = 0 /\ now.lastResultAt = node.lastResultAt
<1> DEFINE now == [node EXCEPT !.wait = 0]
<1>1. 0 \in Waits
  BY Assigned
<1>2. now \in Node
  BY <1>1, ZenonT(60) DEF Node
<1>3. /\ now.state = node.state /\ now.failures = node.failures
      /\ now.successes = node.successes /\ now.wait = 0
      /\ now.lastResultAt = node.lastResultAt
  BY DEF Node
<1> HIDE DEF now
<1>4. CountersFit(node) => CountersFit(now)
  BY <1>3 DEF CountersFit
<1> QED
  BY <1>2, <1>3, <1>4 DEF now

LEMMA TypeQueueEndpointValidation ==
  ASSUME TypeInv, NEW S \in SUBSET Nodes, QueueEndpointValidation(S)
  PROVE  TypeInv'
<1> USE DEF TypeInv, QueueEndpointValidation
<1>1. \A n \in S : /\ monitor[n] \in Node
                   /\ [monitor[n] EXCEPT !.wait = 0] \in Node
  BY AtOnce DEF TypeOK
<1>2. monitor' \in [Nodes -> Node \cup {NoNode}]
  BY <1>1 DEF TypeOK
<1>3. TypeOK'
  BY <1>2 DEF TypeOK
<1>4. KnownPresent'
  BY <1>1, NodeMonitorAssumption DEF KnownPresent, Present, Named
<1> QED
  BY <1>3, <1>4 DEF JobsCurrent, JobFits, HoldersCheck, EvidenceHeld, Named

LEMMA TypePruneStaleResults ==
  ASSUME TypeInv, PruneStaleResults
  PROVE  TypeInv'
<1> USE DEF TypeInv, PruneStaleResults
<1>1. TypeOK'
  BY DEF TypeOK
<1> QED
  BY <1>1 DEF KnownPresent, Present, Named, JobsCurrent, JobFits,
              HoldersCheck, EvidenceHeld

(* A node of the subscription is resolved to a node.                       *)
LEMMA ResolvedTypes ==
  ASSUME TypeInv, NEW n \in Present, NEW answer \in Answers
  PROVE  /\ n \in Nodes /\ clock + 1 \in Nat /\ monitor[n] \in Node
         /\ IPsOf(n, answer) \in IPs \cup {NoIPs}
         /\ ResolveNode(monitor[n], IPsOf(n, answer), clock + 1) \in Node
<1> USE DEF TypeInv
<1>1. /\ n \in Nodes /\ cfg[n] \in Revs /\ monitor[n] \in Node
      /\ clock + 1 \in Nat
  BY NodeMonitorAssumption DEF TypeOK, KnownPresent, Present, Named, Targets
<1>2. IPsOf(n, answer) \in IPs \cup {NoIPs}
  BY <1>1, NodeStateAssumption DEF IPsOf, Answers
<1> QED
  BY <1>1, <1>2, ResolveFits

LEMMA TypeRefreshResolvedIPs ==
  ASSUME TypeInv, NEW answer \in Answers, RefreshResolvedIPs(answer)
  PROVE  TypeInv'
<1> DEFINE moved == {n \in Present : DNSMoves(monitor[n], IPsOf(n, answer))}
           queued == Queued(Capture(cfg, moved))
<1> USE DEF RefreshResolvedIPs
<1>1. queued \in Job /\ JobFits(queued) /\ queued.pending = {}
  BY CaptureTypes DEF TypeInv, Queued, JobFits, TypeOK, Present, Named
<1>2. /\ job' = [job EXCEPT !["update"] = queued] \/ job' = job
      /\ cfg' = cfg
  OBVIOUS
<1>3. clock' \in Past..MaxClock
  BY NodeMonitorAssumption DEF TypeInv, TypeOK
<1>4. monitor' \in [Nodes -> Node \cup {NoNode}]
  BY ResolvedTypes DEF TypeInv, TypeOK
<1>5. log' \in [Nodes -> Log]
  BY ResolvedTypes, EmptyLogTypes, Assigned DEF TypeInv, TypeOK
<1>6. KnownPresent'
  BY ResolvedTypes, NodeMonitorAssumption
     DEF TypeInv, KnownPresent, Present, Named
<1>. /\ job["update"].phase = "idle"
     /\ UNCHANGED <<cfg, results, holder, evidence, refresh>>
  OBVIOUS
<1> USE DEF TypeInv
<1> HIDE DEF RefreshResolvedIPs
<1>7. "update" \in Workers /\ job["update"].pending = {}
  <2>1. "update" \in Workers
    BY DEF Workers, CheckWorkers
  <2>2. JobFits(job["update"])
    BY <2>1 DEF JobsCurrent
  <2> QED
    BY <2>1, <2>2 DEF JobFits
<1>8. CASE job' = job
  <2>1. JobsCurrent' /\ HoldersCheck' /\ EvidenceHeld'
    BY <1>2, <1>8 DEF JobsCurrent, JobFits, Named, HoldersCheck, EvidenceHeld
  <2> QED
    BY <1>3, <1>4, <1>5, <1>6, <1>8, <2>1 DEF TypeOK
<1>9. CASE job' = [job EXCEPT !["update"] = queued]
  <2> HIDE DEF queued
  <2>1. /\ job' \in [Workers -> Job] /\ JobsCurrent'
        /\ \A v \in Workers : v # "update" => job'[v] = job[v]
    BY <1>1, <1>2, <1>7, <1>9, ReplaceJob
  <2>2. TypeOK'
    BY <1>3, <1>4, <1>5, <2>1 DEF TypeOK
  <2>3. HoldersCheck'
    BY <1>7, <2>1, NodeMonitorAssumption
       DEF HoldersCheck, TypeOK, CheckWorkers, Workers
  <2>4. EvidenceHeld'
    BY <2>1 DEF EvidenceHeld, Workers, Named
  <2> QED
    BY <1>6, <2>1, <2>2, <2>3, <2>4
<1> QED
  BY <1>2, <1>8, <1>9

LEMMA TypeNext == TypeInv /\ [Next]_vars => TypeInv'
<1> SUFFICES ASSUME TypeInv, [Next]_vars PROVE TypeInv'
  OBVIOUS
<1>1. ASSUME NEW w \in CheckWorkers, RunCheckSet(w) PROVE TypeInv'
  BY <1>1, TypeQueueChecks, TypeEnterRuntime, TypeGiveUp, TypeBeginCheck,
     TypeFinishCheck, TypeRecordResults DEF RunCheckSet, CheckWorkers, Workers
<1>2. ASSUME Diagnose PROVE TypeInv'
  BY <1>2, TypeStartDiagnosis, TypeProbeBinding, TypePromoteEvidence,
     TypeRecordResults DEF Diagnose, Workers
<1>3. ASSUME Refresh PROVE TypeInv'
  BY <1>3, TypeReload, TypePruneStaleResults,
     TypeRefreshResolvedIPs DEF Refresh
<1> QED
  BY <1>1, <1>2, <1>3, TypeStutter, TypeQueueEndpointValidation DEF Next

LEMMA TypesAlways == Spec => []TypeInv
<1> QED
  BY TypeInit, TypeNext, PTL DEF Spec

(* Every variable keeps its type, through every interleaving of checks,    *)
(* diagnosis, reloads and DNS refreshes.                                   *)
THEOREM NodeMonitorTypes == Spec => []TypeOK
<1>1. TypeInv => TypeOK
  BY DEF TypeInv
<1> QED
  BY <1>1, TypesAlways, PTL

-----------------------------------------------------------------------------
(* The repair state.                                                       *)

(* Four kinds of step write the monitor.                                   *)
LEMMA MonitorWriters ==
  ASSUME [Next]_vars
  PROVE  \/ UNCHANGED <<monitor, log>>
         \/ \E w \in Workers : RecordResults(w)
         \/ \E new \in Targets : Reload(new)
         \/ \E answer \in Answers : RefreshResolvedIPs(answer)
         \/ \E S \in SUBSET Nodes : QueueEndpointValidation(S)
<1>1. ASSUME NEW w \in CheckWorkers, RunCheckSet(w)
      PROVE  \/ UNCHANGED <<monitor, log>>
             \/ \E v \in Workers : RecordResults(v)
  BY <1>1 DEF RunCheckSet, QueueChecks, EnterRuntime, GiveUp, BeginCheck,
       FinishCheck, Workers
<1>2. ASSUME Diagnose
      PROVE  \/ UNCHANGED <<monitor, log>>
             \/ \E v \in Workers : RecordResults(v)
  BY <1>2 DEF Diagnose, StartDiagnosis, ProbeBinding, PromoteEvidence, Workers
<1>3. ASSUME Refresh
      PROVE  \/ UNCHANGED <<monitor, log>>
             \/ \E new \in Targets : Reload(new)
             \/ \E answer \in Answers : RefreshResolvedIPs(answer)
  BY <1>3 DEF Refresh, PruneStaleResults
<1> QED
  BY <1>1, <1>2, <1>3 DEF Next, vars

StatesFit == StateMatchesCounters /\ CadenceMatchesState

(* Every node the monitor knows starts as the files may leave it.          *)
LEMMA StartsRestorable ==
  ASSUME Init, NEW n \in Nodes, Known(n)
  PROVE  /\ Restorable(monitor[n])
         /\ monitor[n].changedAt <= Past /\ monitor[n].lastResultAt <= Past
<1>1. /\ cfg[n] \in Revs \cup {Absent}
      /\ results[n] \in {NoResult} \cup Restored(cfg[n])
  BY DEF Init, Targets
<1>2. PICK saved \in [Nodes -> Saved \cup {NoNode}] :
        monitor = [m \in Nodes |-> StartNode(cfg[m], saved[m], results[m])]
  BY DEF Init
<1>3. saved[n] \in Saved \cup {NoNode}
      /\ monitor[n] = StartNode(cfg[n], saved[n], results[n])
  BY <1>2
<1> QED
  BY <1>1, <1>3, StartFits DEF Known

LEMMA StatesInit == Init => StatesFit
BY StartsRestorable
   DEF StatesFit, StateMatchesCounters, CadenceMatchesState, Restorable

LEMMA StatesNext == TypeInv /\ StatesFit /\ [Next]_vars => StatesFit'
<1> SUFFICES ASSUME TypeInv, StatesFit, [Next]_vars,
                    NEW n \in Nodes, Known(n)'
             PROVE  /\ CountersFit(monitor'[n])
                    /\ monitor'[n].wait \in {0, Cadence(monitor'[n])}
  BY DEF StatesFit, StateMatchesCounters, CadenceMatchesState
<1>1. Known(n) => /\ CountersFit(monitor[n])
                  /\ monitor[n].wait \in {0, Cadence(monitor[n])}
  BY DEF StatesFit, StateMatchesCounters, CadenceMatchesState
<1>2. CASE monitor'[n] = monitor[n]
  BY <1>1, <1>2 DEF Known
<1>3. ASSUME NEW w \in Workers, RecordResults(w), monitor'[n] # monitor[n]
      PROVE  /\ CountersFit(monitor'[n])
             /\ monitor'[n].wait \in {0, Cadence(monitor'[n])}
  <2>1. /\ n \in Named(job[w].targets) /\ IsNews(n)
        /\ monitor'[n] = ApplyResult(monitor[n], results[n])
    BY <1>3 DEF RecordResults
  <2>2. monitor[n] \in Node /\ results[n] \in Result
    BY <1>3, <2>1, NewsOfKnown DEF RecordResults
  <2>3. LET counted == ApplyResult(monitor[n], results[n])
        IN /\ CountersFit(monitor[n]) => CountersFit(counted)
           /\ counted.wait = Cadence(counted)
    BY <2>2, ApplyFits
  <2>4. Known(n)
    BY <2>2, NodeMonitorAssumption DEF Known
  <2> QED
    BY <1>1, <2>1, <2>3, <2>4
<1>4. ASSUME NEW new \in Targets, Reload(new), monitor'[n] # monitor[n]
      PROVE  /\ CountersFit(monitor'[n])
             /\ monitor'[n].wait \in {0, Cadence(monitor'[n])}
  <2>1. monitor'[n] = UpdateNode(n, new)
    BY <1>4 DEF Reload
  <2>2. UpdateNode(n, new) # NoNode /\ StateMatchesCounters
    BY <2>1 DEF Known, StatesFit
  <2> QED
    BY <1>4, <2>1, <2>2, UpdateTypes
<1>5. ASSUME NEW answer \in Answers, RefreshResolvedIPs(answer),
             monitor'[n] # monitor[n]
      PROVE  /\ CountersFit(monitor'[n])
             /\ monitor'[n].wait \in {0, Cadence(monitor'[n])}
  <2> DEFINE ips == IPsOf(n, answer)
             new == ResolveNode(monitor[n], ips, clock + 1)
  <2>1. monitor'[n] = new /\ n \in Present
    BY <1>5 DEF RefreshResolvedIPs
  <2>2. /\ monitor[n] \in Node /\ ips \in IPs \cup {NoIPs}
        /\ clock + 1 \in Nat
    BY <2>1, ResolvedTypes
  <2>3. /\ CountersFit(monitor[n]) => CountersFit(new)
        /\ \/ new.wait = 0
           \/ new.wait = monitor[n].wait /\ Cadence(new) = Cadence(monitor[n])
    BY <2>2, ResolveFits
  <2>4. Known(n)
    BY <2>2, NodeMonitorAssumption DEF Known
  <2> HIDE DEF new
  <2> QED
    BY <1>1, <2>1, <2>3, <2>4
<1>6. ASSUME NEW S \in SUBSET Nodes, QueueEndpointValidation(S),
             monitor'[n] # monitor[n]
      PROVE  /\ CountersFit(monitor'[n])
             /\ monitor'[n].wait \in {0, Cadence(monitor'[n])}
  <2>1. /\ monitor'[n] = [monitor[n] EXCEPT !.wait = 0]
        /\ monitor[n] \in Node /\ Known(n)
    BY <1>6 DEF QueueEndpointValidation, TypeInv, TypeOK, Known
  <2> QED
    BY <1>1, <2>1, AtOnce
<1> QED
  BY <1>2, <1>3, <1>4, <1>5, <1>6, MonitorWriters

LEMMA StatesAlways == Spec => []StatesFit
<1> QED
  BY TypesAlways, StatesInit, StatesNext, PTL DEF Spec

(* A node's state always agrees with its counters (README, Monitor states).*)
THEOREM StatesMatchCounters == Spec => []StateMatchesCounters
<1>1. StatesFit => StateMatchesCounters
  BY DEF StatesFit
<1> QED
  BY <1>1, StatesAlways, PTL

(* The delay to the next check is always the one of the schedule table.    *)
THEOREM CadenceMatches == Spec => []CadenceMatchesState
<1>1. StatesFit => CadenceMatchesState
  BY DEF StatesFit
<1> QED
  BY <1>1, StatesAlways, PTL

-----------------------------------------------------------------------------
(* The provenance of stored results.                                       *)

LEMMA ResultWriters ==
  ASSUME [Next]_vars
  PROVE  \/ UNCHANGED <<results, cfg, refresh>>
         \/ \E w \in CheckWorkers, n \in Nodes, kind \in Kinds :
              FinishCheck(w, n, kind)
         \/ \E n \in Nodes : PromoteEvidence(n)
         \/ \E new \in Targets : Reload(new)
         \/ PruneStaleResults
<1>1. ASSUME NEW w \in CheckWorkers, RunCheckSet(w)
      PROVE  \/ UNCHANGED <<results, cfg, refresh>>
             \/ \E n \in Nodes, kind \in Kinds : FinishCheck(w, n, kind)
  BY <1>1 DEF RunCheckSet, QueueChecks, EnterRuntime, GiveUp, BeginCheck,
       RecordResults
<1>2. ASSUME Diagnose
      PROVE  \/ UNCHANGED <<results, cfg, refresh>>
             \/ \E n \in Nodes : PromoteEvidence(n)
  BY <1>2 DEF Diagnose, StartDiagnosis, ProbeBinding, RecordResults
<1>3. ASSUME \/ \E answer \in Answers : RefreshResolvedIPs(answer)
             \/ \E S \in SUBSET Nodes : QueueEndpointValidation(S)
      PROVE  UNCHANGED <<results, cfg, refresh>>
  BY <1>3 DEF RefreshResolvedIPs, QueueEndpointValidation
<1> QED
  BY <1>1, <1>2, <1>3 DEF Next, Refresh, vars

LEMMA ProvenanceInit == Init => ResultsMatchRevision /\ PrunedResults
BY NodeMonitorAssumption
   DEF Init, Restored, ResultsMatchRevision, PrunedResults, Present, Named

LEMMA ProvenanceNext ==
  TypeInv /\ ResultsMatchRevision /\ PrunedResults /\ [Next]_vars
    => ResultsMatchRevision' /\ PrunedResults'
<1> SUFFICES ASSUME TypeInv, ResultsMatchRevision, PrunedResults, [Next]_vars
             PROVE  ResultsMatchRevision' /\ PrunedResults'
  OBVIOUS
<1> USE DEF ResultsMatchRevision, PrunedResults, Present, Named
<1>1. CASE UNCHANGED <<results, cfg, refresh>>
  BY <1>1
<1>2. ASSUME NEW w \in CheckWorkers, NEW n \in Nodes, NEW kind \in Kinds,
             FinishCheck(w, n, kind)
      PROVE  ResultsMatchRevision' /\ PrunedResults'
  <2>1. w \in Workers /\ n \in job[w].pending
    BY <1>2, NodeMonitorAssumption
       DEF CheckWorkers, Workers, FinishCheck, TypeInv, HoldersCheck
  <2>2. job[w].targets[n] = cfg[n] /\ cfg[n] \in Revs
    BY <2>1, DropPending
  <2>3. cfg[n] # Absent /\ results \in [Nodes -> Result \cup {NoResult}]
    BY <2>2, NodeMonitorAssumption DEF TypeInv, TypeOK
  <2> QED
    BY <1>2, <2>2, <2>3 DEF FinishCheck
<1>3. ASSUME NEW n \in Nodes, PromoteEvidence(n)
      PROVE  ResultsMatchRevision' /\ PrunedResults'
  <2>1. job["diagnosis"].targets[n] = cfg[n] /\ cfg[n] \in Revs
    BY <1>3, PromotedTypes DEF PromoteEvidence
  <2>2. cfg[n] # Absent /\ results \in [Nodes -> Result \cup {NoResult}]
    BY <2>1, NodeMonitorAssumption DEF TypeInv, TypeOK
  <2> QED
    BY <1>3, <2>1, <2>2 DEF PromoteEvidence
<1>4. ASSUME NEW new \in Targets, Reload(new)
      PROVE  ResultsMatchRevision' /\ PrunedResults'
  BY <1>4 DEF Reload, Changed
<1>5. ASSUME PruneStaleResults
      PROVE  ResultsMatchRevision' /\ PrunedResults'
  BY <1>5 DEF PruneStaleResults
<1> QED
  BY <1>1, <1>2, <1>3, <1>4, <1>5, ResultWriters

LEMMA ProvenanceAlways == Spec => [](ResultsMatchRevision /\ PrunedResults)
<1> QED
  BY TypesAlways, ProvenanceInit, ProvenanceNext, PTL DEF Spec

(* Every stored outcome was measured on the connection the node has now,   *)
(* however checks, diagnosis and reloads interleave.                       *)
THEOREM ResultsKeepRevision == Spec => []ResultsMatchRevision
<1> QED
  BY ProvenanceAlways, PTL

-----------------------------------------------------------------------------
(* The store and the history are a mailbox.                                *)

(* The times of the outcome in the store, of the last one counted, and of  *)
(* the evidence of a running diagnosis; 0 for none.                        *)
StoredAt(n) == IF results[n] = NoResult THEN 0 ELSE results[n].at
TakenAt(n) == IF monitor[n] = NoNode THEN 0 ELSE monitor[n].lastResultAt
FoundAt(n) == IF evidence[n] = NoResult THEN 0 ELSE evidence[n].at

(* Nothing is counted that is newer than what was stored since the start,  *)
(* and no evidence was measured when something stored or counted was.      *)
Ordered(n) ==
  /\ StoredAt(n) \in 0..clock
  /\ TakenAt(n) \in 0..clock
  /\ StoredAt(n) > Past => TakenAt(n) <= StoredAt(n)
  /\ evidence[n] # NoResult =>
       /\ FoundAt(n) \in (Past + 1)..clock
       /\ StoredAt(n) # FoundAt(n)
       /\ StoredAt(n) <= Past => TakenAt(n) < FoundAt(n)

TimesOrdered == \A n \in Nodes : Ordered(n)

(* What a step does to the times of one node.                              *)
Stays(n) ==
  /\ StoredAt(n)' = StoredAt(n) /\ TakenAt(n)' = TakenAt(n)
  /\ evidence'[n] \in {evidence[n], NoResult}
  /\ clock' \in {clock, clock + 1}

Measured(n) ==
  /\ StoredAt(n)' = clock + 1 /\ TakenAt(n)' = TakenAt(n)
  /\ evidence'[n] = evidence[n]
  /\ clock' = clock + 1

Counted(n) ==
  /\ StoredAt(n) > TakenAt(n)
  /\ StoredAt(n)' = StoredAt(n) /\ TakenAt(n)' = StoredAt(n)
  /\ evidence'[n] = evidence[n]
  /\ clock' = clock

Probed(n) ==
  /\ StoredAt(n)' = StoredAt(n) /\ TakenAt(n)' = TakenAt(n)
  /\ FoundAt(n)' = clock + 1
  /\ clock' = clock + 1

Promoted(n) ==
  /\ evidence[n] # NoResult /\ evidence'[n] = NoResult
  /\ StoredAt(n) <= FoundAt(n)
  /\ StoredAt(n)' = FoundAt(n) /\ TakenAt(n)' = TakenAt(n)
  /\ clock' = clock

Cleared(n) ==
  /\ evidence'[n] = NoResult
  /\ StoredAt(n)' = 0 /\ TakenAt(n)' = TakenAt(n)
  /\ clock' \in {clock, clock + 1}

Effect(n) ==
  \/ Stays(n) \/ Measured(n) \/ Counted(n)
  \/ Probed(n) \/ Promoted(n) \/ Cleared(n)

LEMMA EffectOfFinishCheck ==
  ASSUME TypeInv, NEW w \in CheckWorkers, NEW m \in Nodes, NEW kind \in Kinds,
         FinishCheck(w, m, kind), NEW n \in Nodes
  PROVE  Effect(n)
<1> USE DEF FinishCheck
<1>1. /\ UNCHANGED <<monitor, evidence>>
      /\ TakenAt(n)' = TakenAt(n)
  BY DEF TakenAt
<1>2. CASE UNCHANGED <<clock, results>>
  BY <1>1, <1>2 DEF Effect, Stays, StoredAt
<1>3. CASE clock' = clock + 1 /\ results' = [results EXCEPT ![m] =
             [kind |-> kind, at |-> clock + 1, rev |-> job[w].targets[m]]]
  <2> DEFINE r == [kind |-> kind, at |-> clock + 1,
                   rev |-> job[w].targets[m]]
  <2>1. r \in Result /\ r # NoResult /\ r.at = clock + 1
    <3>1. m \in job[w].pending /\ w \in Workers
      BY NodeMonitorAssumption
         DEF TypeInv, HoldersCheck, CheckWorkers, Workers
    <3>2. job[w].targets[m] = cfg[m] /\ cfg[m] \in Revs
      BY <3>1, DropPending
    <3>3. clock + 1 \in Nat
      BY NodeMonitorAssumption DEF TypeInv, TypeOK
    <3> QED
      BY <3>2, <3>3, NodeMonitorAssumption DEF Result
  <2>2. results'[n] = IF n = m THEN r ELSE results[n]
    BY <1>3 DEF TypeInv, TypeOK
  <2> HIDE DEF r
  <2>3. CASE n = m
    BY <1>1, <1>3, <2>1, <2>2, <2>3 DEF Effect, Measured, StoredAt
  <2>4. CASE n # m
    BY <1>1, <1>3, <2>2, <2>4 DEF Effect, Stays, StoredAt
  <2> QED
    BY <2>3, <2>4
<1> QED
  BY <1>2, <1>3

LEMMA EffectOfRecordResults ==
  ASSUME TypeInv, NEW w \in Workers, RecordResults(w), NEW n \in Nodes
  PROVE  Effect(n)
<1> USE DEF RecordResults
<1>1. UNCHANGED <<clock, results, evidence>> /\ StoredAt(n)' = StoredAt(n)
  BY DEF StoredAt
<1>2. CASE n \in Named(job[w].targets) /\ IsNews(n)
  <2>1. /\ monitor[n] \in Node /\ results[n] \in Result
        /\ monitor[n].lastResultAt < results[n].at
    BY <1>2, NewsOfKnown
  <2>2. monitor'[n] = ApplyResult(monitor[n], results[n])
    BY <1>2
  <2>3. monitor'[n] \in Node /\ monitor'[n].lastResultAt = results[n].at
    BY <2>1, <2>2, ApplyFits
  <2>4. monitor[n] # NoNode /\ monitor'[n] # NoNode /\ results[n] # NoResult
    BY <2>1, <2>3, NodeMonitorAssumption
  <2>5. TakenAt(n)' = StoredAt(n) /\ StoredAt(n) > TakenAt(n)
    BY <2>1, <2>3, <2>4 DEF TakenAt, StoredAt, Node, Result
  <2> QED
    BY <1>1, <2>5 DEF Effect, Counted
<1>3. CASE ~(n \in Named(job[w].targets) /\ IsNews(n))
  <2>1. monitor'[n] = monitor[n]
    BY <1>3
  <2> QED
    BY <1>1, <2>1 DEF Effect, Stays, TakenAt
<1> QED
  BY <1>2, <1>3

LEMMA EffectOfProbeBinding ==
  ASSUME TypeInv, NEW m \in Nodes, NEW kind \in Kinds, ProbeBinding(m, kind),
         NEW n \in Nodes
  PROVE  Effect(n)
<1> USE DEF ProbeBinding
<1>1. StoredAt(n)' = StoredAt(n) /\ TakenAt(n)' = TakenAt(n)
  BY DEF StoredAt, TakenAt
<1>2. CASE kind = "fail"
  BY <1>1, <1>2 DEF Effect, Stays
<1>3. CASE kind # "fail"
  <2> DEFINE e == [kind |-> kind, at |-> clock + 1]
  <2>1. e \in Evidence /\ e # NoResult /\ e.at = clock + 1
    <3>1. clock + 1 \in Nat
      BY NodeMonitorAssumption DEF TypeInv, TypeOK
    <3> QED
      BY <1>3, <3>1, NodeMonitorAssumption DEF Evidence, Kinds
  <2>2. /\ evidence'[n] = IF n = m THEN e ELSE evidence[n]
        /\ clock' = clock + 1
    BY <1>3 DEF TypeInv, TypeOK
  <2> HIDE DEF e
  <2>3. CASE n = m
    BY <1>1, <2>1, <2>2, <2>3 DEF Effect, Probed, FoundAt
  <2>4. CASE n # m
    BY <1>1, <2>2, <2>4 DEF Effect, Stays
  <2> QED
    BY <2>3, <2>4
<1> QED
  BY <1>2, <1>3

LEMMA EffectOfPromoteEvidence ==
  ASSUME TypeInv, NEW m \in Nodes, PromoteEvidence(m), NEW n \in Nodes,
         Ordered(n)
  PROVE  Effect(n)
<1> USE DEF PromoteEvidence
<1>1. UNCHANGED <<clock, monitor>> /\ TakenAt(n)' = TakenAt(n)
  BY DEF TakenAt
<1>2. evidence'[n] = IF n = m THEN NoResult ELSE evidence[n]
  BY DEF TypeInv, TypeOK
<1>3. CASE n # m \/ Superseded(m)
  <2>1. results'[n] = results[n]
    BY <1>3 DEF TypeInv, TypeOK
  <2> QED
    BY <1>1, <1>2, <2>1 DEF Effect, Stays, StoredAt
<1>4. CASE n = m /\ ~Superseded(m)
  <2> DEFINE r == [kind |-> evidence[m].kind, at |-> evidence[m].at,
                   rev |-> job["diagnosis"].targets[m]]
  <2>1. r \in Result /\ r # NoResult /\ r.at = evidence[m].at
    BY PromotedTypes, NodeMonitorAssumption
  <2>2. results'[n] = r
    BY <1>4 DEF TypeInv, TypeOK
  <2> HIDE DEF r
  <2>3. evidence[n] # NoResult /\ StoredAt(n)' = FoundAt(n)
    BY <1>4, <2>1, <2>2 DEF StoredAt, FoundAt
  <2>4. StoredAt(n) <= FoundAt(n)
    BY <1>4, <2>3, NodeMonitorAssumption
       DEF Superseded, StoredAt, FoundAt, Ordered, TypeInv, TypeOK
  <2> QED
    BY <1>1, <1>2, <1>4, <2>3, <2>4 DEF Effect, Promoted
<1> QED
  BY <1>3, <1>4

LEMMA EffectOfReload ==
  ASSUME TypeInv, NEW new \in Targets, Reload(new), NEW n \in Nodes
  PROVE  Effect(n)
<1> USE DEF Reload
<1>1. evidence'[n] = NoResult /\ evidence[n] = NoResult
  BY DEF ChecksPaused, TypeInv, EvidenceHeld, Workers
<1>2. results'[n] \in {results[n], NoResult} /\ clock' = clock + 1
  OBVIOUS
<1>3. StoredAt(n)' \in {StoredAt(n), 0}
  BY <1>2 DEF StoredAt
<1>4. monitor'[n] = UpdateNode(n, new)
  OBVIOUS
<1>5. TakenAt(n)' = TakenAt(n)
  <2>1. CASE monitor[n] # NoNode
    <3>1. /\ monitor'[n].lastResultAt = monitor[n].lastResultAt
          /\ monitor'[n] # NoNode
      BY <1>4, <2>1, UpdateTypes, NodeMonitorAssumption
    <3> QED
      BY <2>1, <3>1 DEF TakenAt
  <2>2. CASE monitor[n] = NoNode
    BY <1>4, <2>2, UpdateTypes DEF TakenAt
  <2> QED
    BY <2>1, <2>2
<1> HIDE DEF Reload
<1> QED
  BY <1>1, <1>2, <1>3, <1>5 DEF Effect, Stays, Cleared

LEMMA EffectOfPruneStaleResults ==
  ASSUME TypeInv, PruneStaleResults, NEW n \in Nodes
  PROVE  Effect(n)
<1> USE DEF PruneStaleResults
<1>1. UNCHANGED <<clock, monitor, evidence>> /\ TakenAt(n)' = TakenAt(n)
  BY DEF TakenAt
<1>2. CASE cfg[n] # Absent
  <2>1. results'[n] = results[n]
    BY <1>2
  <2> QED
    BY <1>1, <2>1 DEF Effect, Stays, StoredAt
<1>3. CASE cfg[n] = Absent
  <2>1. results'[n] = NoResult
    BY <1>3
  <2>2. evidence[n] = NoResult
    BY <1>3 DEF TypeInv, EvidenceHeld, JobsCurrent, JobFits, Named, Workers
  <2> QED
    BY <1>1, <2>1, <2>2 DEF Effect, Cleared, StoredAt
<1> QED
  BY <1>2, <1>3

LEMMA EffectOfRefreshResolvedIPs ==
  ASSUME TypeInv, NEW answer \in Answers, RefreshResolvedIPs(answer),
         NEW n \in Nodes
  PROVE  Effect(n)
<1> USE DEF RefreshResolvedIPs
<1>1. /\ evidence'[n] = evidence[n] /\ StoredAt(n)' = StoredAt(n)
      /\ clock' \in {clock, clock + 1}
  BY DEF StoredAt
<1>2. TakenAt(n)' = TakenAt(n)
  <2>1. CASE n \in Present
    <3>1. monitor'[n] = ResolveNode(monitor[n], IPsOf(n, answer), clock + 1)
      BY <2>1
    <3>2. /\ monitor[n] \in Node /\ monitor'[n] \in Node
          /\ monitor'[n].lastResultAt = monitor[n].lastResultAt
      BY <2>1, <3>1, ResolvedTypes, ResolveFits
    <3> QED
      BY <3>2, NodeMonitorAssumption DEF TakenAt
  <2>2. CASE n \notin Present
    BY <2>2 DEF TakenAt
  <2> QED
    BY <2>1, <2>2
<1> QED
  BY <1>1, <1>2 DEF Effect, Stays

LEMMA EffectOfQueueEndpointValidation ==
  ASSUME TypeInv, NEW S \in SUBSET Nodes, QueueEndpointValidation(S),
         NEW n \in Nodes
  PROVE  Effect(n)
<1> USE DEF QueueEndpointValidation
<1>1. UNCHANGED <<clock, evidence>> /\ StoredAt(n)' = StoredAt(n)
  BY DEF StoredAt
<1>2. CASE n \in S
  <2>1. /\ monitor[n] \in Node /\ monitor'[n] \in Node
        /\ monitor'[n].lastResultAt = monitor[n].lastResultAt
    BY <1>2, AtOnce DEF TypeInv, TypeOK
  <2>2. TakenAt(n)' = TakenAt(n)
    BY <2>1, NodeMonitorAssumption DEF TakenAt
  <2> QED
    BY <1>1, <2>2 DEF Effect, Stays
<1>3. CASE n \notin S
  BY <1>1, <1>3 DEF Effect, Stays, TakenAt
<1> QED
  BY <1>2, <1>3

(* The steps that leave store, history and evidence alone.                 *)
LEMMA EffectOfTheRest ==
  ASSUME UNCHANGED <<clock, results, monitor, evidence>>, NEW n \in Nodes
  PROVE  Effect(n)
BY DEF Effect, Stays, StoredAt, TakenAt

LEMMA EveryEffect ==
  ASSUME TypeInv, TimesOrdered, [Next]_vars, NEW n \in Nodes
  PROVE  Effect(n)
<1>1. ASSUME NEW w \in CheckWorkers, RunCheckSet(w) PROVE Effect(n)
  <2>1. \/ UNCHANGED <<clock, results, monitor, evidence>>
        \/ \E m \in Nodes, kind \in Kinds : FinishCheck(w, m, kind)
        \/ RecordResults(w)
    BY <1>1 DEF RunCheckSet, QueueChecks, EnterRuntime, GiveUp, BeginCheck
  <2> QED
    BY <2>1, EffectOfTheRest, EffectOfFinishCheck, EffectOfRecordResults
       DEF Workers
<1>2. ASSUME Diagnose PROVE Effect(n)
  <2>1. \/ UNCHANGED <<clock, results, monitor, evidence>>
        \/ \E m \in Nodes, kind \in Kinds : ProbeBinding(m, kind)
        \/ \E m \in Nodes : PromoteEvidence(m)
        \/ RecordResults("diagnosis")
    BY <1>2 DEF Diagnose, StartDiagnosis
  <2> QED
    BY <2>1, EffectOfTheRest, EffectOfProbeBinding, EffectOfPromoteEvidence,
       EffectOfRecordResults DEF Workers, TimesOrdered
<1>3. ASSUME Refresh PROVE Effect(n)
  BY <1>3, EffectOfReload, EffectOfPruneStaleResults,
     EffectOfRefreshResolvedIPs DEF Refresh
<1>4. CASE UNCHANGED vars
  BY <1>4, EffectOfTheRest DEF vars
<1> QED
  BY <1>1, <1>2, <1>3, <1>4, EffectOfQueueEndpointValidation DEF Next

LEMMA TimesInit == Init => TimesOrdered
<1> SUFFICES ASSUME Init, NEW n \in Nodes PROVE Ordered(n)
  BY DEF TimesOrdered
<1>1. clock = Past /\ evidence[n] = NoResult
  BY DEF Init
<1>2. TypeInv /\ (Known(n) => monitor[n].lastResultAt <= Past)
  BY TypeInit, StartsRestorable
<1>3. TakenAt(n) \in 0..Past
  BY <1>2, NodeMonitorAssumption DEF TypeInv, TypeOK, Known, TakenAt, Node
<1>4. StoredAt(n) \in 0..Past
  BY NodeMonitorAssumption DEF Init, Restored, StoredAt
<1> QED
  BY <1>1, <1>3, <1>4, NodeMonitorAssumption DEF Ordered

LEMMA TimesNext == TypeInv /\ TimesOrdered /\ [Next]_vars => TimesOrdered'
<1> SUFFICES ASSUME TypeInv, TimesOrdered, [Next]_vars, NEW n \in Nodes
             PROVE  Ordered(n)'
  BY DEF TimesOrdered
<1>1. Effect(n) /\ Ordered(n) /\ clock \in Nat /\ Past \in Nat /\ Past <= clock
  BY EveryEffect, NodeMonitorAssumption DEF TimesOrdered, TypeInv, TypeOK
<1>2. evidence'[n] = evidence[n] => FoundAt(n)' = FoundAt(n)
  BY DEF FoundAt
<1>3. CASE Stays(n)
  BY <1>1, <1>2, <1>3 DEF Stays, Ordered
<1>4. CASE Measured(n)
  BY <1>1, <1>2, <1>4 DEF Measured, Ordered
<1>5. CASE Counted(n)
  BY <1>1, <1>2, <1>5 DEF Counted, Ordered
<1>6. CASE Probed(n)
  BY <1>1, <1>6 DEF Probed, Ordered
<1>7. CASE Promoted(n)
  BY <1>1, <1>7 DEF Promoted, Ordered
<1>8. CASE Cleared(n)
  BY <1>1, <1>8 DEF Cleared, Ordered
<1> QED
  BY <1>1, <1>3, <1>4, <1>5, <1>6, <1>7, <1>8 DEF Effect

LEMMA TimesAlways == Spec => [](TypeInv /\ TimesOrdered)
<1> QED
  BY TypesAlways, TimesInit, TimesNext, PTL DEF Spec

LEMMA MailboxInit == Init => Mailbox!Init
<1> SUFFICES ASSUME Init PROVE Mailbox!Init
  OBVIOUS
<1>1. \A n \in Nodes : StoredAt(n) \in Nat /\ TakenAt(n) \in Nat
  BY TimesInit, NodeMonitorAssumption DEF TimesOrdered, Ordered, Init
<1> QED
  BY <1>1 DEF Mailbox!Init, StoredAt, TakenAt

LEMMA MailboxNext ==
  TypeInv /\ TimesOrdered /\ [Next]_vars => Mailbox!Next
<1> SUFFICES ASSUME TypeInv, TimesOrdered, [Next]_vars PROVE Mailbox!Next
  OBVIOUS
<1> SUFFICES ASSUME NEW n \in Nodes
             PROVE  \/ Mailbox!Put(n) \/ Mailbox!Take(n)
                    \/ Mailbox!Clear(n) \/ Mailbox!Idle(n)
  BY DEF Mailbox!Next
<1>1. Effect(n) /\ Ordered(n) /\ clock \in Nat /\ Past \in Nat /\ Past <= clock
  BY EveryEffect, NodeMonitorAssumption DEF TimesOrdered, TypeInv, TypeOK
<1>2. CASE Stays(n) \/ Probed(n)
  <2>1. StoredAt(n)' = StoredAt(n) /\ TakenAt(n)' = TakenAt(n)
    BY <1>2 DEF Stays, Probed
  <2> QED
    BY <2>1 DEF Mailbox!Idle, StoredAt, TakenAt
<1>3. CASE Measured(n) \/ Promoted(n)
  <2>1. /\ StoredAt(n)' \in Nat /\ StoredAt(n)' > StoredAt(n)
        /\ StoredAt(n)' > TakenAt(n) /\ TakenAt(n)' = TakenAt(n)
    BY <1>1, <1>3 DEF Measured, Promoted, Ordered
  <2> QED
    BY <2>1 DEF Mailbox!Put, StoredAt, TakenAt
<1>4. CASE Counted(n)
  <2>1. /\ StoredAt(n) > TakenAt(n)
        /\ StoredAt(n)' = StoredAt(n) /\ TakenAt(n)' = StoredAt(n)
    BY <1>4 DEF Counted
  <2> QED
    BY <2>1 DEF Mailbox!Take, StoredAt, TakenAt
<1>5. CASE Cleared(n)
  <2>1. StoredAt(n)' = 0 /\ TakenAt(n)' = TakenAt(n)
    BY <1>5 DEF Cleared
  <2> QED
    BY <2>1 DEF Mailbox!Clear, StoredAt, TakenAt
<1> QED
  BY <1>1, <1>2, <1>3, <1>4, <1>5 DEF Effect

(* The result store and the repair history implement a mailbox: no check   *)
(* or diagnosis puts back an older measurement, and none is counted twice, *)
(* whatever runs at the same time.                                         *)
THEOREM StoreImplementsMailbox == Spec => StoreIsMailbox
<1> QED
  BY TimesAlways, MailboxInit, MailboxNext, PTL
     DEF Spec, StoreIsMailbox, Mailbox!Spec

-----------------------------------------------------------------------------
(* What a later start may find.                                            *)

(* A node is where its connection is, was never there before, and changed  *)
(* at some time up to now.                                                 *)
Placed(node, now) ==
  /\ node.address = AddrOf[node.revision]
  /\ node.prevAddress # node.address
  /\ node.changedAt <= now

NodesPlaced == \A n \in Nodes : Known(n) => Placed(monitor[n], clock)

(* A node that is told a result, is asked for or returns stays in place.   *)
LEMMA SamePlace ==
  ASSUME NEW node \in Node, NEW new, NEW now \in Nat, NEW later \in Nat,
         Placed(node, now), now <= later,
         new.address = node.address, new.prevAddress = node.prevAddress,
         new.revision = node.revision,
         new.changedAt \in {node.changedAt, later}
  PROVE  Placed(new, later)
BY DEF Placed, Node

LEMMA ApplyKeepsPlace ==
  ASSUME NEW node \in Node, NEW r \in Result
  PROVE  LET new == ApplyResult(node, r)
         IN /\ new.address = node.address /\ new.revision = node.revision
            /\ new.prevAddress = node.prevAddress
            /\ new.changedAt = node.changedAt
<1> DEFINE counted == [node EXCEPT !.lastResultAt = r.at]
           replacing == node.state \in Replacing
           new == ApplyResult(node, r)
<1>1. /\ counted \in Node
      /\ counted.address = node.address /\ counted.revision = node.revision
      /\ counted.prevAddress = node.prevAddress
      /\ counted.changedAt = node.changedAt
  BY DEF Node, Result
<1>2. new = Count(counted, r.kind, replacing)
  BY DEF ApplyResult
<1>3. r.kind \in {"clean", "unstable", "fail"}
  BY DEF Result, Kinds
<1> HIDE DEF counted, replacing, new
<1>4. new \in {ApplyClean(counted, replacing), ApplyUnstable(counted, replacing),
               ApplyFail(counted, replacing)}
  BY <1>2, <1>3 DEF Count
<1>5. /\ new.address = counted.address /\ new.revision = counted.revision
      /\ new.prevAddress = counted.prevAddress
      /\ new.changedAt = counted.changedAt
  BY <1>1, <1>4 DEF ApplyClean, ApplyUnstable, ApplyFail, Node
<1> QED
  BY <1>1, <1>5 DEF new

LEMMA ReturnedKeepsPlace ==
  ASSUME NEW node \in Node, NEW rev
  PROVE  LET new == Returned(node, rev)
         IN /\ new.address = node.address /\ new.revision = node.revision
            /\ new.prevAddress = node.prevAddress
            /\ new.changedAt = node.changedAt
BY DEF Returned, Node

LEMMA ResolveKeepsPlace ==
  ASSUME NEW node \in Node, NEW ips, NEW now
  PROVE  LET new == ResolveNode(node, ips, now)
         IN /\ new.address = node.address /\ new.revision = node.revision
            /\ new.prevAddress = node.prevAddress
            /\ IF DNSMoves(node, ips) THEN new.changedAt = now
               ELSE new.changedAt = node.changedAt
<1>1. CASE DNSMoves(node, ips)
  BY <1>1 DEF ResolveNode, Node
<1>2. CASE ~DNSMoves(node, ips)
  <2>1. ResolveNode(node, ips, now) \in {node, [node EXCEPT !.ips = ips]}
    BY <1>2 DEF ResolveNode
  <2> QED
    BY <1>2, <2>1 DEF Node
<1> QED
  BY <1>1, <1>2

LEMMA PlacedInit == Init => NodesPlaced
<1> SUFFICES ASSUME Init, NEW n \in Nodes, Known(n)
             PROVE  Placed(monitor[n], clock)
  BY DEF NodesPlaced
<1>1. clock = Past
  BY DEF Init
<1> QED
  BY <1>1, StartsRestorable DEF Restorable, Placed

LEMMA PlacedAfterReload ==
  ASSUME TypeInv, NodesPlaced, NEW new \in Targets, Reload(new),
         NEW n \in Nodes, monitor'[n] # NoNode
  PROVE  Placed(monitor'[n], clock')
<1>1. /\ monitor'[n] = UpdateNode(n, new) /\ clock' = clock + 1
      /\ clock \in Nat /\ clock + 1 \in Nat /\ clock <= clock + 1
  BY NodeMonitorAssumption DEF Reload, TypeInv, TypeOK
<1>2. /\ monitor[n] \in Node \cup {NoNode} /\ new[n] \in Revs \cup {Absent}
      /\ cfg[n] # Absent => monitor[n] # NoNode
      /\ monitor[n] # NoNode => Placed(monitor[n], clock)
  BY DEF TypeInv, TypeOK, Targets, KnownPresent, Present, Named, NodesPlaced,
         Known
<1>3. CASE Added(n, new) /\ monitor[n] = NoNode
  <2>1. monitor'[n] = NewNode(new[n]) /\ new[n] \in Revs
    BY <1>1, <1>2, <1>3 DEF UpdateNode, Added
  <2>2. /\ monitor'[n].address = AddrOf[new[n]] /\ monitor'[n].revision = new[n]
        /\ monitor'[n].prevAddress = NoAddr /\ monitor'[n].changedAt = 0
    BY <2>1 DEF NewNode
  <2>3. AddrOf[new[n]] # NoAddr
    BY <2>1, NodeStateAssumption
  <2> QED
    BY <1>1, <2>2, <2>3 DEF Placed
<1>4. CASE Changed(n, new) \/ ReturnedChanged(n, new)
  <2>1. monitor[n] \in Node /\ monitor[n] # NoNode /\ new[n] \in Revs
    BY <1>2, <1>4 DEF Changed, ReturnedChanged, Added
  <2>2. monitor'[n] = MarkRevisionChanged(monitor[n], new[n], clock + 1)
    BY <1>1, <1>4, <2>1 DEF UpdateNode
  <2>3. monitor[n].prevAddress # monitor[n].address
        /\ monitor[n].changedAt <= clock /\ monitor[n].changedAt \in Nat
    BY <1>2, <2>1 DEF Placed, Node
  <2>4. /\ monitor'[n].address = AddrOf[new[n]] /\ monitor'[n].revision = new[n]
        /\ monitor'[n].prevAddress # monitor'[n].address
        /\ monitor'[n].changedAt \in {monitor[n].changedAt, clock + 1}
    BY <1>1, <2>1, <2>2, <2>3, MarkPlaces
  <2>5. monitor'[n].changedAt <= clock'
    BY <1>1, <2>3, <2>4
  <2> QED
    BY <2>4, <2>5 DEF Placed
<1>5. CASE /\ ~(Added(n, new) /\ monitor[n] = NoNode)
           /\ ~(Changed(n, new) \/ ReturnedChanged(n, new))
  <2>1. monitor'[n] = IF Added(n, new) THEN Returned(monitor[n], new[n])
                      ELSE monitor[n]
    BY <1>1, <1>5 DEF UpdateNode
  <2>2. monitor[n] \in Node /\ Placed(monitor[n], clock)
    BY <1>2, <1>5, <2>1
  <2>3. /\ monitor'[n].address = monitor[n].address
        /\ monitor'[n].revision = monitor[n].revision
        /\ monitor'[n].prevAddress = monitor[n].prevAddress
        /\ monitor'[n].changedAt = monitor[n].changedAt
    BY <2>1, <2>2, ReturnedKeepsPlace
  <2> QED
    BY <1>1, <2>2, <2>3, SamePlace
<1> QED
  BY <1>3, <1>4, <1>5

LEMMA PlacedNext ==
  TypeInv /\ TimesOrdered /\ NodesPlaced /\ [Next]_vars => NodesPlaced'
<1> SUFFICES ASSUME TypeInv, TimesOrdered, NodesPlaced, [Next]_vars,
                    NEW n \in Nodes, monitor'[n] # NoNode
             PROVE  Placed(monitor'[n], clock')
  BY DEF NodesPlaced, Known
<1>1. /\ monitor[n] \in Node \cup {NoNode}
      /\ monitor[n] # NoNode => Placed(monitor[n], clock)
  BY DEF TypeInv, TypeOK, NodesPlaced, Known
<1>2. clock' \in {clock, clock + 1}
  BY EveryEffect
     DEF Effect, Stays, Measured, Counted, Probed, Promoted, Cleared
<1>3. clock \in Nat
  BY NodeMonitorAssumption DEF TypeInv, TypeOK
<1>4. clock' \in Nat /\ clock <= clock'
  BY <1>2, <1>3
<1>5. CASE monitor'[n] = monitor[n]
  BY <1>1, <1>3, <1>4, <1>5, SamePlace
<1>6. ASSUME NEW w \in Workers, RecordResults(w), monitor'[n] # monitor[n]
      PROVE  Placed(monitor'[n], clock')
  <2>1. /\ n \in Named(job[w].targets) /\ IsNews(n)
        /\ monitor'[n] = ApplyResult(monitor[n], results[n])
    BY <1>6 DEF RecordResults
  <2>2. monitor[n] \in Node /\ results[n] \in Result
    BY <1>6, <2>1, NewsOfKnown DEF RecordResults
  <2>3. Placed(monitor[n], clock)
    BY <1>1, <2>2, NodeMonitorAssumption
  <2> QED
    BY <1>3, <1>4, <2>1, <2>2, <2>3, ApplyKeepsPlace, SamePlace
<1>7. ASSUME NEW answer \in Answers, RefreshResolvedIPs(answer),
             monitor'[n] # monitor[n]
      PROVE  Placed(monitor'[n], clock')
  <2> DEFINE ips == IPsOf(n, answer)
             new == ResolveNode(monitor[n], ips, clock + 1)
  <2>1. /\ monitor'[n] = new /\ n \in Present
        /\ DNSMoves(monitor[n], ips) => clock' = clock + 1
    BY <1>7 DEF RefreshResolvedIPs
  <2>2. monitor[n] \in Node
    BY <2>1, ResolvedTypes
  <2>3. Placed(monitor[n], clock)
    BY <1>1, <2>2, NodeMonitorAssumption
  <2>4. /\ new.address = monitor[n].address
        /\ new.revision = monitor[n].revision
        /\ new.prevAddress = monitor[n].prevAddress
        /\ new.changedAt \in {monitor[n].changedAt, clock'}
    BY <2>1, <2>2, ResolveKeepsPlace
  <2> HIDE DEF new
  <2> QED
    BY <1>3, <1>4, <2>1, <2>2, <2>3, <2>4, SamePlace
<1>8. ASSUME NEW S \in SUBSET Nodes, QueueEndpointValidation(S),
             monitor'[n] # monitor[n]
      PROVE  Placed(monitor'[n], clock')
  <2>1. /\ monitor'[n] = [monitor[n] EXCEPT !.wait = 0]
        /\ monitor[n] \in Node /\ monitor[n] # NoNode
    BY <1>8 DEF QueueEndpointValidation, TypeInv, TypeOK
  <2>2. /\ monitor'[n].address = monitor[n].address
        /\ monitor'[n].revision = monitor[n].revision
        /\ monitor'[n].prevAddress = monitor[n].prevAddress
        /\ monitor'[n].changedAt = monitor[n].changedAt
    BY <2>1 DEF Node
  <2> QED
    BY <1>1, <1>3, <1>4, <2>1, <2>2, SamePlace
<1> QED
  BY <1>5, <1>6, <1>7, <1>8, MonitorWriters, PlacedAfterReload

LEMMA PlacedAlways == Spec => []NodesPlaced
<1> QED
  BY TimesAlways, PlacedInit, PlacedNext, PTL DEF Spec

(* Whatever the process is doing when it is killed, what it has of a node  *)
(* is what SavedAssumption says of the states a start may find: so a start *)
(* after any number of runs is one of the starts of this specification.    *)
StaysRestorable ==
  \A n \in Nodes : Known(n) =>
    /\ Restorable(monitor[n])
    /\ monitor[n].changedAt <= clock
    /\ monitor[n].lastResultAt <= clock

(* A node's state can be restored at every moment: its counters fit its    *)
(* state, its delay the schedule, and its address its connection           *)
(* (persistMonitor, loadMonitor, reconcileMonitorWithCurrentProxies).      *)
THEOREM RestartsAreStarts == Spec => []StaysRestorable
<1>1. TypeInv /\ TimesOrdered /\ StatesFit /\ NodesPlaced => StaysRestorable
  <2> SUFFICES ASSUME TypeInv, TimesOrdered, StatesFit, NodesPlaced,
                      NEW n \in Nodes, Known(n)
               PROVE  /\ Restorable(monitor[n])
                      /\ monitor[n].changedAt <= clock
                      /\ monitor[n].lastResultAt <= clock
    BY DEF StaysRestorable
  <2>1. monitor[n] \in Node
    BY DEF TypeInv, TypeOK, Known
  <2>2. /\ CountersFit(monitor[n])
        /\ monitor[n].wait \in {0, Cadence(monitor[n])}
    BY DEF StatesFit, StateMatchesCounters, CadenceMatchesState
  <2>3. Placed(monitor[n], clock)
    BY DEF NodesPlaced
  <2>4. monitor[n].lastResultAt <= clock
    BY NodeMonitorAssumption
       DEF TimesOrdered, Ordered, TakenAt, Known, TypeInv, TypeOK
  <2> QED
    BY <2>1, <2>2, <2>3, <2>4 DEF Restorable, Placed
<1> QED
  BY <1>1, TimesAlways, StatesAlways, PlacedAlways, PTL

-----------------------------------------------------------------------------
(* The history behind the repair state.                                    *)

(* The places of the confirmations of a replacement.                       *)
Confirmations(entry) ==
  {i \in 2..Len(Rounds(entry)) : /\ Rounds(entry)[i] = "clean"
                                 /\ Rounds(entry)[i - 1] = "clean"}

(* The last k rounds of an entry are of this kind, and no more of them.    *)
Trailing(entry, kind, k) ==
  LET n == Len(Rounds(entry))
  IN /\ k \in 0..n
     /\ \A i \in (n - k + 1)..n : Rounds(entry)[i] = kind
     /\ k < n => Rounds(entry)[n - k] # kind

(* The counters count the rounds since the connection was replaced, and    *)
(* the state is the verdict of them.                                       *)
Follows(node, entry) ==
  /\ entry.obs = <<>> /\ entry.base \in Replacing => Confirmations(entry) = {}
  /\ Trailing(entry, "clean", node.successes)
  /\ Trailing(entry, "fail", node.failures)
  /\ node.state = Verdict(entry)

(* What a result of this kind makes of the counters and the state.         *)
After(old, new, kind) ==
  /\ new.successes = IF kind = "clean" THEN old.successes + 1 ELSE 0
  /\ new.failures = IF kind = "fail" THEN old.failures + 1 ELSE 0
  /\ new.state =
       IF old.state \in Replacing
       THEN IF kind = "clean" /\ old.successes >= 1 THEN "fixed"
            ELSE IF kind = "fail" /\ old.failures >= 1 THEN "new_ip_failed"
            ELSE "verifying_new_ip"
       ELSE IF kind = "clean" THEN "healthy"
            ELSE IF kind = "unstable" THEN "unstable"
            ELSE IF old.failures >= 2 THEN "needs_replacement"
            ELSE "suspected"

LEMMA ApplyCounts ==
  ASSUME NEW node \in Node, NEW r \in Result
  PROVE  After(node, ApplyResult(node, r), r.kind)
<1> DEFINE counted == [node EXCEPT !.lastResultAt = r.at]
            replacing == node.state \in Replacing
            new == ApplyResult(node, r)
<1>1. /\ counted \in Node
      /\ counted.successes = node.successes
      /\ counted.failures = node.failures
  BY DEF Node, Result
<1>2. /\ node.successes \in Nat /\ node.failures \in Nat
      /\ r.kind \in {"clean", "unstable", "fail"}
  BY DEF Node, Result, Kinds
<1>3. new = Count(counted, r.kind, replacing)
  BY DEF ApplyResult
<1> HIDE DEF counted, new
<1>4. CASE r.kind = "clean"
  <2>1. new = ApplyClean(counted, replacing)
    BY <1>3, <1>4 DEF Count
  <2>2. /\ new.failures = 0 /\ new.successes = node.successes + 1
        /\ new.state = IF replacing /\ node.successes + 1 < 2
                       THEN "verifying_new_ip"
                       ELSE IF replacing THEN "fixed" ELSE "healthy"
    BY <1>1, <2>1 DEF ApplyClean, Node
  <2> QED
    BY <1>2, <1>4, <2>2 DEF After, new
<1>5. CASE r.kind = "unstable"
  <2>1. new = ApplyUnstable(counted, replacing)
    BY <1>3, <1>5 DEF Count
  <2>2. /\ new.failures = 0 /\ new.successes = 0
        /\ new.state = IF replacing THEN "verifying_new_ip" ELSE "unstable"
    BY <1>1, <2>1 DEF ApplyUnstable, Node
  <2> QED
    BY <1>5, <2>2 DEF After, new
<1>6. CASE r.kind = "fail"
  <2>1. new = ApplyFail(counted, replacing)
    BY <1>3, <1>6 DEF Count
  <2>2. /\ new.failures = node.failures + 1 /\ new.successes = 0
        /\ new.state = IF replacing
             THEN IF node.failures + 1 >= 2 THEN "new_ip_failed"
                  ELSE "verifying_new_ip"
             ELSE IF node.failures + 1 >= 3 THEN "needs_replacement"
                  ELSE "suspected"
    BY <1>1, <2>1 DEF ApplyFail, Node
  <2> QED
    BY <1>2, <1>6, <2>2 DEF After, new
<1> QED
  BY <1>2, <1>4, <1>5, <1>6

(* A result is appended to the history.                                    *)
LEMMA Longer ==
  ASSUME NEW entry \in Log, NEW r \in Result
  PROVE  LET longer == [entry EXCEPT !.obs = Append(@, r)]
             n == Len(entry.obs)
         IN /\ longer \in Log
            /\ longer.base = entry.base /\ longer.cause = entry.cause
            /\ longer.since = entry.since
            /\ n \in Nat /\ DOMAIN entry.obs = 1..n
            /\ Len(longer.obs) = n + 1
            /\ DOMAIN longer.obs = 1..(n + 1)
            /\ longer.obs[n + 1] = r
            /\ \A i \in 1..n : longer.obs[i] = entry.obs[i]
<1> DEFINE longer == [entry EXCEPT !.obs = Append(@, r)]
            obs == Append(entry.obs, r)
<1>1. entry.obs \in Seq(Result)
  BY DEF Log
<1>2. /\ obs \in Seq(Result) /\ Len(obs) = Len(entry.obs) + 1
      /\ Len(entry.obs) \in Nat /\ DOMAIN entry.obs = 1..Len(entry.obs)
      /\ DOMAIN obs = 1..Len(obs)
      /\ obs[Len(entry.obs) + 1] = r
      /\ \A i \in 1..Len(entry.obs) : obs[i] = entry.obs[i]
  BY <1>1
<1>3. longer = [entry EXCEPT !.obs = obs]
  OBVIOUS
<1> HIDE DEF obs, longer
<1>4. longer \in Log /\ longer.obs = obs
  BY <1>2, <1>3 DEF Log
<1>5. longer.base = entry.base /\ longer.cause = entry.cause
      /\ longer.since = entry.since
  BY <1>3 DEF Log
<1> QED
  BY <1>2, <1>4, <1>5 DEF longer

(* The rounds of a history are a sequence of kinds, one more for every     *)
(* result that is counted.                                                 *)
LEMMA RoundsTypes ==
  ASSUME NEW entry \in Log
  PROVE  /\ Rounds(entry) \in Seq(Kinds)
         /\ Len(Rounds(entry)) = Len(entry.before) + Len(entry.obs)
         /\ \A i \in 1..Len(Rounds(entry)) :
              Rounds(entry)[i] = IF i <= Len(entry.before) THEN entry.before[i]
                                 ELSE entry.obs[i - Len(entry.before)].kind
<1> DEFINE kinds == [i \in DOMAIN entry.obs |-> entry.obs[i].kind]
<1>1. entry.before \in Seq(Kinds) /\ entry.obs \in Seq(Result)
  BY DEF Log
<1>2. \A r \in Result : r.kind \in Kinds
  BY DEF Result
<1>3. /\ kinds \in Seq(Kinds) /\ Len(kinds) = Len(entry.obs)
      /\ \A i \in 1..Len(entry.obs) : kinds[i] = entry.obs[i].kind
  BY <1>1, <1>2
<1>4. Rounds(entry) = entry.before \o kinds
  BY DEF Rounds
<1> HIDE DEF kinds
<1> DEFINE k == Len(entry.before)
           m == Len(entry.obs)
<1>5. k \in Nat /\ m \in Nat
  BY <1>1
<1>6. /\ Rounds(entry) \in Seq(Kinds) /\ Len(Rounds(entry)) = k + m
      /\ \A i \in 1..(k + m) : Rounds(entry)[i] =
           IF i <= k THEN entry.before[i] ELSE kinds[i - k]
  <2> DEFINE s == entry.before
  <2>1. s \in Seq(Kinds) /\ kinds \in Seq(Kinds) /\ Len(kinds) = m
    BY <1>1, <1>3
  <2> HIDE DEF s
  <2>2. /\ s \o kinds \in Seq(Kinds)
        /\ Len(s \o kinds) = Len(s) + Len(kinds)
        /\ \A i \in 1..(Len(s) + Len(kinds)) : (s \o kinds)[i] =
             IF i <= Len(s) THEN s[i] ELSE kinds[i - Len(s)]
    BY <2>1
  <2> QED
    BY <1>4, <2>1, <2>2, Zenon DEF s
<1> HIDE DEF k, m
<1>7. ASSUME NEW i \in 1..(k + m)
      PROVE  Rounds(entry)[i] =
               IF i <= k THEN entry.before[i] ELSE entry.obs[i - k].kind
  <2>1. ~(i <= k) => i - k \in 1..m
    BY <1>5
  <2> QED
    BY <1>3, <1>6, <2>1 DEF m
<1> QED
  BY <1>6, <1>7 DEF k, m

LEMMA RoundsGrow ==
  ASSUME NEW entry \in Log, NEW r \in Result
  PROVE  LET longer == [entry EXCEPT !.obs = Append(@, r)]
             n == Len(Rounds(entry))
         IN /\ n \in Nat /\ \A i \in 1..n : Rounds(entry)[i] \in Kinds
            /\ Len(Rounds(longer)) = n + 1
            /\ Rounds(longer)[n + 1] = r.kind
            /\ \A i \in 1..n : Rounds(longer)[i] = Rounds(entry)[i]
            /\ longer.obs # <<>>
            /\ longer.base = entry.base
            /\ longer \in Log
<1> DEFINE longer == [entry EXCEPT !.obs = Append(@, r)]
           k == Len(entry.before)
           m == Len(entry.obs)
<1>1. /\ longer \in Log /\ longer.base = entry.base
      /\ m \in Nat /\ Len(longer.obs) = m + 1
      /\ longer.obs[m + 1] = r
      /\ \A i \in 1..m : longer.obs[i] = entry.obs[i]
  BY Longer
<1>2. longer.before = entry.before /\ k \in Nat
  BY DEF Log
<1> HIDE DEF longer, m, k
<1>3. /\ Rounds(entry) \in Seq(Kinds) /\ Len(Rounds(entry)) = k + m
      /\ \A i \in 1..(k + m) :
           Rounds(entry)[i] = IF i <= k THEN entry.before[i]
                              ELSE entry.obs[i - k].kind
  BY RoundsTypes DEF k, m
<1>4. /\ Len(Rounds(longer)) = k + (m + 1)
      /\ \A i \in 1..(k + (m + 1)) :
           Rounds(longer)[i] = IF i <= k THEN entry.before[i]
                               ELSE longer.obs[i - k].kind
  BY <1>1, <1>2, RoundsTypes DEF k
<1>5. Rounds(longer)[k + m + 1] = r.kind
  BY <1>1, <1>2, <1>4
<1>6. ASSUME NEW i \in 1..(k + m)
      PROVE  Rounds(longer)[i] = Rounds(entry)[i]
  <2>1. i \in 1..(k + (m + 1)) /\ (~(i <= k) => i - k \in 1..m)
    BY <1>1, <1>2
  <2> QED
    BY <1>1, <1>3, <1>4, <2>1
<1>7. longer.obs # <<>>
  BY <1>1
<1>8. k + m \in Nat /\ k + (m + 1) = k + m + 1
  BY <1>1, <1>2
<1>9. \A i \in 1..(k + m) : Rounds(entry)[i] \in Kinds
  BY <1>3
<1> QED
  BY <1>1, <1>3, <1>4, <1>5, <1>6, <1>7, <1>8, <1>9 DEF longer

LEMMA TrailingGrows ==
  ASSUME NEW entry \in Log, NEW r \in Result, NEW kind, NEW k,
         Trailing(entry, kind, k)
  PROVE  Trailing([entry EXCEPT !.obs = Append(@, r)], kind,
                  IF r.kind = kind THEN k + 1 ELSE 0)
<1> DEFINE longer == [entry EXCEPT !.obs = Append(@, r)]
            n == Len(Rounds(entry))
<1>1. /\ n \in Nat /\ Len(Rounds(longer)) = n + 1
      /\ Rounds(longer)[n + 1] = r.kind
      /\ \A i \in 1..n : Rounds(longer)[i] = Rounds(entry)[i]
  BY RoundsGrow
<1>2. /\ k \in 0..n
      /\ \A i \in (n - k + 1)..n : Rounds(entry)[i] = kind
      /\ k < n => Rounds(entry)[n - k] # kind
  BY DEF Trailing
<1> HIDE DEF longer, n
<1>3. CASE r.kind = kind
  <2>1. /\ k + 1 \in 0..(n + 1)
        /\ \A i \in (n + 1 - (k + 1) + 1)..(n + 1) :
             i = n + 1 \/ (i \in 1..n /\ i \in (n - k + 1)..n)
        /\ k + 1 < n + 1 => /\ n + 1 - (k + 1) = n - k /\ n - k \in 1..n
                            /\ k < n
    BY <1>1, <1>2
  <2>2. \A i \in (n + 1 - (k + 1) + 1)..(n + 1) : Rounds(longer)[i] = kind
    BY <1>1, <1>2, <1>3, <2>1
  <2>3. k + 1 < n + 1 => Rounds(longer)[n + 1 - (k + 1)] # kind
    BY <1>1, <1>2, <2>1
  <2>4. Trailing(longer, kind, k + 1)
    <3> DEFINE m == Len(Rounds(longer))
    <3>1. m = n + 1
      BY <1>1
    <3> HIDE DEF m
    <3>2. k \in Nat /\ m - (k + 1) = n + 1 - (k + 1)
          /\ m - (k + 1) + 1 = n + 1 - (k + 1) + 1
      BY <1>1, <1>2, <3>1
    <3>3. k + 1 \in 0..m
      BY <2>1, <3>1
    <3>4. \A i \in (m - (k + 1) + 1)..m : Rounds(longer)[i] = kind
      BY <2>2, <3>1, <3>2, Zenon
    <3>5. k + 1 < m => Rounds(longer)[m - (k + 1)] # kind
      BY <2>3, <3>1, <3>2, Zenon
    <3> QED
      BY <3>3, <3>4, <3>5, Zenon DEF Trailing, m
  <2> QED
    BY <1>3, <2>4 DEF longer
<1>4. CASE r.kind # kind
  <2>1. /\ 0 \in 0..(n + 1) /\ (n + 1 - 0 + 1)..(n + 1) = {}
        /\ n + 1 - 0 = n + 1
    BY <1>1
  <2> QED
    BY <1>1, <1>4, <2>1 DEF Trailing, longer
<1> QED
  BY <1>3, <1>4

(* The verdict of a history, in terms of its last results.                 *)
LEMMA VerdictOf ==
  ASSUME NEW entry, NEW n \in Nat, n = Len(Rounds(entry))
  PROVE  /\ entry.obs = <<>> => Verdict(entry) = entry.base
         /\ entry.obs # <<>> /\ entry.base \in Replacing /\ Confirmations(entry) = {} =>
              Verdict(entry) =
                IF n >= 2 /\ \A i \in (n - 1)..n : Rounds(entry)[i] = "fail"
                THEN "new_ip_failed" ELSE "verifying_new_ip"
         /\ entry.obs # <<>> /\ ~(entry.base \in Replacing /\ Confirmations(entry) = {})
            =>
              /\ Rounds(entry)[n] = "clean" =>
                   Verdict(entry) =
                     IF entry.base \in Replacing /\ Confirmations(entry) = {n}
                     THEN "fixed" ELSE "healthy"
              /\ Rounds(entry)[n] = "unstable" => Verdict(entry) = "unstable"
              /\ Rounds(entry)[n] = "fail" =>
                   Verdict(entry) =
                     IF n >= 3 /\ \A i \in (n - 2)..n :
                          Rounds(entry)[i] = "fail"
                     THEN "needs_replacement" ELSE "suspected"
<1> DEFINE failing(k) ==
              n >= k /\ \A i \in (n - k + 1)..n : Rounds(entry)[i] = "fail"
            last == Rounds(entry)[n]
            waiting == entry.base \in Replacing /\ Confirmations(entry) = {}
            first == entry.base \in Replacing /\ Confirmations(entry) = {n}
<1>1. Verdict(entry) =
        CASE entry.obs = <<>> -> entry.base
          [] entry.obs # <<>> /\ entry.base \in Replacing /\ Confirmations(entry) = {} ->
               IF failing(2) THEN "new_ip_failed" ELSE "verifying_new_ip"
          [] OTHER ->
               CASE last = "clean" ->
                      IF entry.base \in Replacing
                         /\ Confirmations(entry) = {n}
                      THEN "fixed" ELSE "healthy"
                 [] last = "unstable" -> "unstable"
                 [] last = "fail" ->
                      IF failing(3) THEN "needs_replacement" ELSE "suspected"
  BY Zenon DEF Verdict, Confirmations
<1>2. n - 2 + 1 = n - 1 /\ n - 3 + 1 = n - 2
  OBVIOUS
<1>3. /\ failing(2) <=>
           n >= 2 /\ \A i \in (n - 1)..n : Rounds(entry)[i] = "fail"
      /\ failing(3) <=>
           n >= 3 /\ \A i \in (n - 2)..n : Rounds(entry)[i] = "fail"
  BY <1>2, Zenon
<1> HIDE DEF failing, last
<1>4. entry.obs = <<>> => Verdict(entry) = entry.base
  BY <1>1
<1>5. entry.obs # <<>> /\ waiting =>
        Verdict(entry) =
          IF failing(2) THEN "new_ip_failed" ELSE "verifying_new_ip"
  BY <1>1
<1>6. entry.obs # <<>> /\ ~waiting =>
        /\ last = "clean" =>
             Verdict(entry) = IF first THEN "fixed" ELSE "healthy"
        /\ last = "unstable" => Verdict(entry) = "unstable"
        /\ last = "fail" =>
             Verdict(entry) =
               IF failing(3) THEN "needs_replacement" ELSE "suspected"
  BY <1>1
<1> QED
  BY <1>3, <1>4, <1>5, <1>6 DEF last

(* A result is a confirmation if it and the one before it are clean.       *)
LEMMA ConfirmationsGrow ==
  ASSUME NEW entry \in Log, NEW r \in Result
  PROVE  LET n == Len(Rounds(entry))
         IN /\ Confirmations(entry) \subseteq 2..n
            /\ Confirmations([entry EXCEPT !.obs = Append(@, r)]) =
                 Confirmations(entry) \cup
                   IF n >= 1 /\ r.kind = "clean"
                      /\ Rounds(entry)[n] = "clean"
                   THEN {n + 1} ELSE {}
<1> DEFINE longer == [entry EXCEPT !.obs = Append(@, r)]
            n == Len(Rounds(entry))
            new == IF n >= 1 /\ r.kind = "clean"
                      /\ Rounds(entry)[n] = "clean"
                   THEN {n + 1} ELSE {}
<1>1. /\ n \in Nat /\ Len(Rounds(longer)) = n + 1
      /\ Rounds(longer)[n + 1] = r.kind
      /\ \A i \in 1..n : Rounds(longer)[i] = Rounds(entry)[i]
  BY RoundsGrow
<1> HIDE DEF longer
<1>2. Confirmations(entry) \subseteq 2..n
  BY DEF Confirmations
<1> HIDE DEF n
<1>3. ASSUME NEW i \in 2..(n + 1)
      PROVE  i \in Confirmations(longer) <=>
               i \in Confirmations(entry) \cup new
  <2>1. CASE i = n + 1
    <3>1. n >= 1 /\ n \in 1..n /\ i - 1 = n /\ i \notin 2..n
      BY <1>1, <2>1
    <3>2. /\ Rounds(longer)[i] = r.kind
          /\ Rounds(longer)[i - 1] = Rounds(entry)[n]
      BY <1>1, <2>1, <3>1
    <3>3. i \notin Confirmations(entry)
      BY <1>2, <3>1
    <3>4. i \in Confirmations(longer) <=>
            r.kind = "clean" /\ Rounds(entry)[n] = "clean"
      BY <1>1, <3>2 DEF Confirmations
    <3> QED
      BY <2>1, <3>1, <3>3, <3>4
  <2>2. CASE i # n + 1
    <3>1. i \in 2..n /\ i \in 1..n /\ i - 1 \in 1..n
      BY <1>1, <2>2
    <3>2. /\ Rounds(longer)[i] = Rounds(entry)[i]
          /\ Rounds(longer)[i - 1] = Rounds(entry)[i - 1]
      BY <1>1, <3>1
    <3>3. i \in Confirmations(longer) <=> i \in Confirmations(entry)
      BY <1>1, <3>1, <3>2 DEF Confirmations, n
    <3> QED
      BY <2>2, <3>3
  <2> QED
    BY <2>1, <2>2
<1>4. Confirmations(longer) \subseteq 2..(n + 1)
  BY <1>1 DEF Confirmations
<1>5. Confirmations(entry) \cup new \subseteq 2..(n + 1)
  BY <1>1, <1>2
<1>6. Confirmations(longer) = Confirmations(entry) \cup new
  BY <1>3, <1>4, <1>5
<1> QED
  BY <1>2, <1>6 DEF longer, n

(* As long as a replacement is not confirmed, and only then, the state is  *)
(* one of a replacement.                                                   *)
LEMMA ReplacingUntilConfirmed ==
  ASSUME NEW node, NEW entry \in Log, Follows(node, entry)
  PROVE  node.state \in Replacing <=>
           entry.base \in Replacing /\ Confirmations(entry) = {}
<1> DEFINE n == Len(Rounds(entry))
<1>1. /\ n \in Nat /\ node.state = Verdict(entry)
      /\ entry.obs = <<>> /\ entry.base \in Replacing =>
           Confirmations(entry) = {}
  BY RoundsTypes DEF Follows
<1>2. CASE entry.obs = <<>>
  <2>1. node.state = entry.base
    BY <1>1, <1>2, VerdictOf
  <2> QED
    BY <1>1, <1>2, <2>1
<1>3. CASE entry.obs # <<>>
  <2>1. Rounds(entry)[n] \in {"clean", "unstable", "fail"}
    <3>1. entry.obs \in Seq(Result) /\ entry.before \in Seq(Kinds)
      BY DEF Log
    <3>2. /\ Rounds(entry) \in Seq(Kinds)
          /\ n = Len(entry.before) + Len(entry.obs)
      BY RoundsTypes
    <3>3. Len(entry.before) \in Nat /\ Len(entry.obs) \in Nat \ {0}
      <4> DEFINE b == entry.before
                 o == entry.obs
      <4>1. b \in Seq(Kinds) /\ o \in Seq(Result) /\ o # <<>>
        BY <1>3, <3>1
      <4> HIDE DEF b, o
      <4>2. Len(b) \in Nat /\ Len(o) \in Nat \ {0}
        BY <4>1
      <4> QED
        BY <4>2 DEF b, o
    <3>4. n \in 1..n
      <4>1. \A b \in Nat, o \in Nat \ {0} : b + o \in 1..(b + o)
        OBVIOUS
      <4> HIDE DEF n
      <4> QED
        BY <3>2, <3>3, <4>1, Zenon
    <3> QED
      <4> DEFINE round == Rounds(entry)
      <4>1. round \in Seq(Kinds) /\ n = Len(round)
        BY <3>2
      <4> HIDE DEF round, n
      <4>2. round[n] \in Kinds
        BY <3>4, <4>1
      <4> QED
        BY <4>2 DEF round, Kinds
  <2>2. CASE entry.base \in Replacing /\ Confirmations(entry) = {}
    <3>1. node.state \in {"new_ip_failed", "verifying_new_ip"}
      BY <1>1, <1>3, <2>2, VerdictOf
    <3> QED
      BY <2>2, <3>1 DEF Replacing
  <2>3. CASE ~(entry.base \in Replacing /\ Confirmations(entry) = {})
    <3>1. node.state \in {"fixed", "healthy", "unstable",
                          "needs_replacement", "suspected"}
      BY <1>1, <1>3, <2>1, <2>3, VerdictOf
    <3> QED
      BY <2>3, <3>1 DEF Replacing
  <2> QED
    BY <2>2, <2>3
<1> QED
  BY <1>1, <1>2, <1>3

(* A result keeps the state the verdict of the history.                    *)
LEMMA FollowsResult ==
  ASSUME NEW node \in Node, NEW entry \in Log, NEW r \in Result,
         Follows(node, entry)
  PROVE  Follows(ApplyResult(node, r),
                 [entry EXCEPT !.obs = Append(@, r)])
<1> DEFINE longer == [entry EXCEPT !.obs = Append(@, r)]
            new == ApplyResult(node, r)
            n == Len(Rounds(entry))
            pairs == Confirmations(entry)
            up == node.successes
            down == node.failures
<1>1. /\ n \in Nat /\ Len(Rounds(longer)) = n + 1
      /\ Rounds(longer)[n + 1] = r.kind
      /\ \A i \in 1..n : Rounds(longer)[i] = Rounds(entry)[i]
      /\ longer.base = entry.base /\ longer \in Log /\ longer.obs # <<>>
  BY RoundsGrow
<1>2. After(node, new, r.kind)
  BY ApplyCounts
<1>3. /\ pairs \subseteq 2..n
      /\ Confirmations(longer) = pairs \cup
           IF n >= 1 /\ r.kind = "clean" /\ Rounds(entry)[n] = "clean"
           THEN {n + 1} ELSE {}
  BY ConfirmationsGrow
<1>4. /\ Trailing(longer, "clean", IF r.kind = "clean" THEN up + 1 ELSE 0)
      /\ Trailing(longer, "fail", IF r.kind = "fail" THEN down + 1 ELSE 0)
  BY TrailingGrows DEF Follows
<1>5. node.state \in Replacing <=> entry.base \in Replacing /\ pairs = {}
  BY ReplacingUntilConfirmed
<1>6. r.kind \in {"clean", "unstable", "fail"} /\ up \in Nat /\ down \in Nat
  BY DEF Result, Kinds, Node
<1>7. /\ up \in 0..n /\ down \in 0..n
      /\ \A i \in (n - up + 1)..n : Rounds(entry)[i] = "clean"
      /\ up < n => Rounds(entry)[n - up] # "clean"
      /\ \A i \in (n - down + 1)..n : Rounds(entry)[i] = "fail"
      /\ down < n => Rounds(entry)[n - down] # "fail"
  BY DEF Follows, Trailing
<1> HIDE DEF longer, new, n, pairs, up, down
<1>8. up >= 1 <=> n >= 1 /\ Rounds(entry)[n] = "clean"
  <2>1. CASE up = 0
    <3>1. n - up = n
      BY <1>1, <2>1
    <3> QED
      BY <1>1, <1>7, <2>1, <3>1
  <2>2. CASE up >= 1
    BY <1>1, <1>7, <2>2
  <2> QED
    BY <1>6, <2>1, <2>2
<1>9. /\ down >= 1 <=> n >= 1 /\ Rounds(entry)[n] = "fail"
      /\ down >= 2 <=> /\ n >= 2 /\ Rounds(entry)[n] = "fail"
                       /\ Rounds(entry)[n - 1] = "fail"
  <2>1. CASE down = 0
    <3>1. n - down = n
      BY <1>1, <2>1
    <3> QED
      BY <1>1, <1>7, <2>1, <3>1
  <2>2. CASE down = 1
    <3>1. n - down = n - 1 /\ n >= 1 /\ n \in (n - down + 1)..n
          /\ (down < n <=> n >= 2)
      BY <1>1, <1>7, <2>2
    <3> QED
      BY <1>7, <2>2, <3>1
  <2>3. CASE down >= 2
    <3>1. /\ n >= 2 /\ n \in (n - down + 1)..n
          /\ n - 1 \in (n - down + 1)..n
      BY <1>1, <1>7, <2>3
    <3> QED
      BY <1>7, <2>3, <3>1
  <2> QED
    BY <1>6, <2>1, <2>2, <2>3
<1>10. new.state = Verdict(longer)
  <2>1. CASE node.state \in Replacing
    <3>1. /\ entry.base \in Replacing /\ pairs = {}
          /\ new.state =
               IF r.kind = "clean" /\ up >= 1 THEN "fixed"
               ELSE IF r.kind = "fail" /\ down >= 1 THEN "new_ip_failed"
               ELSE "verifying_new_ip"
      BY <1>2, <1>5, <2>1 DEF After, up, down
    <3>2. CASE r.kind = "clean" /\ up >= 1
      <4>1. Confirmations(longer) = {n + 1} /\ new.state = "fixed"
        BY <1>3, <1>8, <3>1, <3>2
      <4>2. n + 1 \in Nat /\ n + 1 > 0 /\ {n + 1} # {}
        BY <1>1
      <4>3. Verdict(longer) = "fixed"
        BY <1>1, <3>1, <3>2, <4>1, <4>2, VerdictOf
      <4> QED
        BY <4>1, <4>3
    <3>3. CASE ~(r.kind = "clean" /\ up >= 1)
      <4>1. Confirmations(longer) = {}
        BY <1>3, <1>8, <3>1, <3>3
      <4>2. Verdict(longer) =
              IF n + 1 >= 2
                 /\ \A i \in (n + 1 - 1)..(n + 1) : Rounds(longer)[i] = "fail"
              THEN "new_ip_failed" ELSE "verifying_new_ip"
        BY <1>1, <3>1, <4>1, VerdictOf
      <4>3. (n + 1 >= 2
             /\ \A i \in (n + 1 - 1)..(n + 1) : Rounds(longer)[i] = "fail")
            <=> r.kind = "fail" /\ down >= 1
        <5>1. n + 1 >= 2 =>
                /\ n + 1 - 1 = n /\ n \in 1..n
                /\ \A i \in n..(n + 1) : i = n \/ i = n + 1
                /\ n \in n..(n + 1) /\ n + 1 \in n..(n + 1)
          BY <1>1
        <5> QED
          BY <1>1, <1>9, <5>1
      <4> QED
        BY <1>6, <3>1, <3>3, <4>2, <4>3
    <3> QED
      BY <3>2, <3>3
  <2>2. CASE node.state \notin Replacing
    <3>1. /\ ~(entry.base \in Replacing /\ pairs = {})
          /\ new.state =
               IF r.kind = "clean" THEN "healthy"
               ELSE IF r.kind = "unstable" THEN "unstable"
               ELSE IF down >= 2 THEN "needs_replacement"
               ELSE "suspected"
      BY <1>2, <1>5, <2>2 DEF After, down
    <3>2. /\ ~(entry.base \in Replacing /\ Confirmations(longer) = {})
          /\ ~(entry.base \in Replacing /\ Confirmations(longer) = {n + 1})
      <4>1. n + 1 \notin 2..n
        BY <1>1
      <4>2. pairs # {} => \E i \in pairs : i # n + 1
        BY <1>3, <4>1
      <4> QED
        BY <1>3, <3>1, <4>2
    <3>3. /\ r.kind = "clean" => Verdict(longer) = "healthy"
          /\ r.kind = "unstable" => Verdict(longer) = "unstable"
          /\ r.kind = "fail" => Verdict(longer) =
               IF n + 1 >= 3 /\ \A i \in (n + 1 - 2)..(n + 1) :
                    Rounds(longer)[i] = "fail"
               THEN "needs_replacement" ELSE "suspected"
      BY <1>1, <3>2, VerdictOf
    <3>4. ASSUME r.kind = "fail"
          PROVE  (n + 1 >= 3 /\ \A i \in (n + 1 - 2)..(n + 1) :
                    Rounds(longer)[i] = "fail") <=> down >= 2
      <4>1. n + 1 >= 3 =>
              /\ n + 1 - 2 = n - 1 /\ n \in 1..n /\ n - 1 \in 1..n
              /\ \A i \in (n - 1)..(n + 1) : i = n - 1 \/ i = n \/ i = n + 1
              /\ {n - 1, n, n + 1} \subseteq (n - 1)..(n + 1)
        BY <1>1
      <4>2. n + 1 >= 3 <=> n >= 2
        BY <1>1
      <4> QED
        BY <1>1, <1>9, <3>4, <4>1, <4>2
    <3> QED
      BY <1>6, <3>1, <3>3, <3>4
  <2> QED
    BY <2>1, <2>2
<1>11. /\ new.successes = IF r.kind = "clean" THEN up + 1 ELSE 0
       /\ new.failures = IF r.kind = "fail" THEN down + 1 ELSE 0
  BY <1>2 DEF After, up, down
<1>12. /\ Trailing(longer, "clean", new.successes)
       /\ Trailing(longer, "fail", new.failures)
  BY <1>4, <1>11
<1> QED
  BY <1>1, <1>4, <1>10, <1>12 DEF Follows, longer, new

(* What a step does to the repair state of one node and its history.       *)
Keeps(n) ==
  /\ log'[n] = log[n]
  /\ monitor'[n] # NoNode =>
       /\ monitor[n] # NoNode
       /\ monitor'[n].state = monitor[n].state
       /\ monitor'[n].successes = monitor[n].successes
       /\ monitor'[n].failures = monitor[n].failures

Begins(n) ==
  /\ monitor'[n].state \in {"unknown", "ip_changed", "config_changed"}
  /\ monitor'[n].successes = 0 /\ monitor'[n].failures = 0
  /\ clock' = clock + 1
  /\ \E cause \in {"new", "reload", "dns"} :
       /\ log'[n] = EmptyLog(cause, monitor'[n].state, clock + 1)
       /\ cause = "reload" => results'[n] = NoResult /\ evidence'[n] = NoResult

Counts(n) ==
  /\ monitor[n] \in Node /\ results[n] \in Result
  /\ monitor[n].lastResultAt < results[n].at
  /\ monitor'[n] = ApplyResult(monitor[n], results[n])
  /\ log'[n] = [log[n] EXCEPT !.obs = Append(@, results[n])]
  /\ UNCHANGED <<clock, results, evidence>>

(* A node that is new or has another connection begins a history.          *)
LEMMA NewNodeBegins ==
  ASSUME NEW rev
  PROVE  /\ NewNode(rev).state = "unknown"
         /\ NewNode(rev).successes = 0 /\ NewNode(rev).failures = 0
BY DEF NewNode

LEMMA MarkBegins ==
  ASSUME NEW node \in Node, NEW rev, NEW now
  PROVE  LET new == MarkRevisionChanged(node, rev, now)
         IN /\ new.state \in {"ip_changed", "config_changed"}
            /\ new.successes = 0 /\ new.failures = 0
BY DEF MarkRevisionChanged, Node

LEMMA ReturnedKeeps ==
  ASSUME NEW node \in Node, NEW rev
  PROVE  LET new == Returned(node, rev)
         IN /\ new.state = node.state
            /\ new.successes = node.successes
            /\ new.failures = node.failures
BY DEF Returned, Node

LEMMA ResolveBegins ==
  ASSUME NEW node \in Node, NEW ips, NEW now
  PROVE  LET new == ResolveNode(node, ips, now)
         IN IF DNSMoves(node, ips)
            THEN /\ new.state = "ip_changed"
                 /\ new.successes = 0 /\ new.failures = 0
            ELSE /\ new.state = node.state
                 /\ new.successes = node.successes
                 /\ new.failures = node.failures
<1>1. CASE DNSMoves(node, ips)
  BY <1>1 DEF ResolveNode, Node
<1>2. CASE ~DNSMoves(node, ips)
  <2>1. ResolveNode(node, ips, now) \in {node, [node EXCEPT !.ips = ips]}
    BY <1>2 DEF ResolveNode
  <2> QED
    BY <1>2, <2>1 DEF Node
<1> QED
  BY <1>1, <1>2

LEMMA HistoryOfReload ==
  ASSUME TypeInv, PrunedResults, NEW new \in Targets, Reload(new),
         NEW n \in Nodes
  PROVE  Keeps(n) \/ Begins(n)
<1> USE DEF Reload
<1>1. /\ monitor'[n] = UpdateNode(n, new) /\ log'[n] = UpdateLog(n, new)
      /\ clock' = clock + 1
      /\ results'[n] = IF Changed(n, new) THEN NoResult ELSE results[n]
      /\ refresh = "idle"
  OBVIOUS
<1>2. evidence'[n] = NoResult
  BY DEF ChecksPaused, TypeInv, EvidenceHeld, Workers
<1>3. /\ monitor[n] \in Node \cup {NoNode}
      /\ cfg[n] # Absent => monitor[n] # NoNode
  BY DEF TypeInv, TypeOK, KnownPresent, Present, Named
<1> HIDE DEF Reload
<1>4. CASE Added(n, new) /\ monitor[n] = NoNode
  <2>1. /\ monitor'[n] = NewNode(new[n])
        /\ log'[n] = EmptyLog("new", "unknown", clock + 1)
    BY <1>1, <1>4 DEF UpdateNode, UpdateLog
  <2> QED
    BY <1>1, <2>1, NewNodeBegins DEF Begins
<1>5. CASE Changed(n, new) \/ ReturnedChanged(n, new)
  <2>1. monitor[n] \in Node /\ monitor[n] # NoNode
    BY <1>3, <1>5 DEF Changed, ReturnedChanged
  <2>2. /\ monitor'[n] = MarkRevisionChanged(monitor[n], new[n], clock + 1)
        /\ log'[n] = EmptyLog("reload", monitor'[n].state, clock + 1)
    BY <1>1, <1>5, <2>1 DEF UpdateNode, UpdateLog
  <2>3. results'[n] = NoResult
    BY <1>1, <1>5 DEF ReturnedChanged, Added, PrunedResults
  <2>4. /\ monitor'[n].state \in {"ip_changed", "config_changed"}
        /\ monitor'[n].successes = 0 /\ monitor'[n].failures = 0
    BY <2>1, <2>2, MarkBegins
  <2> QED
    BY <1>1, <1>2, <2>2, <2>3, <2>4 DEF Begins
<1>6. CASE /\ ~(Added(n, new) /\ monitor[n] = NoNode)
           /\ ~(Changed(n, new) \/ ReturnedChanged(n, new))
  <2>1. log'[n] = log[n]
    BY <1>1, <1>6 DEF UpdateLog
  <2>2. monitor'[n] = IF Added(n, new) THEN Returned(monitor[n], new[n])
                      ELSE monitor[n]
    BY <1>1, <1>6 DEF UpdateNode
  <2>3. CASE Added(n, new)
    <3>1. monitor[n] \in Node /\ monitor[n] # NoNode
      BY <1>3, <1>6, <2>3
    <3> QED
      BY <2>1, <2>2, <2>3, <3>1, ReturnedKeeps DEF Keeps
  <2> QED
    BY <2>1, <2>2, <2>3 DEF Keeps
<1> QED
  BY <1>4, <1>5, <1>6

LEMMA HistoryOfRecordResults ==
  ASSUME TypeInv, NEW w \in Workers, RecordResults(w), NEW n \in Nodes
  PROVE  Keeps(n) \/ Counts(n)
<1> USE DEF RecordResults
<1>1. CASE n \in Named(job[w].targets) /\ IsNews(n)
  <2>1. /\ monitor[n] \in Node /\ results[n] \in Result
        /\ monitor[n].lastResultAt < results[n].at
    BY <1>1, NewsOfKnown
  <2> QED
    BY <1>1, <2>1 DEF Counts
<1>2. CASE ~(n \in Named(job[w].targets) /\ IsNews(n))
  BY <1>2 DEF Keeps
<1> QED
  BY <1>1, <1>2

LEMMA HistoryOfRefreshResolvedIPs ==
  ASSUME TypeInv, NEW answer \in Answers, RefreshResolvedIPs(answer),
         NEW n \in Nodes
  PROVE  Keeps(n) \/ Begins(n)
<1> DEFINE ips == IPsOf(n, answer)
            moved == {m \in Present : DNSMoves(monitor[m], IPsOf(m, answer))}
<1>1. /\ log'[n] = IF n \in moved THEN EmptyLog("dns", "ip_changed", clock + 1)
                   ELSE log[n]
      /\ monitor'[n] = IF n \in Present
                       THEN ResolveNode(monitor[n], ips, clock + 1)
                       ELSE monitor[n]
      /\ moved # {} => clock' = clock + 1
  BY DEF RefreshResolvedIPs
<1> HIDE DEF moved
<1>2. CASE n \notin Present
  BY <1>1, <1>2 DEF Keeps, moved
<1>3. CASE n \in Present
  <2>1. monitor[n] \in Node /\ monitor[n] # NoNode
    BY <1>3, ResolvedTypes, NodeMonitorAssumption
  <2>2. CASE DNSMoves(monitor[n], ips)
    <3>1. n \in moved
      BY <1>3, <2>2 DEF moved
    <3>2. /\ monitor'[n].state = "ip_changed"
          /\ monitor'[n].successes = 0 /\ monitor'[n].failures = 0
      BY <1>1, <1>3, <2>1, <2>2, ResolveBegins
    <3>3. log'[n] = EmptyLog("dns", "ip_changed", clock + 1)
          /\ clock' = clock + 1
      BY <1>1, <3>1
    <3> QED
      BY <3>2, <3>3 DEF Begins
  <2>3. CASE ~DNSMoves(monitor[n], ips)
    <3>1. n \notin moved
      BY <2>3 DEF moved
    <3>2. /\ monitor'[n].state = monitor[n].state
          /\ monitor'[n].successes = monitor[n].successes
          /\ monitor'[n].failures = monitor[n].failures
      BY <1>1, <1>3, <2>1, <2>3, ResolveBegins
    <3> QED
      BY <1>1, <2>1, <3>1, <3>2 DEF Keeps
  <2> QED
    BY <2>2, <2>3
<1> QED
  BY <1>2, <1>3

LEMMA HistoryOfQueueEndpointValidation ==
  ASSUME TypeInv, NEW S \in SUBSET Nodes, QueueEndpointValidation(S),
         NEW n \in Nodes
  PROVE  Keeps(n)
<1> USE DEF QueueEndpointValidation
<1>1. CASE n \in S
  <2>1. /\ monitor[n] \in Node /\ monitor[n] # NoNode
        /\ monitor'[n] = [monitor[n] EXCEPT !.wait = 0]
        /\ log'[n] = log[n]
    BY <1>1 DEF TypeInv, TypeOK
  <2> QED
    BY <2>1 DEF Keeps, Node
<1>2. CASE n \notin S
  BY <1>2 DEF Keeps
<1> QED
  BY <1>1, <1>2

LEMMA EveryHistory ==
  ASSUME TypeInv, PrunedResults, [Next]_vars, NEW n \in Nodes
  PROVE  Keeps(n) \/ Begins(n) \/ Counts(n)
<1>1. CASE UNCHANGED <<monitor, log>>
  BY <1>1 DEF Keeps
<1> QED
  BY <1>1, MonitorWriters, HistoryOfRecordResults, HistoryOfReload,
     HistoryOfRefreshResolvedIPs, HistoryOfQueueEndpointValidation

-----------------------------------------------------------------------------
(* State and verdict.                                                      *)

HistoryFollows == \A n \in Nodes : Known(n) => Follows(monitor[n], log[n])

(* Nothing was counted in a history that begins.                           *)
LEMMA EmptyFollows ==
  ASSUME NEW node, NEW cause, NEW now,
         node.successes = 0, node.failures = 0
  PROVE  Follows(node, EmptyLog(cause, node.state, now))
<1> DEFINE entry == EmptyLog(cause, node.state, now)
<1>1. entry.obs = <<>> /\ entry.before = <<>> /\ entry.base = node.state
  BY DEF EmptyLog
<1>2. Len(Rounds(entry)) = 0
  BY <1>1 DEF Rounds
<1> HIDE DEF entry
<1>3. Trailing(entry, "clean", 0) /\ Trailing(entry, "fail", 0)
  BY <1>2 DEF Trailing
<1>4. Verdict(entry) = node.state
  BY <1>1, <1>2, VerdictOf
<1>5. Confirmations(entry) = {}
  BY <1>2 DEF Confirmations
<1> QED
  BY <1>1, <1>3, <1>4, <1>5 DEF Follows, entry

(* A restored node brings the rounds its counters stand for, too few to    *)
(* confirm a replacement.                                                  *)
LEMMA StartFollows ==
  ASSUME NEW node \in Node, CountersFit(node)
  PROVE  Follows(node, StartLog(node))
<1> DEFINE entry == StartLog(node)
           up == node.successes
           down == node.failures
           before == [i \in 1..(down + up) |->
                        IF down > 0 THEN "fail" ELSE "clean"]
<1>1. up \in Nat /\ down \in Nat /\ node # NoNode
  BY NodeMonitorAssumption DEF Node
<1>2. entry = [EmptyLog("start", node.state, Past) EXCEPT !.before = before]
  BY <1>1 DEF StartLog
<1>3. entry.obs = <<>> /\ entry.base = node.state /\ entry.before = before
  BY <1>2 DEF EmptyLog
<1>4. entry \in Log
  BY StartLogTypes
<1>5. up = 0 \/ down = 0
  BY DEF CountersFit
<1>6. node.state \in Replacing => up <= 1
  BY DEF CountersFit, Replacing
<1>7. before \in Seq(Kinds) /\ Len(before) = down + up
  BY <1>1 DEF Kinds
<1>8. /\ Len(Rounds(entry)) = down + up
      /\ \A i \in 1..(down + up) :
           Rounds(entry)[i] = IF down > 0 THEN "fail" ELSE "clean"
  <2> HIDE DEF before, entry
  <2>1. Len(entry.obs) = 0
    BY <1>3
  <2>2. down + up \in Nat /\ down + up + 0 = down + up
    BY <1>1
  <2>3. Len(Rounds(entry)) = Len(before) + 0
    BY <1>3, <1>4, <2>1, RoundsTypes
  <2>4. Len(Rounds(entry)) = down + up
    BY <1>7, <2>2, <2>3
  <2>5. \A i \in 1..(down + up) : Rounds(entry)[i] = before[i]
    <3>1. \A i \in 1..Len(Rounds(entry)) :
            i <= Len(before) => Rounds(entry)[i] = before[i]
      BY <1>3, <1>4, RoundsTypes
    <3>2. \A i \in 1..(down + up) : i <= down + up
      BY <2>2
    <3> QED
      BY <1>7, <2>4, <3>1, <3>2
  <2> QED
    BY <2>4, <2>5 DEF before
<1> HIDE DEF entry, up, down, before
<1>9. Trailing(entry, "clean", up)
  <2>1. CASE down = 0
    <3>1. \A i \in 1..up : Rounds(entry)[i] = "clean"
      BY <1>1, <1>8, <2>1
    <3>2. Len(Rounds(entry)) = up /\ up - up + 1 = 1
      BY <1>1, <1>8, <2>1
    <3> QED
      BY <1>1, <3>1, <3>2 DEF Trailing
  <2>2. CASE down > 0
    <3>1. /\ up = 0 /\ Len(Rounds(entry)) = down /\ down - 0 = down
          /\ (down - 0 + 1)..down = {} /\ Rounds(entry)[down] = "fail"
      BY <1>1, <1>5, <1>8, <2>2
    <3> QED
      BY <1>1, <3>1 DEF Trailing
  <2> QED
    BY <1>1, <2>1, <2>2
<1>10. Trailing(entry, "fail", down)
  <2>1. CASE down > 0
    <3>1. \A i \in 1..down : Rounds(entry)[i] = "fail"
      BY <1>1, <1>5, <1>8, <2>1
    <3>2. Len(Rounds(entry)) = down /\ down - down + 1 = 1
      BY <1>1, <1>5, <1>8, <2>1
    <3> QED
      BY <1>1, <3>1, <3>2 DEF Trailing
  <2>2. CASE down = 0
    <3>1. /\ Len(Rounds(entry)) = up /\ up - 0 = up
          /\ (up - 0 + 1)..up = {}
          /\ 0 < up => Rounds(entry)[up] = "clean"
      BY <1>1, <1>8, <2>2
    <3> QED
      BY <1>1, <2>2, <3>1 DEF Trailing
  <2> QED
    BY <1>1, <2>1, <2>2
<1>11. Verdict(entry) = node.state
  BY <1>1, <1>3, <1>8, VerdictOf
<1>12. entry.base \in Replacing => Confirmations(entry) = {}
  <2> SUFFICES ASSUME entry.base \in Replacing, NEW i \in Confirmations(entry)
               PROVE  FALSE
    OBVIOUS
  <2>1. i \in 2..(down + up) /\ Rounds(entry)[i] = "clean"
    BY <1>8 DEF Confirmations
  <2>2. i \in 1..(down + up) /\ i >= 2
    BY <1>1, <2>1
  <2>3. ~(down > 0)
    BY <1>8, <2>1, <2>2
  <2> QED
    BY <1>1, <1>3, <1>6, <2>1, <2>2, <2>3
<1> QED
  BY <1>9, <1>10, <1>11, <1>12 DEF Follows, entry, up, down

LEMMA HistoryFollowsInit == Init => HistoryFollows
<1> SUFFICES ASSUME Init, NEW n \in Nodes, Known(n)
              PROVE  Follows(monitor[n], log[n])
  BY DEF HistoryFollows
<1>1. monitor[n] \in Node /\ CountersFit(monitor[n])
  BY StartsRestorable DEF Restorable
<1>2. log[n] = StartLog(monitor[n])
  BY DEF Init
<1> QED
  BY <1>1, <1>2, StartFollows

LEMMA HistoryFollowsNext ==
  TypeInv /\ PrunedResults /\ HistoryFollows /\ [Next]_vars
    => HistoryFollows'
<1> SUFFICES ASSUME TypeInv, PrunedResults, HistoryFollows, [Next]_vars,
                     NEW n \in Nodes, monitor'[n] # NoNode
              PROVE  Follows(monitor'[n], log'[n])
  BY DEF HistoryFollows, Known
<1>1. Known(n) => Follows(monitor[n], log[n])
  BY DEF HistoryFollows
<1>2. CASE Keeps(n)
  <2>1. Follows(monitor[n], log[n])
    BY <1>1, <1>2 DEF Keeps, Known
  <2> QED
    BY <1>2, <2>1 DEF Keeps, Follows
<1>3. CASE Begins(n)
  BY <1>3, EmptyFollows DEF Begins
<1>4. CASE Counts(n)
  <2>1. log[n] \in Log /\ Known(n)
    BY <1>4, NodeMonitorAssumption DEF Counts, Known, TypeInv, TypeOK
  <2> QED
    BY <1>1, <1>4, <2>1, FollowsResult DEF Counts
<1> QED
  BY <1>2, <1>3, <1>4, EveryHistory

LEMMA HistoryFollowsAlways == Spec => []HistoryFollows
<1> QED
  BY TypesAlways, ProvenanceAlways, HistoryFollowsInit, HistoryFollowsNext,
     PTL DEF Spec

(* The state that the monitor keeps from result to result is the verdict   *)
(* of all results counted since the connection was replaced                *)
(* (applyMonitorResult, markNodeRevisionChanged, RefreshResolvedIPs),      *)
(* for histories of any length.                                            *)
THEOREM StateIsVerdict == Spec => []VerdictMatchesHistory
<1>1. HistoryFollows => VerdictMatchesHistory
  BY DEF HistoryFollows, VerdictMatchesHistory, Follows
<1> QED
  BY <1>1, HistoryFollowsAlways, PTL

-----------------------------------------------------------------------------
(* When the results of a history were measured.                            *)

(* In the order they were counted in, none after the last one counted.     *)
InOrder(n) ==
  /\ \A i, j \in DOMAIN log[n].obs :
       i < j => log[n].obs[i].at < log[n].obs[j].at
  /\ \A i \in DOMAIN log[n].obs : log[n].obs[i].at <= TakenAt(n)

(* After a reload, all that was counted and all that may yet be was        *)
(* measured since.                                                         *)
Fresh(n) ==
  /\ log[n].since \in 0..clock
  /\ log[n].cause = "reload" =>
       /\ StoredAt(n) # 0 => StoredAt(n) > log[n].since
       /\ evidence[n] # NoResult => FoundAt(n) > log[n].since
       /\ \A i \in DOMAIN log[n].obs : log[n].obs[i].at > log[n].since

LogTimes == \A n \in Nodes : InOrder(n) /\ Fresh(n)

LEMMA LogTimesInit == Init => LogTimes
<1> SUFFICES ASSUME Init, NEW n \in Nodes PROVE InOrder(n) /\ Fresh(n)
  BY DEF LogTimes
<1>1. log[n] = StartLog(monitor[n]) /\ clock = Past
  BY DEF Init
<1>2. DOMAIN log[n].obs = {} /\ log[n].since = Past /\ log[n].cause = "start"
  BY <1>1 DEF StartLog, EmptyLog
<1> QED
  BY <1>1, <1>2, NodeMonitorAssumption DEF InOrder, Fresh

(* What is counted of one node is never taken back.                        *)
LEMMA TakenGrows ==
  ASSUME NEW n, Ordered(n), Effect(n)
  PROVE  TakenAt(n)' \in Nat /\ TakenAt(n) <= TakenAt(n)'
BY DEF Ordered, Effect, Stays, Measured, Counted, Probed, Promoted, Cleared

(* What is stored or found was so before, or is new.                       *)
LEMMA NewerOnly ==
  ASSUME NEW n, NEW since \in 0..clock, clock \in Nat, Ordered(n), Effect(n),
         StoredAt(n) # 0 => StoredAt(n) > since,
         evidence[n] # NoResult => FoundAt(n) > since
  PROVE  /\ since \in 0..clock'
         /\ StoredAt(n)' # 0 => StoredAt(n)' > since
         /\ evidence'[n] # NoResult => FoundAt(n)' > since
<1>1. evidence'[n] = evidence[n] => FoundAt(n)' = FoundAt(n)
  BY DEF FoundAt
<1>2. clock' \in {clock, clock + 1}
  BY DEF Effect, Stays, Measured, Counted, Probed, Promoted, Cleared
<1>3. StoredAt(n)' # 0 => StoredAt(n)' > since
  BY DEF Ordered, Effect, Stays, Measured, Counted, Probed, Promoted, Cleared
<1>4. evidence'[n] # NoResult => FoundAt(n)' > since
  BY <1>1 DEF Ordered, Effect, Stays, Measured, Counted, Probed, Promoted,
              Cleared
<1> QED
  BY <1>2, <1>3, <1>4

LEMMA LogTimesNext ==
  TypeInv /\ PrunedResults /\ TimesOrdered /\ LogTimes /\ [Next]_vars
    => LogTimes'
<1> SUFFICES ASSUME TypeInv, PrunedResults, TimesOrdered, LogTimes,
                     [Next]_vars, NEW n \in Nodes
              PROVE  (InOrder(n) /\ Fresh(n))'
  BY DEF LogTimes
<1>1. Effect(n) /\ Ordered(n) /\ InOrder(n) /\ Fresh(n) /\ clock \in Nat
  BY EveryEffect, NodeMonitorAssumption
     DEF TimesOrdered, LogTimes, TypeInv, TypeOK
<1>2. log[n] \in Log /\ log[n].since \in Nat
  BY DEF TypeInv, TypeOK, Log
<1>3. TakenAt(n) \in Nat /\ TakenAt(n)' \in Nat /\ TakenAt(n) <= TakenAt(n)'
  <2>1. TakenAt(n)' \in Nat /\ TakenAt(n) <= TakenAt(n)'
    BY <1>1, TakenGrows
  <2>2. TakenAt(n) \in Nat
    BY <1>1 DEF Ordered
  <2> QED
    BY <2>1, <2>2
<1>4. \A i \in DOMAIN log[n].obs : log[n].obs[i].at \in Nat
  <2> DEFINE obs == log[n].obs
  <2>1. obs \in Seq(Result)
    BY <1>2 DEF Log
  <2> HIDE DEF obs
  <2>2. \A i \in DOMAIN obs : obs[i] \in Result
    BY <2>1
  <2> QED
    BY <2>2 DEF Result, obs
<1>5. CASE Keeps(n)
  <2>1. log'[n] = log[n]
    BY <1>5 DEF Keeps
  <2>2. InOrder(n)'
    BY <1>1, <1>3, <1>4, <2>1 DEF InOrder
  <2>3. log[n].since \in 0..clock'
    BY <1>1, <1>2 DEF Fresh, Effect, Stays, Measured, Counted, Probed,
                      Promoted, Cleared
  <2>4. CASE log[n].cause = "reload"
    <3>1. /\ StoredAt(n)' # 0 => StoredAt(n)' > log[n].since
          /\ evidence'[n] # NoResult => FoundAt(n)' > log[n].since
      BY <1>1, <2>4, NewerOnly DEF Fresh
    <3> QED
      BY <1>1, <2>1, <2>2, <2>3, <2>4, <3>1 DEF Fresh
  <2> QED
    BY <2>1, <2>2, <2>3, <2>4 DEF Fresh
<1>6. CASE Begins(n)
  <2>1. PICK cause \in {"new", "reload", "dns"} :
          /\ log'[n] = EmptyLog(cause, monitor'[n].state, clock + 1)
          /\ cause = "reload" =>
               results'[n] = NoResult /\ evidence'[n] = NoResult
    BY <1>6 DEF Begins
  <2>2. /\ DOMAIN log'[n].obs = {} /\ log'[n].since = clock + 1
        /\ log'[n].cause = cause
    BY <2>1 DEF EmptyLog
  <2>3. clock' = clock + 1
    BY <1>6 DEF Begins
  <2>4. cause = "reload" => StoredAt(n)' = 0
    BY <2>1 DEF StoredAt
  <2>5. InOrder(n)'
    BY <2>2 DEF InOrder
  <2>6. Fresh(n)'
    BY <1>1, <2>1, <2>2, <2>3, <2>4 DEF Fresh
  <2> QED
    BY <2>5, <2>6
<1>7. CASE Counts(n)
  <2> DEFINE obs == log[n].obs
              more == log'[n].obs
              m == Len(obs)
  <2>1. /\ m \in Nat /\ DOMAIN obs = 1..m /\ DOMAIN more = 1..(m + 1)
        /\ more[m + 1] = results[n]
        /\ \A i \in 1..m : more[i] = obs[i]
        /\ log'[n].cause = log[n].cause /\ log'[n].since = log[n].since
    BY <1>2, <1>7, Longer DEF Counts
  <2>2. /\ results[n] # NoResult /\ monitor[n] # NoNode
        /\ results[n].at \in Nat /\ monitor[n].lastResultAt < results[n].at
        /\ UNCHANGED <<clock, results, evidence>>
    BY <1>7, NodeMonitorAssumption DEF Counts, Result
  <2>3. /\ TakenAt(n) < results[n].at /\ StoredAt(n) = results[n].at
        /\ StoredAt(n)' = StoredAt(n) /\ FoundAt(n)' = FoundAt(n)
    BY <2>2 DEF TakenAt, StoredAt, FoundAt
  <2>4. TakenAt(n)' = results[n].at
    <3>1. /\ monitor'[n] \in Node
          /\ monitor'[n].lastResultAt = results[n].at
      BY <1>7, ApplyFits DEF Counts
    <3> QED
      BY <3>1, NodeMonitorAssumption DEF TakenAt
  <2>5. /\ \A i, j \in 1..m : i < j => obs[i].at < obs[j].at
        /\ \A i \in 1..m : obs[i].at \in Nat /\ obs[i].at < results[n].at
    <3>1. /\ \A i, j \in DOMAIN obs : i < j => obs[i].at < obs[j].at
          /\ \A i \in DOMAIN obs : obs[i].at \in Nat
                                  /\ obs[i].at <= TakenAt(n)
      BY <1>1, <1>4 DEF InOrder
    <3>2. DOMAIN obs = 1..m
      BY <2>1
    <3> HIDE DEF obs, m, more
    <3> QED
      BY <1>3, <2>2, <2>3, <3>1, <3>2
  <2> HIDE DEF obs, m, more
  <2>6. \A i, j \in 1..(m + 1) : i < j => more[i].at < more[j].at
    <3> SUFFICES ASSUME NEW i \in 1..(m + 1), NEW j \in 1..(m + 1), i < j
                  PROVE  more[i].at < more[j].at
      OBVIOUS
    <3>1. i \in 1..m /\ (j \in 1..m \/ j = m + 1)
      BY <2>1
    <3> QED
      BY <2>1, <2>5, <3>1
  <2>7. \A i \in 1..(m + 1) : more[i].at <= results[n].at
    <3> SUFFICES ASSUME NEW i \in 1..(m + 1)
                  PROVE  more[i].at <= results[n].at
      OBVIOUS
    <3>1. i \in 1..m \/ i = m + 1
      BY <2>1
    <3> QED
      BY <2>1, <2>2, <2>5, <3>1
  <2>8. InOrder(n)'
    BY <2>1, <2>4, <2>6, <2>7 DEF InOrder, more
  <2>9. Fresh(n)'
    <3>1. log'[n].since \in 0..clock'
      BY <1>1, <2>1, <2>2 DEF Fresh
    <3>2. ASSUME log[n].cause = "reload"
          PROVE  /\ StoredAt(n)' # 0 => StoredAt(n)' > log[n].since
                 /\ evidence'[n] # NoResult => FoundAt(n)' > log[n].since
                 /\ \A i \in 1..m : obs[i].at > log[n].since
      BY <1>1, <2>1, <2>2, <2>3, <3>2 DEF Fresh, obs
    <3>3. ASSUME log[n].cause = "reload", NEW i \in 1..(m + 1)
          PROVE  more[i].at > log[n].since
      <4>1. i \in 1..m \/ i = m + 1
        BY <2>1
      <4>2. StoredAt(n)' # 0 /\ StoredAt(n)' = results[n].at
        BY <1>3, <2>2, <2>3
      <4> QED
        BY <2>1, <3>2, <3>3, <4>1, <4>2
    <3> QED
      BY <2>1, <3>1, <3>2, <3>3 DEF Fresh, more
  <2> QED
    BY <2>8, <2>9
<1> QED
  BY <1>5, <1>6, <1>7, EveryHistory

LEMMA LogTimesAlways == Spec => []LogTimes
<1> QED
  BY TimesAlways, ProvenanceAlways, LogTimesInit, LogTimesNext, PTL DEF Spec

(* Every measurement is counted at most once and in the order they were    *)
(* taken in (recordMonitorResults), however many check sets, diagnoses and *)
(* reloads hold the node at the same time.                                 *)
THEOREM MeasurementsCountOnce == Spec => []CountedOnce
<1>1. LogTimes => CountedOnce
  BY DEF LogTimes, InOrder, CountedOnce
<1> QED
  BY <1>1, LogTimesAlways, PTL

(* After a subscription replaced the connection of a node, only            *)
(* measurements since then count towards its confirmation, whichever check *)
(* sets were queued, running or not yet recorded (WithChecksPaused,        *)
(* ApplyProxyUpdate).                                                      *)
THEOREM ConfirmationsAreFresh == Spec => []FreshAfterReload
<1>1. LogTimes => FreshAfterReload
  BY DEF LogTimes, Fresh, FreshAfterReload
<1> QED
  BY <1>1, LogTimesAlways, PTL

-----------------------------------------------------------------------------
(* Nothing stored is forgotten.                                            *)

(* The set that w runs will count what is stored of n when it is done.     *)
Bringing(w, n) ==
  /\ job[w].phase = "checking"
  /\ n \in Named(job[w].targets)
  /\ w = "diagnosis" => n \notin job[w].pending /\ evidence[n] = NoResult

Reaches(n) ==
  results[n] # NoResult /\ results[n].at > Past =>
    \/ monitor[n].lastResultAt = results[n].at
    \/ \E w \in Workers : Bringing(w, n)

(* Every outcome stored since the start was counted or is on the way there.*)
OnTheWay == \A n \in Nodes : cfg[n] # Absent => Reaches(n)

LEMMA OnTheWayInit == Init => OnTheWay
BY NodeMonitorAssumption DEF Init, Restored, OnTheWay, Reaches

(* The steps that leave store, history and the sets that measure alone.    *)
LEMMA ReachesStill ==
  ASSUME NEW n \in Nodes, Reaches(n), UNCHANGED results,
         monitor'[n].lastResultAt = monitor[n].lastResultAt,
         \A w \in Workers : Bringing(w, n) => Bringing(w, n)'
  PROVE  Reaches(n)'
BY DEF Reaches

LEMMA ReachesAfterCheckSet ==
  ASSUME TypeInv, NEW w \in CheckWorkers, NEW n \in Nodes, Reaches(n),
         \/ \E S \in SUBSET Nodes : QueueChecks(w, S)
         \/ EnterRuntime(w)
         \/ GiveUp(w)
         \/ \E m \in Nodes : BeginCheck(w, m)
  PROVE  Reaches(n)'
<1>1. UNCHANGED <<results, monitor, evidence>> /\ w \in Workers
      /\ w # "diagnosis"
  BY DEF QueueChecks, EnterRuntime, GiveUp, BeginCheck, CheckWorkers, Workers
<1>2. job' = job \/ \E j : job' = [job EXCEPT ![w] = j]
  BY DEF QueueChecks, EnterRuntime, GiveUp, BeginCheck
<1>3. \A v \in Workers \ {w} : job'[v] = job[v]
  BY <1>2 DEF TypeInv, TypeOK
<1>4. Bringing(w, n) => Bringing(w, n)'
  <2> SUFFICES ASSUME job[w].phase = "checking",
                       n \in Named(job[w].targets)
                PROVE  /\ job'[w].phase = "checking"
                       /\ n \in Named(job'[w].targets)
    BY <1>1 DEF Bringing, Named
  <2>1. PICK m \in Nodes : BeginCheck(w, m)
    BY DEF QueueChecks, EnterRuntime, GiveUp
  <2>2. job' = job \/ job' = [job EXCEPT ![w].pending = @ \ {m}]
    BY <2>1 DEF BeginCheck
  <2>3. job'[w].phase = job[w].phase /\ job'[w].targets = job[w].targets
    BY <1>1, <2>2 DEF TypeInv, TypeOK, Job
  <2> QED
    BY <2>3
<1>5. \A v \in Workers : Bringing(v, n) => Bringing(v, n)'
  BY <1>1, <1>3, <1>4 DEF Bringing, Named
<1> QED
  BY <1>1, <1>5, ReachesStill

LEMMA ReachesAfterFinishCheck ==
  ASSUME TypeInv, NEW w \in CheckWorkers, NEW m \in Nodes, NEW kind \in Kinds,
         FinishCheck(w, m, kind), NEW n \in Nodes, Reaches(n)
  PROVE  Reaches(n)'
<1> USE DEF FinishCheck
<1>1. w \in Workers /\ w # "diagnosis" /\ m \in job[w].pending
  BY NodeMonitorAssumption
     DEF CheckWorkers, Workers, TypeInv, HoldersCheck
<1>2. /\ job[w].phase = "checking" /\ m \in Named(job[w].targets)
  BY <1>1 DEF TypeInv, JobsCurrent, JobFits
<1>3. /\ job'[w].phase = job[w].phase /\ job'[w].targets = job[w].targets
      /\ \A v \in Workers \ {w} : job'[v] = job[v]
      /\ UNCHANGED <<monitor, evidence>>
  BY <1>1 DEF TypeInv, TypeOK, Job
<1>4. \A v \in Workers : Bringing(v, n) => Bringing(v, n)'
  BY <1>1, <1>3 DEF Bringing, Named
<1>5. CASE n = m
  <2>1. Bringing(w, n)'
    BY <1>1, <1>2, <1>3, <1>5 DEF Bringing, Named
  <2> QED
    BY <1>1, <2>1 DEF Reaches
<1>6. CASE n # m
  <2>1. results'[n] = results[n]
    BY <1>6 DEF TypeInv, TypeOK
  <2> QED
    BY <1>3, <1>4, <2>1 DEF Reaches
<1> QED
  BY <1>5, <1>6

LEMMA ReachesAfterRecordResults ==
  ASSUME TypeInv, TimesOrdered, NEW w \in Workers, RecordResults(w),
         NEW n \in Nodes, cfg[n] # Absent, Reaches(n)
  PROVE  Reaches(n)'
<1> USE DEF RecordResults
<1>1. /\ \A v \in Workers \ {w} : job'[v] = job[v]
      /\ UNCHANGED <<results, evidence>>
  BY DEF TypeInv, TypeOK
<1>2. \A v \in Workers \ {w} : Bringing(v, n) => Bringing(v, n)'
  BY <1>1 DEF Bringing, Named
<1> SUFFICES ASSUME results[n] # NoResult, results[n].at > Past
              PROVE  \/ monitor'[n].lastResultAt = results[n].at
                     \/ \E v \in Workers : Bringing(v, n)'
  BY <1>1 DEF Reaches
<1>3. CASE n \in Named(job[w].targets) /\ IsNews(n)
  <2>1. monitor[n] \in Node /\ results[n] \in Result
    BY <1>3, NewsOfKnown
  <2>2. monitor'[n] = ApplyResult(monitor[n], results[n])
    BY <1>3
  <2> QED
    BY <2>1, <2>2, ApplyFits
<1>4. CASE n \in Named(job[w].targets) /\ ~IsNews(n)
  <2>1. /\ monitor'[n] = monitor[n] /\ monitor[n] # NoNode
        /\ monitor[n] \in Node /\ results[n] \in Result
    BY <1>4 DEF TypeInv, TypeOK, KnownPresent, Present, Named
  <2>2. /\ monitor[n].lastResultAt \in Nat /\ results[n].at \in Nat
        /\ results[n].at > Past
        /\ ~(monitor[n].lastResultAt < results[n].at)
    BY <1>4, <2>1 DEF IsNews, Node, Result
  <2>3. monitor[n].lastResultAt <= results[n].at
    BY <2>1, <2>2 DEF TimesOrdered, Ordered, StoredAt, TakenAt
  <2> QED
    BY <2>1, <2>2, <2>3
<1>5. CASE n \notin Named(job[w].targets)
  <2>1. monitor'[n] = monitor[n] /\ ~Bringing(w, n)
    BY <1>5 DEF Bringing
  <2> QED
    BY <1>2, <2>1 DEF Reaches
<1> QED
  BY <1>3, <1>4, <1>5

LEMMA ReachesAfterStartDiagnosis ==
  ASSUME TypeInv, NEW S \in SUBSET Nodes, StartDiagnosis(S),
         NEW n \in Nodes, Reaches(n)
  PROVE  Reaches(n)'
<1> USE DEF StartDiagnosis
<1>1. /\ \A v \in Workers \ {"diagnosis"} : job'[v] = job[v]
      /\ UNCHANGED <<results, monitor, evidence>>
  BY DEF TypeInv, TypeOK
<1>2. ~Bringing("diagnosis", n)
  BY DEF Bringing
<1>3. \A v \in Workers : Bringing(v, n) => Bringing(v, n)'
  BY <1>1, <1>2 DEF Bringing, Named
<1> QED
  BY <1>1, <1>3, ReachesStill

LEMMA ReachesAfterProbeBinding ==
  ASSUME TypeInv, NEW m \in Nodes, NEW kind \in Kinds, ProbeBinding(m, kind),
         NEW n \in Nodes, Reaches(n)
  PROVE  Reaches(n)'
<1> DEFINE d == job["diagnosis"]
            e == job'["diagnosis"]
<1> USE DEF ProbeBinding
<1>1. /\ \A v \in Workers \ {"diagnosis"} : job'[v] = job[v]
      /\ UNCHANGED <<results, monitor>>
      /\ \A k \in Nodes \ {m} : evidence'[k] = evidence[k]
  BY DEF TypeInv, TypeOK
<1>2. d \in Job /\ job \in [Workers -> Job] /\ "diagnosis" \in Workers
  BY DEF TypeInv, TypeOK, Workers
<1>3. /\ e.phase = d.phase /\ e.pending = d.pending \ {m}
      /\ \A k \in Nodes \ {m} : e.targets[k] = d.targets[k]
  BY <1>2 DEF Job, Targets
<1>4. Bringing("diagnosis", n) => Bringing("diagnosis", n)'
  <2> SUFFICES ASSUME Bringing("diagnosis", n)
                PROVE  Bringing("diagnosis", n)'
    OBVIOUS
  <2>1. n # m
    BY DEF Bringing
  <2> QED
    BY <1>1, <1>3, <2>1 DEF Bringing, Named
<1>5. \A v \in Workers \ {"diagnosis"} : Bringing(v, n) => Bringing(v, n)'
  BY <1>1 DEF Bringing, Named
<1> HIDE DEF ProbeBinding
<1> QED
  BY <1>1, <1>4, <1>5, ReachesStill

LEMMA ReachesAfterPromoteEvidence ==
  ASSUME TypeInv, NEW m \in Nodes, PromoteEvidence(m),
         NEW n \in Nodes, Reaches(n)
  PROVE  Reaches(n)'
<1> DEFINE d == job["diagnosis"]
            e == job'["diagnosis"]
<1> USE DEF PromoteEvidence
<1>1. /\ \A v \in Workers \ {"diagnosis"} : job'[v] = job[v]
      /\ UNCHANGED monitor
      /\ \A k \in Nodes \ {m} : /\ evidence'[k] = evidence[k]
                                /\ results'[k] = results[k]
      /\ evidence'[m] = NoResult
  BY DEF TypeInv, TypeOK
<1>2. d \in Job /\ job \in [Workers -> Job] /\ "diagnosis" \in Workers
  BY DEF TypeInv, TypeOK, Workers
<1>3. /\ e.phase = d.phase /\ e.pending = d.pending
      /\ \A k \in Nodes \ {m} : e.targets[k] = d.targets[k]
  <2>1. job' = job \/ job' = [job EXCEPT !["diagnosis"].targets[m] = Absent]
    OBVIOUS
  <2> HIDE DEF PromoteEvidence
  <2> QED
    BY <1>2, <2>1 DEF Job, Targets
<1>4. \A v \in Workers \ {"diagnosis"} : Bringing(v, n) => Bringing(v, n)'
  BY <1>1 DEF Bringing, Named
<1>5. CASE n # m
  <2>1. Bringing("diagnosis", n) => Bringing("diagnosis", n)'
    BY <1>1, <1>3, <1>5 DEF Bringing, Named
  <2>2. results'[n] = results[n] /\ monitor' = monitor
    BY <1>1, <1>5
  <2> HIDE DEF PromoteEvidence
  <2> QED
    BY <1>4, <2>1, <2>2 DEF Reaches
<1>6. CASE n = m /\ Superseded(m)
  <2>1. ~Bringing("diagnosis", n) /\ results' = results
    BY <1>6 DEF Bringing
  <2> HIDE DEF PromoteEvidence
  <2> QED
    BY <1>1, <1>4, <2>1 DEF Reaches
<1>7. CASE n = m /\ ~Superseded(m)
  <2>1. job' = job
    BY <1>7
  <2>2. /\ n \in Named(d.targets) /\ d.phase = "checking"
        /\ n \notin d.pending
    BY <1>7 DEF TypeInv, EvidenceHeld
  <2>3. Bringing("diagnosis", n)'
    BY <1>1, <1>7, <2>1, <2>2 DEF Bringing, Named
  <2> QED
    BY <1>2, <2>3 DEF Reaches
<1> QED
  BY <1>5, <1>6, <1>7

LEMMA ReachesAfterReload ==
  ASSUME TypeInv, PrunedResults, NEW new \in Targets, Reload(new),
         NEW n \in Nodes, cfg[n] # Absent => Reaches(n)
  PROVE  Reaches(n)'
<1> SUFFICES ASSUME results'[n] # NoResult, results'[n].at > Past
              PROVE  monitor'[n].lastResultAt = results'[n].at
  BY DEF Reaches
<1>1. /\ results'[n] = results[n] /\ results[n] # NoResult
      /\ monitor'[n] = UpdateNode(n, new) /\ refresh = "idle"
  BY DEF Reload
<1>2. cfg[n] # Absent
  BY <1>1 DEF PrunedResults
<1>3. \A w \in Workers : ~Bringing(w, n)
  BY DEF Reload, ChecksPaused, Bringing
<1>4. monitor[n].lastResultAt = results[n].at /\ monitor[n] # NoNode
  BY <1>1, <1>2, <1>3 DEF Reaches, TypeInv, KnownPresent, Present, Named
<1>5. monitor'[n].lastResultAt = monitor[n].lastResultAt
  BY <1>1, <1>4, UpdateTypes
<1> QED
  BY <1>1, <1>4, <1>5

LEMMA ReachesAfterRefreshResolvedIPs ==
  ASSUME TypeInv, NEW answer \in Answers, RefreshResolvedIPs(answer),
         NEW n \in Nodes, cfg[n] # Absent, Reaches(n)
  PROVE  Reaches(n)'
<1> USE DEF RefreshResolvedIPs
<1>1. /\ UNCHANGED <<results, evidence>>
      /\ \A v \in Workers \ {"update"} : job'[v] = job[v]
      /\ job["update"].phase = "idle"
  BY DEF TypeInv, TypeOK
<1>2. n \in Present
  BY DEF Present, Named
<1>3. monitor'[n] = ResolveNode(monitor[n], IPsOf(n, answer), clock + 1)
  BY <1>2
<1> HIDE DEF RefreshResolvedIPs
<1>4. monitor'[n].lastResultAt = monitor[n].lastResultAt
  BY <1>2, <1>3, ResolvedTypes, ResolveFits
<1>5. \A v \in Workers : Bringing(v, n) => Bringing(v, n)'
  BY <1>1 DEF Bringing, Named
<1> QED
  BY <1>1, <1>4, <1>5, ReachesStill

LEMMA ReachesAfterQueueEndpointValidation ==
  ASSUME TypeInv, NEW S \in SUBSET Nodes, QueueEndpointValidation(S),
         NEW n \in Nodes, Reaches(n)
  PROVE  Reaches(n)'
<1> USE DEF QueueEndpointValidation
<1>1. UNCHANGED <<results, evidence, job>>
  OBVIOUS
<1>2. monitor'[n].lastResultAt = monitor[n].lastResultAt
  <2>1. CASE n \in S
    BY <2>1, AtOnce DEF TypeInv, TypeOK
  <2>2. CASE n \notin S
    BY <2>2
  <2> QED
    BY <2>1, <2>2
<1>3. \A v \in Workers : Bringing(v, n) => Bringing(v, n)'
  BY <1>1 DEF Bringing, Named
<1> HIDE DEF QueueEndpointValidation
<1> QED
  BY <1>1, <1>2, <1>3, ReachesStill

LEMMA OnTheWayNext ==
  TypeInv /\ PrunedResults /\ TimesOrdered /\ OnTheWay /\ [Next]_vars
    => OnTheWay'
<1> SUFFICES ASSUME TypeInv, PrunedResults, TimesOrdered, OnTheWay,
                     [Next]_vars, NEW n \in Nodes
              PROVE  cfg'[n] # Absent => Reaches(n)'
  BY DEF OnTheWay
<1>1. cfg[n] # Absent => Reaches(n)
  BY DEF OnTheWay
<1> SUFFICES ASSUME cfg'[n] # Absent PROVE Reaches(n)'
  OBVIOUS
<1>3. ASSUME NEW new \in Targets, Reload(new) PROVE Reaches(n)'
  BY <1>1, <1>3, ReachesAfterReload
<1>4. CASE cfg' = cfg
  <2>1. cfg[n] # Absent /\ Reaches(n)
    BY <1>1, <1>4
  <2>2. ASSUME NEW w \in CheckWorkers, RunCheckSet(w) PROVE Reaches(n)'
    BY <1>1, <2>1, <2>2, ReachesAfterCheckSet, ReachesAfterFinishCheck,
       ReachesAfterRecordResults DEF RunCheckSet, Workers
  <2>3. ASSUME Diagnose PROVE Reaches(n)'
    BY <1>1, <2>1, <2>3, ReachesAfterStartDiagnosis,
       ReachesAfterProbeBinding, ReachesAfterPromoteEvidence,
       ReachesAfterRecordResults DEF Diagnose, Workers
  <2>4. ASSUME PruneStaleResults PROVE Reaches(n)'
    <3>1. /\ results'[n] = results[n]
          /\ UNCHANGED <<monitor, job, evidence>>
      BY <2>1, <2>4 DEF PruneStaleResults
    <3> QED
      BY <2>1, <3>1 DEF Reaches, Bringing, Named
  <2>5. CASE UNCHANGED vars
    BY <2>1, <2>5 DEF vars, Reaches, Bringing, Named
  <2> QED
    BY <1>3, <2>1, <2>2, <2>3, <2>4, <2>5, ReachesAfterRefreshResolvedIPs,
       ReachesAfterQueueEndpointValidation DEF Next, Refresh
<1>5. cfg' = cfg \/ \E new \in Targets : Reload(new)
  BY ResultWriters DEF FinishCheck, PromoteEvidence, PruneStaleResults
<1> QED
  BY <1>3, <1>4, <1>5

LEMMA OnTheWayAlways == Spec => []OnTheWay
<1> QED
  BY TimesAlways, ProvenanceAlways, OnTheWayInit, OnTheWayNext, PTL DEF Spec

(* Whenever no set is being checked, every stored outcome has reached the  *)
(* repair history: neither a reload, a superseded diagnosis nor sets that  *)
(* overlap leave one behind (recordMonitorResults, executeNodeDiagnosis).  *)
THEOREM NothingIsForgotten == Spec => []RecordedAtRest
<1>1. OnTheWay => RecordedAtRest
  BY DEF OnTheWay, RecordedAtRest, Reaches, Bringing, Present, Named
<1> QED
  BY <1>1, OnTheWayAlways, PTL

=============================================================================
