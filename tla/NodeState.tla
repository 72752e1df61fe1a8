------------------------------ MODULE NodeState ------------------------------
(***************************************************************************)
(* The repair state the checker keeps for one logical node                 *)
(* (NodeMonitorState of checker/monitor.go) and the functions that change  *)
(* it.  Pure operators: NodeMonitor and the modules after it are built     *)
(* from them.                                                              *)
(*                                                                         *)
(* Abstracted: the wall clock (a time is the number of the measurement     *)
(* that was last taken), the text of errors, exit addresses, the event     *)
(* history, and the identity of a resolved address list, which is one      *)
(* value of IPs, NoIPs for the empty list.                                 *)
(***************************************************************************)
EXTENDS Integers

CONSTANTS
  Addrs,           \* host:port endpoints a subscription can give a node
  Revs,            \* connection revisions (GenerateRevisionID)
  AddrOf,          \* [Revs -> Addrs]: the revision hashes the address too
  IPs,             \* non-empty resolved address lists
  NoAddr, NoIPs,   \* the empty string, the empty list
  LiteralIPs       \* [Addrs -> IPs \cup {NoIPs}]: the IPs of a literal host

ASSUME NodeStateAssumption ==
  /\ NoAddr \notin Addrs
  /\ NoIPs \notin IPs
  /\ AddrOf \in [Revs -> Addrs]
  /\ LiteralIPs \in [Addrs -> IPs \cup {NoIPs}]

(* What one regular check or one diagnosed tunnel says of a node.          *)
Kinds == {"clean", "unstable", "fail"}

Replacing == {"ip_changed", "verifying_new_ip", "new_ip_failed"}

States == Replacing \cup
  {"unknown", "healthy", "unstable", "suspected", "needs_replacement",
   "config_changed", "fixed"}

(* Seconds to the next check. The spread of a healthy node (3-5 minutes)   *)
(* and of an unstable one is a hash of its ID: one value stands for it.    *)
HealthyWait == 240
UnstableWait == 300
Waits == {0, 45, 60, 120, HealthyWait, UnstableWait, 600}

Node == [
  state        : States,
  address      : Addrs,
  prevAddress  : Addrs \cup {NoAddr},
  ips          : IPs \cup {NoIPs},
  prevIPs      : IPs \cup {NoIPs},
  changedAt    : Nat,          \* AddressChangedAt, 0 for never
  revision     : Revs,
  failures     : Nat,
  successes    : Nat,
  lastResultAt : Nat,
  wait         : Waits ]       \* NextCheck, as the delay it was set to

NewNode(rev) == [
  state        |-> "unknown",
  address      |-> AddrOf[rev],
  prevAddress  |-> NoAddr,
  ips          |-> LiteralIPs[AddrOf[rev]],
  prevIPs      |-> NoIPs,
  changedAt    |-> 0,
  revision     |-> rev,
  failures     |-> 0,
  successes    |-> 0,
  lastResultAt |-> 0,
  wait         |-> 0 ]

(* Mutant: the delay grows with every failure.                             *)
LinearRecheckDelay(failures) == 60 * failures

FailedRecheckDelay(failures) ==
  CASE failures <= 1 -> 60
    [] failures = 2  -> 120
    [] failures = 3  -> 300
    [] OTHER         -> 600

-----------------------------------------------------------------------------
(* A subscription gives the node another connection.                       *)

(* The edit leaves the address alone, but the address is itself still an   *)
(* unconfirmed replacement.                                                *)
StillReplacing(node, addr) ==
  /\ node.state \in Replacing
  /\ \/ node.prevAddress \notin {NoAddr, addr}
     \/ node.prevIPs # node.ips

MarkRevisionChanged(node, rev, now) ==
  LET addr == AddrOf[rev]
      moved == node.address # addr
  IN [node EXCEPT
       !.state = IF moved \/ StillReplacing(node, addr) THEN "ip_changed"
                 ELSE "config_changed",
       !.prevAddress = IF moved THEN node.address ELSE @,
       !.changedAt = IF moved THEN now ELSE @,
       !.prevIPs = IF moved THEN node.ips ELSE @,
       !.ips = IF moved \/ @ = NoIPs THEN LiteralIPs[addr] ELSE @,
       !.address = addr,
       !.revision = rev,
       !.failures = 0,
       !.successes = 0,
       !.wait = 0]

(* A detached node comes back with the connection it had.                  *)
Returned(node, rev) ==
  [node EXCEPT !.ips = LiteralIPs[AddrOf[rev]], !.wait = 0]

(* One answer of the resolver; NoIPs when the lookup failed.               *)
DNSMoves(node, ips) ==
  /\ ips # NoIPs
  /\ node.ips # NoIPs
  /\ node.ips # ips

(* Mutant: the counters survive a DNS change.                              *)
ResolveNodeKeepingCounts(node, ips, now) ==
  IF DNSMoves(node, ips)
  THEN [node EXCEPT !.prevIPs = node.ips, !.ips = ips, !.changedAt = now,
                    !.state = "ip_changed", !.wait = 0]
  ELSE IF ips # NoIPs /\ node.ips = NoIPs THEN [node EXCEPT !.ips = ips]
  ELSE node

ResolveNode(node, ips, now) ==
  IF DNSMoves(node, ips)
  THEN [node EXCEPT !.prevIPs = node.ips, !.ips = ips, !.changedAt = now,
                    !.state = "ip_changed", !.failures = 0, !.successes = 0,
                    !.wait = 0]
  ELSE IF ips # NoIPs /\ node.ips = NoIPs THEN [node EXCEPT !.ips = ips]
  ELSE node

-----------------------------------------------------------------------------
(* A result is applied to the node.                                        *)

(* Mutant: a partial success keeps the clean confirmations so far.         *)
ApplyUnstableKeepingCount(node, replacing) ==
  [node EXCEPT
     !.failures = 0,
     !.state = IF replacing THEN "verifying_new_ip" ELSE "unstable",
     !.wait = IF replacing THEN 60 ELSE UnstableWait]

ApplyUnstable(node, replacing) ==
  [node EXCEPT
     !.failures = 0, !.successes = 0,
     !.state = IF replacing THEN "verifying_new_ip" ELSE "unstable",
     !.wait = IF replacing THEN 60 ELSE UnstableWait]

ApplyClean(node, replacing) ==
  LET n == node.successes + 1
      verifying == replacing /\ n < 2
  IN [node EXCEPT
       !.failures = 0, !.successes = n,
       !.state = IF verifying THEN "verifying_new_ip"
                 ELSE IF replacing THEN "fixed" ELSE "healthy",
       !.wait = IF verifying THEN 45 ELSE HealthyWait]

(* Mutant: the delay is taken before the failure is counted.               *)
ApplyFailLate(node, replacing) ==
  LET n == node.failures + 1
  IN [node EXCEPT
       !.failures = n, !.successes = 0,
       !.state = IF replacing
                 THEN IF n >= 2 THEN "new_ip_failed" ELSE "verifying_new_ip"
                 ELSE IF n >= 3 THEN "needs_replacement" ELSE "suspected",
       !.wait = FailedRecheckDelay(node.failures)]

ApplyFail(node, replacing) ==
  LET n == node.failures + 1
  IN [node EXCEPT
       !.failures = n, !.successes = 0,
       !.state = IF replacing
                 THEN IF n >= 2 THEN "new_ip_failed" ELSE "verifying_new_ip"
                 ELSE IF n >= 3 THEN "needs_replacement" ELSE "suspected",
       !.wait = FailedRecheckDelay(n)]

Count(node, kind, replacing) ==
  CASE kind = "clean"    -> ApplyClean(node, replacing)
    [] kind = "unstable" -> ApplyUnstable(node, replacing)
    [] kind = "fail"     -> ApplyFail(node, replacing)

ApplyResult(node, r) ==
  Count([node EXCEPT !.lastResultAt = r.at], r.kind,
        node.state \in Replacing)

-----------------------------------------------------------------------------
(* The process starts with the files of an earlier run.                    *)

(* The monitor file does not hold the node, the results file does.         *)
InitializeFromResult(node, r) ==
  LET online == r.kind # "fail"
  IN [node EXCEPT
       !.lastResultAt = r.at,
       !.successes = IF online THEN 1 ELSE @,
       !.failures = IF online THEN @ ELSE 1,
       !.state = CASE r.kind = "clean"    -> "healthy"
                   [] r.kind = "unstable" -> "unstable"
                   [] r.kind = "fail"     -> "suspected",
       !.wait = CASE r.kind = "clean"    -> HealthyWait
                  [] r.kind = "unstable" -> UnstableWait
                  [] r.kind = "fail"     -> FailedRecheckDelay(1)]

(* The monitor file holds the node: a state that stands for a result is    *)
(* kept only with the result, counters and all else are kept, and the      *)
(* subscription may have edited the connection while nothing was running.  *)
Attested(node, found) ==
  IF ~found /\ node.state \in {"healthy", "fixed"}
  THEN [node EXCEPT !.state = "unknown", !.wait = 0]
  ELSE node

Reconcile(node, rev, found, now) ==
  LET kept == Attested(node, found)
  IN IF node.revision # rev THEN MarkRevisionChanged(kept, rev, now)
     ELSE [kept EXCEPT
            !.ips = IF @ = NoIPs THEN LiteralIPs[AddrOf[rev]] ELSE @,
            !.wait = IF kept.state \in {"healthy", "fixed"} THEN HealthyWait
                     ELSE @]

=============================================================================
