---------------------------- MODULE MCNodeMonitor ----------------------------
(* Model values for NodeMonitor: a domain endpoint "a" with two revisions, *)
(* which nothing tells apart, and a literal endpoint "b".  The files an    *)
(* earlier run left hold a state of every kind.                            *)
EXTENDS NodeMonitor, TLC

CONSTANTS a1, a2, b1

MCRevs == {a1, a2, b1}
MCAddrOf == [r \in MCRevs |-> IF r = b1 THEN "b" ELSE "a"]
MCLiteralIPs == [a \in Addrs |-> IF a = "b" THEN "y" ELSE NoIPs]

MCSaved ==
  LET node(rev, state, up, down) ==
        [NewNode(rev) EXCEPT !.state = state, !.successes = up,
                             !.failures = down, !.lastResultAt = 1]
  IN UNION {{
       node(rev, "unknown", 2, 0),
       node(rev, "healthy", 1, 0),
       [node(rev, "fixed", 2, 0) EXCEPT !.wait = HealthyWait],
       node(rev, "unstable", 1, 0),
       [node(rev, "suspected", 0, 2) EXCEPT !.wait = 120],
       node(rev, "needs_replacement", 0, 3),
       [node(rev, "ip_changed", 0, 0) EXCEPT !.prevIPs = "x", !.ips = "y",
                                             !.changedAt = 1],
       node(rev, "verifying_new_ip", 1, 0),
       node(rev, "verifying_new_ip", 0, 1),
       [node(rev, "new_ip_failed", 0, 2) EXCEPT !.wait = 120]} : rev \in MCRevs}

EditSymmetry == Permutations({a1, a2})

=============================================================================
