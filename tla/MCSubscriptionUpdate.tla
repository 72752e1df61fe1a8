------------------------ MODULE MCSubscriptionUpdate ------------------------
(* Host A has one entry on each of two servers, host B one entry with      *)
(* either of two credentials of the first server; A sorts before B.        *)
EXTENDS SubscriptionUpdate

B(h, s, r) == [host |-> h, server |-> s, rev |-> r]
MCOrder == <<B("A", "x", "x1"), B("A", "y", "y1"),
             B("B", "x", "x1"), B("B", "x", "x2")>>
MCIdentity == [r \in {"x1", "x2", "y1"} |-> IF r = "y1" THEN "y" ELSE "x"]

(* No old binding carries on in two new ones.                              *)
ASSUME PlanPairsOnce ==
  /\ Plans \in [Installed \X Installed ->
       UNION {[s -> Bindings] : s \in SUBSET Bindings}]
  /\ \A old, new \in Installed :
       LET plan == PlanProxyUpdate(old, new)
       IN \A m, n \in DOMAIN plan : plan[m] = plan[n] => m = n

(* A list is no mass revision of itself.                                   *)
ASSUME NoMassOfItself == \A s \in Installed : ~IsMass(s, s)
=============================================================================
