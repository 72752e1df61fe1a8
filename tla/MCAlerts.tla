------------------------------ MODULE MCAlerts ------------------------------
(* One node and two recipients: the first saved with a token, or switched  *)
(* off; the second without recoveries. The second may be that of the       *)
(* environment, whose preferences are then the defaults until it is saved. *)
EXTENDS Alerts

CONSTANTS n1, c1, c2

MCRequests ==
  {[recipient |-> c1, enabled |-> TRUE, withToken |-> TRUE,
    wanted |-> {"critical", "recovered", "reminder"}],
   [recipient |-> c2, enabled |-> TRUE, withToken |-> FALSE,
    wanted |-> {"critical", "reminder"}],
   [recipient |-> c1, enabled |-> FALSE, withToken |-> FALSE,
    wanted |-> {"critical", "recovered"}]}
=============================================================================
