---------------------------- MODULE ResultMailbox ----------------------------
(***************************************************************************)
(* What the result store promises the repair history: for every node a     *)
(* one-place mailbox of measurements, identified by the time they were     *)
(* taken (0 for none).  The checks put their outcome in it, replacing what *)
(* is there, and the monitor takes it.  Whatever is put is newer than what *)
(* it replaces and than anything taken before, and nothing is taken twice. *)
(* One step may serve several nodes: a check set is recorded at once.      *)
(***************************************************************************)
EXTENDS Naturals

CONSTANT Nodes

VARIABLES
  stored,   \* node -> time of the outcome in the store
  taken     \* node -> time of the last outcome the monitor counted

(* Both are restored from files of their own, either of which may be the   *)
(* older one.                                                              *)
Init ==
  /\ stored \in [Nodes -> Nat]
  /\ taken \in [Nodes -> Nat]

Put(n) ==
  /\ stored'[n] \in Nat
  /\ stored'[n] > stored[n]
  /\ stored'[n] > taken[n]
  /\ taken'[n] = taken[n]

Take(n) ==
  /\ stored[n] > taken[n]
  /\ taken'[n] = stored[n]
  /\ stored'[n] = stored[n]

(* The connection changed or left the subscription.                        *)
Clear(n) ==
  /\ stored'[n] = 0
  /\ taken'[n] = taken[n]

Idle(n) ==
  /\ stored'[n] = stored[n]
  /\ taken'[n] = taken[n]

Next ==
  /\ DOMAIN stored' = Nodes
  /\ DOMAIN taken' = Nodes
  /\ \A n \in Nodes : Put(n) \/ Take(n) \/ Clear(n) \/ Idle(n)

Spec == Init /\ [][Next]_<<stored, taken>>

=============================================================================
