--------------------------- MODULE MCEndpointPool ---------------------------
(***************************************************************************)
(* Ports of one server: the case in which endpoints replace each other.    *)
(***************************************************************************)
EXTENDS EndpointPool, TLC

CONSTANT TheServer

OneServer == [k \in Keys |-> TheServer]

PoolSymmetry == Permutations(Keys) \cup Permutations(Revs)

=============================================================================
