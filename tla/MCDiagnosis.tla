----------------------------- MODULE MCDiagnosis -----------------------------
(* A node that comes and goes, and a dead one with another symptom.        *)
EXTENDS Diagnosis

CONSTANTS n1, n2, r1, s1, s2

Fails(s) == [online |-> FALSE, symptom |-> s]
Succeeds == [online |-> TRUE, symptom |-> NoSymptom]
MCOutcomes == [n \in Nodes |->
  IF n = n1 THEN {Succeeds, Fails(s1)} ELSE {Fails(s2)}]
=============================================================================
