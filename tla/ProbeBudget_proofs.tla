-------------------------- MODULE ProbeBudget_proofs --------------------------
(***************************************************************************)
(* The budget's accounting is exact and its limits hold for any number of  *)
(* clients and any configured limit.                                       *)
(***************************************************************************)
EXTENDS ProbeBudget, FiniteSetTheorems, TLAPS

(* The channels never hold more values than their capacity: with the       *)
(* accounting this is what WithinLimit says of the clients.                *)
Capacity ==
  /\ Bounded => slots <= limit
  /\ diagnostics <= DiagnosticLimit(limit)

IInv == TypeOK /\ Accounting /\ Capacity

-----------------------------------------------------------------------------
(* How moving one client changes the number of those at some locations.    *)
LEMMA Moving ==
  ASSUME NEW c \in Clients, NEW to \in Locations, TypeOK, Goto(c, to),
         NEW L, NEW S \in SUBSET Clients
  PROVE  /\ c \in S /\ pc[c] \notin L /\ to \in L =>
              Cardinality(At(L, S))' = Cardinality(At(L, S)) + 1
         /\ c \in S /\ pc[c] \in L /\ to \notin L =>
              Cardinality(At(L, S))' = Cardinality(At(L, S)) - 1
         /\ c \notin S \/ (pc[c] \in L <=> to \in L) =>
              Cardinality(At(L, S))' = Cardinality(At(L, S))
         /\ Cardinality(At(L, S)) \in Nat
         /\ Cardinality(At(L, S))' \in Nat
PROOF
<1> DEFINE A == At(L, S)
           B == {x \in S : pc'[x] \in L}
<1>1. IsFiniteSet(A) /\ IsFiniteSet(B)
  <2>1. IsFiniteSet(S)
    BY FS_Subset, ProbeBudgetAssumption
  <2>. QED
    BY <2>1, FS_Subset DEF At
<1>2. \A x \in Clients : pc'[x] = IF x = c THEN to ELSE pc[x]
  BY DEF Goto, TypeOK
<1>3. Cardinality(A) \in Nat /\ Cardinality(B) \in Nat
  BY <1>1, FS_CardinalityType
<1>4. At(L, S)' = B
  BY DEF At
<1>5. ASSUME c \in S, pc[c] \notin L, to \in L
      PROVE  Cardinality(B) = Cardinality(A) + 1
  <2>1. B = A \cup {c} /\ c \notin A
    BY <1>2, <1>5 DEF At
  <2>. QED
    BY <2>1, <1>1, FS_AddElement
<1>6. ASSUME c \in S, pc[c] \in L, to \notin L
      PROVE  Cardinality(B) = Cardinality(A) - 1
  <2>1. B = A \ {c} /\ c \in A
    BY <1>2, <1>6 DEF At
  <2>. QED
    BY <2>1, <1>1, FS_RemoveElement
<1>7. ASSUME c \notin S \/ (pc[c] \in L <=> to \in L)
      PROVE  B = A
  BY <1>2, <1>7 DEF At
<1>. QED
  BY <1>3, <1>4, <1>5, <1>6, <1>7

-----------------------------------------------------------------------------
LEMMA InitInv == Init => IInv
PROOF
<1> SUFFICES ASSUME Init PROVE IInv
  OBVIOUS
<1>1. TypeOK
  BY DEF Init, TypeOK, Locations
<1>2. Accounting
  <2>1. /\ At({"probing"}, Clients) = {}
        /\ At(HoldsToken, Diagnostics) = {}
        /\ At(HoldsSlot, Clients) = {}
    BY ProbeBudgetAssumption DEF Init, At, HoldsToken, HoldsSlot
  <2>. QED
    BY <2>1, FS_EmptySet DEF Init, Accounting
<1>3. Capacity
  BY ProbeBudgetAssumption DEF Init, Capacity, Bounded, DiagnosticLimit
<1>. QED
  BY <1>1, <1>2, <1>3 DEF IInv

(* One step per action; each names the location the client moves to.       *)
LEMMA NextInv == IInv /\ [Next]_vars => IInv'
PROOF
<1> SUFFICES ASSUME IInv, [Next]_vars PROVE IInv'
  OBVIOUS
<1> USE ProbeBudgetAssumption DEF IInv, Capacity
<1> DEFINE Probing == Cardinality(At({"probing"}, Clients))
           Tokens == Cardinality(At(HoldsToken, Diagnostics))
           Holders == Cardinality(At(HoldsSlot, Clients))
<1>0. DiagnosticLimit(limit) \in Nat
  BY DEF DiagnosticLimit, TypeOK
<1>1. CASE UNCHANGED vars
  BY <1>1 DEF vars, TypeOK, Accounting, Bounded, At
<1>2. ASSUME NEW c \in Clients, Cancel(c) \/ NewContext(c)
      PROVE  IInv'
  <2>1. UNCHANGED <<limit, slots, diagnostics, active, pc>>
    BY <1>2 DEF Cancel, NewContext
  <2>2. cancelled' \in SUBSET Diagnostics
    BY <1>2 DEF Cancel, NewContext, TypeOK
  <2>. QED
    BY <2>1, <2>2 DEF TypeOK, Accounting, Bounded, At
<1>3. ASSUME NEW c \in Clients, NEW to \in Locations, Goto(c, to),
             to \in {"token", "slotBack"} => c \in Diagnostics
      PROVE  /\ pc' \in [Clients -> Locations]
             /\ \A x \in Clients \ Diagnostics :
                  pc'[x] \notin {"token", "slotBack"}
  BY <1>3 DEF Goto, TypeOK
(* What the move does to the three counts.                                 *)
<1>4. ASSUME NEW c \in Clients, NEW to \in Locations, Goto(c, to)
      PROVE  /\ Probing \in Nat /\ Tokens \in Nat /\ Holders \in Nat
             /\ Probing' \in Nat /\ Tokens' \in Nat /\ Holders' \in Nat
             /\ Probing' = Probing + (IF to = "probing" THEN 1 ELSE 0)
                                   - (IF pc[c] = "probing" THEN 1 ELSE 0)
             /\ Holders' = Holders + (IF to \in HoldsSlot THEN 1 ELSE 0)
                                   - (IF pc[c] \in HoldsSlot THEN 1 ELSE 0)
             /\ c \notin Diagnostics => Tokens' = Tokens
             /\ c \in Diagnostics =>
                  Tokens' = Tokens + (IF to \in HoldsToken THEN 1 ELSE 0)
                                   - (IF pc[c] \in HoldsToken THEN 1 ELSE 0)
  <2>1. /\ Probing \in Nat /\ Tokens \in Nat /\ Holders \in Nat
        /\ Probing' \in Nat /\ Tokens' \in Nat /\ Holders' \in Nat
    BY <1>4, Moving
  <2>2. Probing' = Probing + (IF to = "probing" THEN 1 ELSE 0)
                           - (IF pc[c] = "probing" THEN 1 ELSE 0)
    <3>. DEFINE L == {"probing"}
    <3>1. /\ pc[c] \notin L /\ to \in L => Probing' = Probing + 1
          /\ pc[c] \in L /\ to \notin L => Probing' = Probing - 1
          /\ (pc[c] \in L <=> to \in L) => Probing' = Probing
      BY <1>4, Moving
    <3>. QED
      BY <3>1, <2>1
  <2>3. Holders' = Holders + (IF to \in HoldsSlot THEN 1 ELSE 0)
                           - (IF pc[c] \in HoldsSlot THEN 1 ELSE 0)
    <3>1. /\ pc[c] \notin HoldsSlot /\ to \in HoldsSlot =>
               Holders' = Holders + 1
          /\ pc[c] \in HoldsSlot /\ to \notin HoldsSlot =>
               Holders' = Holders - 1
          /\ (pc[c] \in HoldsSlot <=> to \in HoldsSlot) => Holders' = Holders
      BY <1>4, Moving
    <3>. QED
      BY <3>1, <2>1
  <2>4. c \notin Diagnostics => Tokens' = Tokens
    BY <1>4, Moving
  <2>5. ASSUME c \in Diagnostics
        PROVE  Tokens' = Tokens + (IF to \in HoldsToken THEN 1 ELSE 0)
                                - (IF pc[c] \in HoldsToken THEN 1 ELSE 0)
    <3>1. /\ pc[c] \notin HoldsToken /\ to \in HoldsToken =>
               Tokens' = Tokens + 1
          /\ pc[c] \in HoldsToken /\ to \notin HoldsToken =>
               Tokens' = Tokens - 1
          /\ (pc[c] \in HoldsToken <=> to \in HoldsToken) => Tokens' = Tokens
      BY <1>4, <2>5, Moving
    <3>. QED
      BY <3>1, <2>1
  <2>. QED
    BY <2>1, <2>2, <2>3, <2>4, <2>5
<1>. HIDE DEF Probing, Tokens, Holders
<1>5. Accounting <=> /\ active = Probing /\ diagnostics = Tokens
                     /\ slots = IF Bounded THEN Holders ELSE 0
  BY DEF Accounting, Probing, Tokens, Holders
<1>6. Accounting' <=> /\ active' = Probing' /\ diagnostics' = Tokens'
                      /\ slots' = IF Bounded' THEN Holders' ELSE 0
  BY DEF Accounting, Probing, Tokens, Holders
<1> USE DEF Locations, HoldsToken, HoldsSlot, TypeOK, Bounded
<1>7. ASSUME NEW c \in Clients, Acquire(c) PROVE IInv'
  <2>. DEFINE to == IF c \in Diagnostics THEN "token" ELSE "slot"
  <2>1. Goto(c, to) /\ to \in Locations
    BY <1>7 DEF Acquire
  <2>. QED
    BY <1>7, <2>1, <1>3, <1>4, <1>5, <1>6 DEF Acquire
<1>8. ASSUME NEW c \in Clients, TakeToken(c) PROVE IInv'
  <2>1. Goto(c, "slot") /\ "slot" \in Locations /\ c \in Diagnostics
    BY <1>8 DEF TakeToken
  <2>. QED
    BY <1>8, <2>1, <1>0, <1>3, <1>4, <1>5, <1>6 DEF TakeToken
<1>9. ASSUME NEW c \in Clients, GiveUpToken(c) PROVE IInv'
  <2>1. Goto(c, "idle") /\ "idle" \in Locations
    BY <1>9 DEF GiveUpToken
  <2>. QED
    BY <1>9, <2>1, <1>3, <1>4, <1>5, <1>6 DEF GiveUpToken
<1>10. ASSUME NEW c \in Clients, TakeSlot(c) PROVE IInv'
  <2>1. Goto(c, "granted") /\ "granted" \in Locations
    BY <1>10 DEF TakeSlot
  <2>. QED
    BY <1>10, <2>1, <1>3, <1>4, <1>5, <1>6 DEF TakeSlot
<1>11. ASSUME NEW c \in Clients, GiveUpSlot(c) PROVE IInv'
  <2>1. Goto(c, "idle") /\ "idle" \in Locations /\ c \in Diagnostics
    BY <1>11 DEF GiveUpSlot
  <2>. QED
    BY <1>11, <2>1, <1>0, <1>3, <1>4, <1>5, <1>6 DEF GiveUpSlot
<1>12. ASSUME NEW c \in Clients, Count(c) PROVE IInv'
  <2>1. Goto(c, "probing") /\ "probing" \in Locations
    BY <1>12 DEF Count
  <2>. QED
    BY <1>12, <2>1, <1>3, <1>4, <1>5, <1>6 DEF Count
<1>13. ASSUME NEW c \in Clients, CountDown(c) PROVE IInv'
  <2>1. Goto(c, "countedDown") /\ "countedDown" \in Locations
    BY <1>13 DEF CountDown
  <2>. QED
    BY <1>13, <2>1, <1>3, <1>4, <1>5, <1>6 DEF CountDown
<1>14. ASSUME NEW c \in Clients, ReturnSlot(c) PROVE IInv'
  <2>. DEFINE to == IF c \in Diagnostics THEN "slotBack" ELSE "released"
  <2>1. Goto(c, to) /\ to \in Locations
    BY <1>14 DEF ReturnSlot
  <2>. QED
    BY <1>14, <2>1, <1>3, <1>4, <1>5, <1>6 DEF ReturnSlot
<1>15. ASSUME NEW c \in Clients, ReturnToken(c) PROVE IInv'
  <2>1. Goto(c, "released") /\ "released" \in Locations /\ c \in Diagnostics
    BY <1>15 DEF ReturnToken
  <2>. QED
    BY <1>15, <2>1, <1>0, <1>3, <1>4, <1>5, <1>6 DEF ReturnToken
<1>16. ASSUME NEW c \in Clients, ReleaseAgain(c) PROVE IInv'
  <2>1. Goto(c, "idle") /\ "idle" \in Locations
    BY <1>16 DEF ReleaseAgain
  <2>. QED
    BY <1>16, <2>1, <1>3, <1>4, <1>5, <1>6 DEF ReleaseAgain
<1>. QED
  BY <1>1, <1>2, <1>7, <1>8, <1>9, <1>10, <1>11, <1>12, <1>13, <1>14, <1>15,
     <1>16 DEF Next

(* The clients' own numbers are bounded by the channels they went through. *)
LEMMA InvImpliesLimits == IInv => WithinLimit /\ CapacityLeft
PROOF
<1> SUFFICES ASSUME IInv PROVE WithinLimit /\ CapacityLeft
  OBVIOUS
<1> USE ProbeBudgetAssumption DEF IInv
<1> DEFINE Holders == At(HoldsSlot, Clients)
           DiagnosticHolders == At(HoldsSlot, Diagnostics)
           TokenHolders == At(HoldsToken, Diagnostics)
<1>1. /\ IsFiniteSet(TokenHolders)
      /\ DiagnosticHolders \in SUBSET TokenHolders
  <2>1. IsFiniteSet(Diagnostics)
    BY FS_Subset
  <2>. QED
    BY <2>1, FS_Subset DEF At, HoldsSlot, HoldsToken
<1>2. Cardinality(DiagnosticHolders) <= Cardinality(TokenHolders)
  BY <1>1, FS_Subset
<1>3. Cardinality(DiagnosticHolders) \in Nat
  BY <1>1, FS_Subset, FS_CardinalityType
<1>4. Cardinality(DiagnosticHolders) <= DiagnosticLimit(limit)
  BY <1>2, <1>3 DEF Accounting, Capacity, TypeOK, DiagnosticLimit
<1>5. limit > 1 => DiagnosticLimit(limit) < limit
  BY DEF DiagnosticLimit, TypeOK
<1>. QED
  BY <1>3, <1>4, <1>5
     DEF WithinLimit, CapacityLeft, Accounting, Capacity, TypeOK,
         DiagnosticLimit

-----------------------------------------------------------------------------
(* The counters and the clients stay in their ranges: a counter of the     *)
(* semaphores of probe_budget.go is never negative.                        *)
THEOREM BudgetTypeOK == Spec => []TypeOK
PROOF
<1>1. IInv => TypeOK
  BY DEF IInv
<1>. QED
  BY <1>1, InitInv, NextInv, PTL DEF Spec

(* The accounting is exact whatever the interleaving of acquisitions,      *)
(* cancellations and doubled releases: no slot or token of                 *)
(* probe_budget.go leaks or is returned twice.                             *)
THEOREM BudgetAccounting == Spec => [](TypeOK /\ Accounting)
PROOF
<1>1. IInv => TypeOK /\ Accounting
  BY DEF IInv
<1>. QED
  BY <1>1, InitInv, NextInv, PTL DEF Spec

(* The open probes never exceed the configured limit, nor the diagnostic   *)
(* ones their allowance.                                                   *)
THEOREM BudgetWithinLimit == Spec => []WithinLimit
PROOF
  BY InitInv, NextInv, InvImpliesLimits, PTL DEF Spec

(* For every limit above 1 diagnosis cannot occupy the whole budget.       *)
THEOREM BudgetLeavesCapacity == Spec => []CapacityLeft
PROOF
  BY InitInv, NextInv, InvImpliesLimits, PTL DEF Spec

=============================================================================
