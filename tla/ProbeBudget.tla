----------------------------- MODULE ProbeBudget -----------------------------
(***************************************************************************)
(* The connection budget all background probes share                       *)
(* (checker/probe_budget.go): a buffered channel of slots for every probe  *)
(* and a smaller one of tokens for deep diagnosis.  A channel is the       *)
(* number of values in it; a blocked select is a waiting client.           *)
(*                                                                         *)
(* acquire and the function it returns are taken apart wherever another    *)
(* goroutine can see the difference: token, slot, active count; and on     *)
(* release active count, slot, token.                                      *)
(***************************************************************************)
EXTENDS Integers, FiniteSets

CONSTANTS
  Clients,      \* goroutines that probe
  Diagnostics,  \* those that acquire with diagnostic = true
  Limits        \* values of the configured limit; 0 for no limit

ASSUME ProbeBudgetAssumption ==
  /\ IsFiniteSet(Clients)
  /\ Diagnostics \subseteq Clients
  /\ Limits \subseteq Nat

VARIABLES
  limit,       \* newProbeBudget's argument: the capacity of slots
  slots,       \* len(b.slots)
  diagnostics, \* len(b.diagnostics)
  active,      \* b.active
  pc,          \* where each client is
  cancelled    \* clients whose context is done

vars == <<limit, slots, diagnostics, active, pc, cancelled>>

(* Mutant: the tenth is rounded up to the next whole allowance.            *)
DiagnosticLimitRounded(n) ==
  LET tenth == (n \div 10) + 1
  IN IF n <= 0 THEN 1
     ELSE IF tenth < 2 THEN 2 ELSE IF tenth > 4 THEN 4 ELSE tenth

DiagnosticLimit(n) ==
  LET tenth == n \div 10
  IN IF n <= 0 THEN 1
     ELSE IF tenth < 1 THEN 1 ELSE IF tenth > 4 THEN 4 ELSE tenth

Bounded == limit > 0

(* idle -> token -> slot -> granted -> probing -> counted down -> slot     *)
(* given back -> released -> idle; only diagnostics visit token and        *)
(* slotBack.                                                               *)
Locations == {"idle", "token", "slot", "granted", "probing", "countedDown",
              "slotBack", "released"}
HoldsToken == {"slot", "granted", "probing", "countedDown", "slotBack"}
HoldsSlot == {"granted", "probing", "countedDown"}

At(locations, S) == {c \in S : pc[c] \in locations}

TypeOK ==
  /\ limit \in Limits
  /\ slots \in Nat
  /\ diagnostics \in Nat
  /\ active \in Nat
  /\ pc \in [Clients -> Locations]
  /\ cancelled \in SUBSET Diagnostics
  /\ \A c \in Clients \ Diagnostics : pc[c] \notin {"token", "slotBack"}

Init ==
  /\ limit \in Limits
  /\ slots = 0
  /\ diagnostics = 0
  /\ active = 0
  /\ pc = [c \in Clients |-> "idle"]
  /\ cancelled = {}

-----------------------------------------------------------------------------
Goto(c, location) == pc' = [pc EXCEPT ![c] = location]

(* A diagnosis is preempted, times out, or the next one starts; ordinary   *)
(* checks acquire with context.Background().                               *)
Cancel(c) ==
  /\ c \in Diagnostics \ cancelled
  /\ cancelled' = cancelled \cup {c}
  /\ UNCHANGED <<limit, slots, diagnostics, active, pc>>

NewContext(c) ==
  /\ c \in cancelled
  /\ pc[c] = "idle"
  /\ cancelled' = cancelled \ {c}
  /\ UNCHANGED <<limit, slots, diagnostics, active, pc>>

Acquire(c) ==
  /\ pc[c] = "idle"
  /\ c \notin cancelled
  /\ Goto(c, IF c \in Diagnostics THEN "token" ELSE "slot")
  /\ UNCHANGED <<limit, slots, diagnostics, active, cancelled>>

TakeToken(c) ==
  /\ pc[c] = "token"
  /\ diagnostics < DiagnosticLimit(limit)
  /\ diagnostics' = diagnostics + 1
  /\ Goto(c, "slot")
  /\ UNCHANGED <<limit, slots, active, cancelled>>

(* ctx.Done() while waiting for the token.                                 *)
GiveUpToken(c) ==
  /\ pc[c] = "token"
  /\ c \in cancelled
  /\ Goto(c, "idle")
  /\ UNCHANGED <<limit, slots, diagnostics, active, cancelled>>

TakeSlot(c) ==
  /\ pc[c] = "slot"
  /\ Bounded => slots < limit
  /\ slots' = IF Bounded THEN slots + 1 ELSE slots
  /\ Goto(c, "granted")
  /\ UNCHANGED <<limit, diagnostics, active, cancelled>>

(* Mutant: the token is kept when the slot is given up.                    *)
GiveUpSlotKeepingToken(c) ==
  /\ pc[c] = "slot"
  /\ Bounded
  /\ c \in cancelled
  /\ Goto(c, "idle")
  /\ UNCHANGED <<limit, slots, diagnostics, active, cancelled>>

(* ctx.Done() while waiting for a slot: the token goes back.               *)
GiveUpSlot(c) ==
  /\ pc[c] = "slot"
  /\ Bounded
  /\ c \in cancelled
  /\ diagnostics' = diagnostics - 1
  /\ Goto(c, "idle")
  /\ UNCHANGED <<limit, slots, active, cancelled>>

Count(c) ==
  /\ pc[c] = "granted"
  /\ active' = active + 1
  /\ Goto(c, "probing")
  /\ UNCHANGED <<limit, slots, diagnostics, cancelled>>

-----------------------------------------------------------------------------
(* The returned function.                                                  *)

CountDown(c) ==
  /\ pc[c] = "probing"
  /\ active' = active - 1
  /\ Goto(c, "countedDown")
  /\ UNCHANGED <<limit, slots, diagnostics, cancelled>>

ReturnSlot(c) ==
  /\ pc[c] = "countedDown"
  /\ slots' = IF Bounded THEN slots - 1 ELSE slots
  /\ Goto(c, IF c \in Diagnostics THEN "slotBack" ELSE "released")
  /\ UNCHANGED <<limit, diagnostics, active, cancelled>>

(* Mutant: the diagnostic token is forgotten.                              *)
ReturnTokenNever(c) ==
  /\ pc[c] = "slotBack"
  /\ Goto(c, "released")
  /\ UNCHANGED <<limit, slots, diagnostics, active, cancelled>>

ReturnToken(c) ==
  /\ pc[c] = "slotBack"
  /\ diagnostics' = diagnostics - 1
  /\ Goto(c, "released")
  /\ UNCHANGED <<limit, slots, active, cancelled>>

(* Mutant: nothing guards the second call.                                 *)
ReleaseAgainUnguarded(c) ==
  /\ pc[c] = "released"
  /\ Bounded => slots > 0
  /\ slots' = IF Bounded THEN slots - 1 ELSE slots
  /\ active' = active - 1
  /\ Goto(c, "idle")
  /\ UNCHANGED <<limit, diagnostics, cancelled>>

(* checkProxyAttemptWithAttempts releases before it waits out an outage    *)
(* and again when it returns; once.Do makes the second call do nothing.    *)
ReleaseAgain(c) ==
  /\ pc[c] = "released"
  /\ Goto(c, "idle")
  /\ UNCHANGED <<limit, slots, diagnostics, active, cancelled>>

-----------------------------------------------------------------------------
Next ==
  \E c \in Clients :
    \/ Cancel(c)
    \/ NewContext(c)
    \/ Acquire(c)
    \/ TakeToken(c)
    \/ GiveUpToken(c)
    \/ TakeSlot(c)
    \/ GiveUpSlot(c)
    \/ Count(c)
    \/ CountDown(c)
    \/ ReturnSlot(c)
    \/ ReturnToken(c)
    \/ ReleaseAgain(c)

Spec == Init /\ [][Next]_vars

(* A probe has a timeout, so it ends; a goroutine that can run runs; and   *)
(* the runtime wakes the senders blocked on a channel in the order they    *)
(* blocked, so one that waits is served when the channel keeps draining.   *)
Fairness ==
  \A c \in Clients :
    /\ SF_vars(TakeToken(c))
    /\ SF_vars(TakeSlot(c))
    /\ WF_vars(GiveUpToken(c) \/ GiveUpSlot(c) \/ Count(c) \/ CountDown(c)
                 \/ ReturnSlot(c) \/ ReturnToken(c) \/ ReleaseAgain(c))

FairSpec == Spec /\ Fairness

-----------------------------------------------------------------------------
(* Correctness.                                                            *)

(* Every counter is the number of clients between taking and giving back,  *)
(* on every path through cancellation and the doubled release: nothing     *)
(* leaks and nothing is returned twice.                                    *)
Accounting ==
  /\ active = Cardinality(At({"probing"}, Clients))
  /\ diagnostics = Cardinality(At(HoldsToken, Diagnostics))
  /\ slots = IF Bounded THEN Cardinality(At(HoldsSlot, Clients)) ELSE 0

(* No more probes than the configured limit are open at a time, and no     *)
(* more diagnostic ones than their allowance.                              *)
WithinLimit ==
  /\ Bounded => Cardinality(At(HoldsSlot, Clients)) <= limit
  /\ Cardinality(At(HoldsSlot, Diagnostics)) <= DiagnosticLimit(limit)

(* probe_budget.go: the diagnostic allowance leaves "capacity for ordinary *)
(* checks and replacement verification even when every diagnosed endpoint  *)
(* times out".  A limit of 1 has no capacity to leave.                     *)
CapacityLeft ==
  limit > 1 => Cardinality(At(HoldsSlot, Diagnostics)) < limit

(* A client that asked gets its slot, or gives up because its context is   *)
(* done; ordinary checks are not starved by diagnosis.                     *)
AcquireReturns ==
  \A c \in Clients :
    pc[c] \in {"token", "slot"} ~> pc[c] \in {"probing", "idle"}

=============================================================================
