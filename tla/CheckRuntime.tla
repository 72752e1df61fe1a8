---------------------------- MODULE CheckRuntime ----------------------------
(***************************************************************************)
(* The locks of the checker and who takes them in which order: the         *)
(* scheduler, the subscription refresh with its Xray reload, the manual    *)
(* re-check and the replacement verification, manual and automatic deep    *)
(* diagnosis, the access check (whose direct part is also what a TCP       *)
(* endpoint probe does), the delivery of alerts to Telegram.               *)
(*                                                                         *)
(* A goroutine is the sequence of the operations it has still to perform   *)
(* (todo); the functions it runs are operators on such sequences, so that  *)
(* a program below shows the order in which the code locks and unlocks.    *)
(* A sync.RWMutex admits no new reader once a writer waits; a sync.Mutex   *)
(* is one that nobody reads.  Short sections under pc.mu, monitorMu and    *)
(* diagnosisMu, which contain no other lock, are single steps.             *)
(*                                                                         *)
(* One binding and one connection slot stand for all: the least the code   *)
(* can run with, and where everybody meets.                                *)
(***************************************************************************)
EXTENDS Naturals, Sequences

CONSTANTS
  Procs,    \* the goroutines that take part
  Serves,   \* goroutine -> the kinds of work it does, one after another
  Nobody    \* no goroutine

Kinds == {"scheduler", "refresh", "recheck", "verify", "diagnose",
          "automatic", "access", "deliver"}

ASSUME CheckRuntimeAssumption ==
  /\ Nobody \notin Procs
  /\ Serves \in [Procs -> SUBSET Kinds]
  /\ \A p \in Procs :
       "automatic" \in Serves[p] => Serves[p] = {"automatic"}

(* A goroutine of runAutomaticDiagnosisWorker: it does nothing else.       *)
Automatic(p) == Serves[p] = {"automatic"}

VARIABLES
  todo,      \* goroutine -> operations it has still to perform
  writer,    \* lock -> goroutine holding it for writing
  readers,   \* lock -> goroutines holding it for reading
  waiting,   \* lock -> writer that waits for the readers to leave
  paused,    \* backgroundPaused
  run,       \* goroutine whose diagnosis is running (diagnosisRunning)
  cancelled  \* the context of that diagnosis is done

vars == <<todo, writer, readers, waiting, paused, run, cancelled>>

-----------------------------------------------------------------------------
(* Operations and programs.                                                *)

RWLocks == {"manualPriorityMu", "runtimeMu"}
Locks == RWLocks \cup
  {"updater.mu", "checkCycleMu", "proxyCheckLock", "slot", "deliveryMu"}

Op(name) == [op |-> name, on |-> Nobody]
On(name, lock) == [op |-> name, on |-> lock]

Locked(lock, body) == <<On("lock", lock)>> \o body \o <<On("unlock", lock)>>
RLocked(lock, body) ==
  <<On("rlock", lock)>> \o body \o <<On("runlock", lock)>>

(* A probe goes to its target, or through a local SOCKS listener of Xray:  *)
(* "request" is under way while it is what the goroutine does next.        *)
DirectProbe == Locked("slot", <<>>)
ProxyProbe == Locked("slot", <<Op("request")>>)
Measure == Locked("proxyCheckLock", ProxyProbe)

CheckProxySetInRuntime == RLocked("runtimeMu", Measure)
CheckProxySet == Locked("checkCycleMu", CheckProxySetInRuntime)

(* Mutant: the running diagnosis is cancelled before new ones are refused. *)
PreemptLate == <<Op("cancelAutomatic"), Op("pause")>>

Preempt == <<Op("pause"), Op("cancelAutomatic")>>

WithManualPriority(body) ==
  Preempt \o Locked("manualPriorityMu", body) \o <<Op("resume")>>

(* Mutant: only the check cycle is stopped.                                *)
WithCyclePaused(body) ==
  Preempt \o Locked("checkCycleMu", body) \o <<Op("resume")>>

WithChecksPaused(body) ==
  Preempt \o Locked("checkCycleMu", Locked("runtimeMu", body))
    \o <<Op("resume")>>

(* Refresh: the subscription may be as it was, may be rejected or fail to  *)
(* start, may need no check; a DNS change may need one more.               *)
Refresh ==
  LET reload == WithChecksPaused(<<Op("reload")>>)
  IN {Locked("updater.mu", steps \o dns) :
        steps \in {<<>>, reload, reload \o CheckProxySet},
        dns \in {<<>>, CheckProxySet}}

(* Acquiring the slot of a diagnosis' probe ends when its context is done.  *)
TriedProbe == <<On("try", "slot"), Op("request"), On("unlock", "slot")>>

(* Mutant: the runtime is pinned before the priority of manual actions is  *)
(* respected.                                                              *)
DiagnosisPinnedFirst ==
  RLocked("runtimeMu", RLocked("manualPriorityMu",
    <<Op("begin")>> \o Locked("proxyCheckLock", TriedProbe)
      \o <<Op("end")>>))

(* StartNodeDiagnosis, or a job of the automatic worker.                   *)
Diagnosis ==
  RLocked("manualPriorityMu",
    <<Op("begin")>>
    \o RLocked("runtimeMu", Locked("proxyCheckLock", TriedProbe))
    \o <<Op("end")>>)

(* A replacement is verified with a refresh, and a check of what came.      *)
VerifyReplacement ==
  {WithManualPriority(refresh \o check) :
     refresh \in Refresh, check \in {<<>>, CheckProxySetInRuntime}}

(* An access check tries the target directly, then through healthy nodes.  *)
AccessCheck ==
  {DirectProbe, DirectProbe \o RLocked("runtimeMu", ProxyProbe)}

(* tryDelivery, in the mode "auto": through the listener of a healthy node, *)
(* with no lock of the checker ("deliberately isolated from proxy          *)
(* checking").                                                             *)
Deliver == Locked("deliveryMu", <<Op("deliver")>>)

Program(kind) ==
  CASE kind = "scheduler" -> {CheckProxySet}
    [] kind = "refresh"   -> Refresh
    [] kind = "recheck"   -> {WithManualPriority(CheckProxySetInRuntime)}
    [] kind = "verify"    -> VerifyReplacement
    [] kind \in {"diagnose", "automatic"} -> {Diagnosis}
    [] kind = "access"    -> AccessCheck
    [] kind = "deliver"   -> {Deliver}

-----------------------------------------------------------------------------
Init ==
  /\ todo = [p \in Procs |-> <<>>]
  /\ writer = [l \in Locks |-> Nobody]
  /\ readers = [l \in Locks |-> {}]
  /\ waiting = [l \in Locks |-> Nobody]
  /\ paused = 0
  /\ run = Nobody
  /\ cancelled = FALSE

Start(p) ==
  /\ todo[p] = <<>>
  /\ \E kind \in Serves[p] : \E program \in Program(kind) :
       todo' = [todo EXCEPT ![p] = program]
  /\ UNCHANGED <<writer, readers, waiting, paused, run, cancelled>>

At(p, name) == todo[p] # <<>> /\ Head(todo[p]).op = name
Lock(p) == Head(todo[p]).on
Advance(p) == todo' = [todo EXCEPT ![p] = Tail(@)]

(* Lock of a sync.RWMutex stops new readers first.                         *)
AnnounceWriter(p) ==
  /\ At(p, "lock")
  /\ Lock(p) \in RWLocks
  /\ writer[Lock(p)] = Nobody
  /\ waiting[Lock(p)] = Nobody
  /\ waiting' = [waiting EXCEPT ![Lock(p)] = p]
  /\ UNCHANGED <<todo, writer, readers, paused, run, cancelled>>

TakeLock(p) ==
  /\ At(p, "lock")
  /\ writer[Lock(p)] = Nobody
  /\ readers[Lock(p)] = {}
  /\ Lock(p) \in RWLocks => waiting[Lock(p)] = p
  /\ writer' = [writer EXCEPT ![Lock(p)] = p]
  /\ waiting' = [waiting EXCEPT ![Lock(p)] = Nobody]
  /\ Advance(p)
  /\ UNCHANGED <<readers, paused, run, cancelled>>

Unlock(p) ==
  /\ At(p, "unlock")
  /\ writer' = [writer EXCEPT ![Lock(p)] = Nobody]
  /\ Advance(p)
  /\ UNCHANGED <<readers, waiting, paused, run, cancelled>>

TakeRLock(p) ==
  /\ At(p, "rlock")
  /\ writer[Lock(p)] = Nobody
  /\ waiting[Lock(p)] = Nobody
  /\ readers' = [readers EXCEPT ![Lock(p)] = @ \cup {p}]
  /\ Advance(p)
  /\ UNCHANGED <<writer, waiting, paused, run, cancelled>>

RUnlock(p) ==
  /\ At(p, "runlock")
  /\ readers' = [readers EXCEPT ![Lock(p)] = @ \ {p}]
  /\ Advance(p)
  /\ UNCHANGED <<writer, waiting, paused, run, cancelled>>

(* What the locks are there for: a request through Xray is answered or     *)
(* times out; an alert is delivered, or not; Xray is stopped, started, and *)
(* the new proxies swapped in.                                             *)
Work(p) ==
  /\ \/ At(p, "request")
     \/ At(p, "deliver")
     \/ At(p, "reload")
  /\ Advance(p)
  /\ UNCHANGED <<writer, readers, waiting, paused, run, cancelled>>

(* Mutant: a flag is raised where a counter is lowered.                    *)
PauseAsFlag(p) ==
  /\ At(p, "pause")
  /\ paused' = 1
  /\ Advance(p)
  /\ UNCHANGED <<writer, readers, waiting, run, cancelled>>

Pause(p) ==
  /\ At(p, "pause")
  /\ paused' = paused + 1
  /\ Advance(p)
  /\ UNCHANGED <<writer, readers, waiting, run, cancelled>>

(* Mutant: the first action to finish lifts every pause.                   *)
ResumeAll(p) ==
  /\ At(p, "resume")
  /\ paused' = 0
  /\ Advance(p)
  /\ UNCHANGED <<writer, readers, waiting, run, cancelled>>

Resume(p) ==
  /\ At(p, "resume")
  /\ paused' = paused - 1
  /\ Advance(p)
  /\ UNCHANGED <<writer, readers, waiting, run, cancelled>>

AutomaticRun == \E p \in Procs : Automatic(p) /\ run = p

CancelAutomatic(p) ==
  /\ At(p, "cancelAutomatic")
  /\ cancelled' = (cancelled \/ AutomaticRun)
  /\ Advance(p)
  /\ UNCHANGED <<writer, readers, waiting, paused, run>>

-----------------------------------------------------------------------------
(* Diagnosis.                                                              *)

Preempted(p) == Automatic(p) /\ paused > 0

(* Mutant: two runs may overlap.                                           *)
BusyNever(p) == Preempted(p)

Busy(p) == Preempted(p) \/ run # Nobody

(* beginNodeDiagnosis, under diagnosisMu.  A refused run is skipped up to  *)
(* its end, so only what it holds is given back; the automatic worker      *)
(* tries again later.                                                      *)
Begin(p) ==
  /\ At(p, "begin")
  /\ ~Busy(p)
  /\ run' = p
  /\ cancelled' = FALSE
  /\ Advance(p)
  /\ UNCHANGED <<writer, readers, waiting, paused>>

Refused(p) ==
  /\ At(p, "begin")
  /\ Busy(p)
  /\ \E i \in DOMAIN todo[p] :
       /\ todo[p][i] = Op("end")
       /\ todo' = [todo EXCEPT ![p] = SubSeq(@, i + 1, Len(@))]
  /\ UNCHANGED <<writer, readers, waiting, paused, run, cancelled>>

TrySlot(p) ==
  /\ At(p, "try")
  /\ ~cancelled
  /\ writer[Lock(p)] = Nobody
  /\ writer' = [writer EXCEPT ![Lock(p)] = p]
  /\ Advance(p)
  /\ UNCHANGED <<readers, waiting, paused, run, cancelled>>

(* ctx.Done(), by preemption or after its minute: no probe is sent.        *)
GiveUpSlot(p) ==
  /\ At(p, "try")
  /\ todo' = [todo EXCEPT ![p] = SubSeq(@, Len(TriedProbe) + 1, Len(@))]
  /\ UNCHANGED <<writer, readers, waiting, paused, run, cancelled>>

(* The deferred function of executeNodeDiagnosis.                          *)
End(p) ==
  /\ At(p, "end")
  /\ run' = Nobody
  /\ cancelled' = FALSE
  /\ Advance(p)
  /\ UNCHANGED <<writer, readers, waiting, paused>>

-----------------------------------------------------------------------------
Step(p) ==
  \/ AnnounceWriter(p)
  \/ TakeLock(p)
  \/ Unlock(p)
  \/ TakeRLock(p)
  \/ RUnlock(p)
  \/ Work(p)
  \/ Pause(p)
  \/ Resume(p)
  \/ CancelAutomatic(p)
  \/ Begin(p)
  \/ Refused(p)
  \/ TrySlot(p)
  \/ GiveUpSlot(p)
  \/ End(p)

Next == \E p \in Procs : Start(p) \/ Step(p)

Spec == Init /\ [][Next]_vars

(* A goroutine that can run does; requests have timeouts; a Mutex hands    *)
(* itself to the longest waiter once that has waited for a millisecond,    *)
(* and a RWMutex admits the waiting readers when a writer leaves, so that  *)
(* whoever could take a lock again and again gets it.                      *)
FairSpec == Spec /\ \A p \in Procs : SF_vars(Step(p))

-----------------------------------------------------------------------------
(* Correctness.                                                            *)

TypeOK ==
  /\ writer \in [Locks -> Procs \cup {Nobody}]
  /\ readers \in [Locks -> SUBSET Procs]
  /\ waiting \in [Locks -> Procs \cup {Nobody}]
  /\ paused \in Nat
  /\ run \in Procs \cup {Nobody}
  /\ cancelled \in BOOLEAN

(* WithChecksPaused: Xray is not "restarted while requests are using its   *)
(* local SOCKS listeners": no check, diagnosis or access check has one     *)
(* under way.  It is not so for the delivery of an alert, which the        *)
(* definition of Deliver lets a reload cut off, as the code does.          *)
SocksUndisturbed ==
  \A p, q \in Procs : ~(At(p, "reload") /\ At(q, "request"))

(* Has announced itself with pause and cancel and not finished.            *)
InForce(p) ==
  /\ \E i \in DOMAIN todo[p] : todo[p][i].op = "resume"
  /\ \A i \in DOMAIN todo[p] : todo[p][i].op # "cancelAutomatic"

(* Once a reload or a manual action has cancelled background work, no      *)
(* automatic diagnosis goes on sending probes ahead of it: the one that    *)
(* ran is cancelled, and none slips in between the two steps.              *)
AutomaticYields ==
  (\E p \in Procs : InForce(p)) => (AutomaticRun => cancelled)

(* WithManualPriority "prevents another job from starting ahead of an      *)
(* explicit action", also while several actions overlap.                   *)
NothingStartsAhead ==
  [][ \A p \in Procs :
        InForce(p) => ~(~AutomaticRun /\ AutomaticRun') ]_vars

(* README, Deep Node diagnosis: "Only one deep diagnosis can run at a      *)
(* time": the run the state describes is the only one measuring.           *)
Diagnosing(p) ==
  /\ \E i \in DOMAIN todo[p] : todo[p][i].op = "end"
  /\ \A i \in DOMAIN todo[p] : todo[p][i].op # "begin"

OneDiagnosis == \A p \in Procs : Diagnosing(p) <=> run = p

(* Everything that is started finishes, whatever else keeps starting: no   *)
(* cycle of locks, no reader starved by writers or writer by readers.      *)
EverythingFinishes ==
  \A p \in Procs : todo[p] # <<>> ~> todo[p] = <<>>

=============================================================================
