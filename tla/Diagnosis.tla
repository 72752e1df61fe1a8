------------------------------ MODULE Diagnosis ------------------------------
(***************************************************************************)
(* When a node is diagnosed in depth, and how long the report counts       *)
(* (checker/diagnosis.go): the bounded queue of automatic diagnoses with   *)
(* its marks, the serial worker, manual runs, the freshness of a report    *)
(* against later checks, and a restart of the checker.                     *)
(*                                                                         *)
(* A node has one binding here, so that node and binding results agree.    *)
(* An instant is a tick of clock; a second is two ticks, and what the code *)
(* keeps in whole seconds is compared in seconds.                          *)
(*                                                                         *)
(* Abstracted: the probes behind a verdict (an outcome is works, failed or *)
(* inconclusive), the age limits of a report (it expires at any time), the *)
(* measurement route (found missing at any reading; a report's source      *)
(* address is left out), the older entries of a history. The history file  *)
(* is written at every change, so a crash before the write is a crash      *)
(* before the change.                                                      *)
(***************************************************************************)
EXTENDS Integers, Sequences, FiniteSets

CONSTANTS
  Nodes,        \* node IDs
  Revs,         \* connection revisions
  Absent,       \* a node not in the current subscription
  Symptoms,     \* kinds of failure proxyFailureKind can tell apart
  NoSymptom,    \* none of them
  Outcomes,     \* node -> outcomes its checks may have
  Recorders,    \* goroutines that record check results
  QueueSize,    \* capacity of diagnosisQueue (256)
  FailedOnce,   \* nodes known from an earlier life to have failed once
  NoRun, NoResult, NoNode,
  Quiet,        \* bound: nodes nobody edits, resolves or diagnoses by hand
  MaxClock,     \* bound: measurements, manual starts and reloads
  MaxRestarts   \* bound: restarts of the checker

VARIABLES
  clock,     \* the present instant
  rev,       \* pc.proxies: node -> revision or Absent
  result,    \* pc.results: node -> latest stored outcome
  node,      \* pc.monitor: node -> repair state, as far as it is read here
  history,   \* diagnosisHistory: node -> its latest run
  queue,     \* diagnosisQueue
  marked,    \* diagnosisQueued
  hand,      \* recorder -> the result it is recording, then enqueuing
  worker,    \* runAutomaticDiagnosisWorker
  exec,      \* the run being executed; diagnosisRunning is exec.node # none
  disk,      \* what the results and monitor files hold
  restarts

vars == <<clock, rev, result, node, history, queue, marked, hand, worker,
          exec, disk, restarts>>

Nobody == "nobody"
Sec(t) == t \div 2
Now == Sec(clock)
Outcome == [online : BOOLEAN, symptom : Symptoms \cup {NoSymptom}]
Result == [online : BOOLEAN, symptom : Symptoms \cup {NoSymptom},
           at : Nat, rev : Revs]
Node == [failures : 0..2,         \* two stands for two or more
         episode : Nat, symptom : Symptoms \cup {NoSymptom},
         successAt : Nat,         \* LastSuccess, to the instant
         resultAt : Nat, rev : Revs,
        since : Nat]             \* auxiliary: when a restart made it anew
Run == [state : {"queued", "running", "completed"},
        verdict : {"none", "works", "failed", "inconclusive"},
        rev : Revs \cup {Absent}, episode : Int,
        symptom : Symptoms \cup {NoSymptom},
        capturedAt : Nat,         \* auxiliary: when episode was read
        measuredAt : Nat,         \* of a tunnel that worked; 0: none did
        completedAt : Nat, aged : BOOLEAN]
Hand == [phase : {"idle", "stored", "recorded", "wanted", "marked"},
         node : Nodes \cup {Nobody}]
Worker == [phase : {"idle", "deciding", "starting", "begun", "running"},
           node : Nodes \cup {Nobody}]
Exec == [phase : {"idle", "begun", "running", "completed"},
         node : Nodes \cup {Nobody}, automatic : BOOLEAN,
         measuredAt : 0..MaxClock]
Free == [phase |-> "idle", node |-> Nobody]
Idle == [phase |-> "idle", node |-> Nobody, automatic |-> FALSE,
         measuredAt |-> 0]

ASSUME DiagnosisAssumption ==
  /\ Nobody \notin Nodes
  /\ Absent \notin Revs
  /\ NoSymptom \notin Symptoms
  /\ \A n \in Nodes : Outcomes[n] \subseteq Outcome
  /\ NoRun \notin Run /\ NoResult \notin Result /\ NoNode \notin Node
  /\ FailedOnce \subseteq Nodes /\ Quiet \subseteq Nodes
  /\ QueueSize \in Nat \ {0}
  /\ MaxClock \in Nat /\ MaxClock >= 3 /\ MaxRestarts \in Nat

TypeOK ==
  /\ clock \in 3..MaxClock + 2 * MaxRestarts
  /\ rev \in [Nodes -> Revs \cup {Absent}]
  /\ result \in [Nodes -> Result \cup {NoResult}]
  /\ node \in [Nodes -> Node]
  /\ history \in [Nodes -> Run \cup {NoRun}]
  /\ queue \in Seq(Nodes) /\ Len(queue) <= QueueSize
  /\ marked \subseteq Nodes
  /\ hand \in [Recorders -> Hand]
  /\ worker \in Worker
  /\ exec \in Exec
  /\ disk \in [result : [Nodes -> Result \cup {NoResult}],
               node : [Nodes -> Node \cup {NoNode}]]
  /\ restarts \in 0..MaxRestarts

NewNode(r, instant) ==
  [failures |-> 0, episode |-> 0, symptom |-> NoSymptom, successAt |-> 0,
   resultAt |-> 0, rev |-> r, since |-> instant]

(* What the monitor file of an earlier life may say of a node.             *)
FailedNode(r) == [NewNode(r, 0) EXCEPT !.failures = 1, !.episode = 1]

Init ==
  /\ clock = 3
  /\ rev \in [Nodes -> Revs]
  /\ result = [n \in Nodes |-> NoResult]
  /\ node = [n \in Nodes |-> IF n \in FailedOnce THEN FailedNode(rev[n])
                             ELSE NewNode(rev[n], 0)]
  /\ history = [n \in Nodes |-> NoRun]
  /\ queue = <<>>
  /\ marked = {}
  /\ hand = [g \in Recorders |-> Free]
  /\ worker = Free
  /\ exec = Idle
  /\ disk = [result |-> result, node |-> [n \in Nodes |->
       IF n \in FailedOnce THEN node[n] ELSE NoNode]]
  /\ restarts = 0

-----------------------------------------------------------------------------
(* How a result is counted (applyMonitorResult, initializeNodeFromResult). *)

Count(nd, r) ==
  [nd EXCEPT
     !.failures = IF r.online THEN 0 ELSE IF @ < 2 THEN @ + 1 ELSE 2,
     !.episode = IF ~r.online /\ nd.failures = 0 THEN @ + 1 ELSE @,
     !.symptom = r.symptom,
     !.successAt = IF r.online THEN r.at ELSE @,
     !.resultAt = r.at]

(* What a new list does to it: nothing, unless its connection was edited   *)
(* (markNodeRevisionChanged).                                              *)
(* Mutant: a node that left counts as edited.                              *)
ReloadedAlways(nd, r) ==
  IF r = nd.rev THEN nd
  ELSE [nd EXCEPT !.failures = 0, !.symptom = NoSymptom, !.rev = r]

Reloaded(nd, r) ==
  IF r \in {Absent, nd.rev} THEN nd
  ELSE [nd EXCEPT !.failures = 0, !.symptom = NoSymptom, !.rev = r]

-----------------------------------------------------------------------------
(* How long a report counts.                                               *)

(* diagnosisIsStale: it is old, or of another connection.                  *)
IsStale(run, r) ==
  \/ r # Absent /\ run.rev # r
  \/ run.state = "completed" /\ run.aged

(* diagnosisFailureCoversBinding: it was found failing.                    *)
CoversFailure(run) == run.verdict = "failed"

(* diagnosisSupersededByFailure: a failing result that is not older than   *)
(* the report, of another outage, with another symptom, after a success,   *)
(* or of a binding the report did not find failing.                        *)
(* Mutant: the outage is not compared.                                     *)
SupersededWithoutEpisode(n) ==
  LET run == history[n]
      nd == node[n]
  IN /\ run.state = "completed"
     /\ result[n] # NoResult
     /\ ~result[n].online
     /\ Sec(result[n].at) >= run.completedAt
     /\ \/ /\ run.symptom # NoSymptom
           /\ nd.symptom # NoSymptom
           /\ run.symptom # nd.symptom
        \/ Sec(nd.successAt) > run.completedAt
        \/ ~CoversFailure(run)

Superseded(n) ==
  LET run == history[n]
      nd == node[n]
  IN /\ run.state = "completed"
     /\ result[n] # NoResult
     /\ ~result[n].online
     /\ Sec(result[n].at) >= run.completedAt
     /\ \/ run.episode # -1 /\ run.episode # nd.episode
        \/ /\ run.symptom # NoSymptom
           /\ nd.symptom # NoSymptom
           /\ run.symptom # nd.symptom
        \/ Sec(nd.successAt) > run.completedAt
        \/ ~CoversFailure(run)

(* GetNodeDiagnosis: whether the latest report is shown as stale.          *)
Stale(n) ==
  rev[n] # Absent /\ (IsStale(history[n], rev[n]) \/ Superseded(n))

(* automaticDiagnosisNeeded                                                *)
Needed(n) ==
  /\ rev[n] # Absent
  /\ node[n].failures >= 2
  /\ history[n] # NoRun => history[n].state = "completed" /\ Stale(n)

-----------------------------------------------------------------------------
(* A check ends, is recorded, and its node is put into the queue.          *)

Check(g, n, o) ==
  /\ hand[g].phase = "idle"
  /\ rev[n] # Absent
  /\ clock < MaxClock
  /\ clock' = clock + 1
  /\ result' = [result EXCEPT ![n] =
       [online |-> o.online, symptom |-> o.symptom, at |-> clock + 1,
        rev |-> rev[n]]]
  /\ hand' = [hand EXCEPT ![g] = [phase |-> "stored", node |-> n]]
  /\ UNCHANGED <<rev, node, history, queue, marked, worker, exec, disk,
                 restarts>>

(* The route was lost meanwhile: the outcome is dropped.                   *)
DropOutcome(n) == rev[n] # Absent /\ UNCHANGED vars

(* recordMonitorResults up to its unlock.                                  *)
Record(g) ==
  LET n == hand[g].node
  IN /\ hand[g].phase = "stored"
     /\ IF node[n].resultAt < result[n].at
        THEN /\ node' = [node EXCEPT ![n] = Count(@, result[n])]
             /\ hand' = [hand EXCEPT ![g].phase = "recorded"]
        ELSE hand' = [hand EXCEPT ![g] = Free] /\ UNCHANGED node
     /\ UNCHANGED <<clock, rev, result, history, queue, marked, worker, exec,
                    disk, restarts>>

(* enqueueAutomaticDiagnoses: is one needed?                               *)
Consider(g) ==
  /\ hand[g].phase = "recorded"
  /\ hand' = [hand EXCEPT ![g] =
       IF Needed(hand[g].node) THEN [@ EXCEPT !.phase = "wanted"] ELSE Free]
  /\ UNCHANGED <<clock, rev, result, node, history, queue, marked, worker,
                 exec, disk, restarts>>

(* enqueueAutomaticDiagnosis: the mark, under diagnosisMu.                 *)
Mark(g) ==
  /\ hand[g].phase = "wanted"
  /\ IF hand[g].node \in marked
     THEN hand' = [hand EXCEPT ![g] = Free] /\ UNCHANGED marked
     ELSE /\ marked' = marked \cup {hand[g].node}
          /\ hand' = [hand EXCEPT ![g].phase = "marked"]
  /\ UNCHANGED <<clock, rev, result, node, history, queue, worker, exec,
                 disk, restarts>>

(* Then the send that does not wait: a full queue takes the mark back.     *)
(* Mutant: it does not.                                                    *)
SendKeepingMark(g) ==
  /\ hand[g].phase = "marked"
  /\ IF Len(queue) < QueueSize
     THEN queue' = Append(queue, hand[g].node) /\ UNCHANGED marked
     ELSE UNCHANGED <<queue, marked>>
  /\ hand' = [hand EXCEPT ![g] = Free]
  /\ UNCHANGED <<clock, rev, result, node, history, worker, exec, disk,
                 restarts>>

Send(g) ==
  /\ hand[g].phase = "marked"
  /\ IF Len(queue) < QueueSize
     THEN queue' = Append(queue, hand[g].node) /\ UNCHANGED marked
     ELSE marked' = marked \ {hand[g].node} /\ UNCHANGED queue
  /\ hand' = [hand EXCEPT ![g] = Free]
  /\ UNCHANGED <<clock, rev, result, node, history, worker, exec, disk,
                 restarts>>

-----------------------------------------------------------------------------
(* beginNodeDiagnosis for either trigger, once its checks have passed.     *)

NewRun(n) ==
  [state |-> "queued", verdict |-> "none", rev |-> rev[n], episode |-> -1,
   symptom |-> NoSymptom, capturedAt |-> 0, measuredAt |-> 0,
   completedAt |-> 0, aged |-> FALSE]

Begin(n, automatic) ==
  /\ exec' = [phase |-> "begun", node |-> n, automatic |-> automatic,
               measuredAt |-> 0]
  /\ history' = [history EXCEPT ![n] = NewRun(n)]

StartManual(n) ==
  /\ rev[n] # Absent
  /\ exec.phase = "idle"
  /\ clock < MaxClock
  /\ clock' = clock + 1
  /\ Begin(n, FALSE)
  /\ UNCHANGED <<rev, result, node, queue, marked, hand, worker, disk,
                 restarts>>

(* The worker.                                                             *)

Receive ==
  /\ worker.phase = "idle"
  /\ queue # <<>>
  /\ worker' = [phase |-> "deciding", node |-> Head(queue)]
  /\ queue' = Tail(queue)
  /\ UNCHANGED <<clock, rev, result, node, history, marked, hand, exec, disk,
                 restarts>>

(* Mutant: a node that recovered in the queue is forgotten with its mark.  *)
DecideKeepingMark ==
  /\ worker.phase = "deciding"
  /\ IF Needed(worker.node)
     THEN worker' = [worker EXCEPT !.phase = "starting"]
     ELSE worker' = Free
  /\ UNCHANGED <<clock, rev, result, node, history, queue, marked, hand,
                 exec, disk, restarts>>

Decide ==
  /\ worker.phase = "deciding"
  /\ IF Needed(worker.node)
     THEN worker' = [worker EXCEPT !.phase = "starting"] /\ UNCHANGED marked
     ELSE worker' = Free /\ marked' = marked \ {worker.node}
  /\ UNCHANGED <<clock, rev, result, node, history, queue, hand, exec, disk,
                 restarts>>

(* Preempted by priority work, or another diagnosis is running: again.     *)
Retry ==
  /\ worker.phase = "starting"
  /\ rev[worker.node] # Absent
  /\ worker' = [worker EXCEPT !.phase = "deciding"]
  /\ UNCHANGED <<clock, rev, result, node, history, queue, marked, hand,
                 exec, disk, restarts>>

(* The node has gone, or there is no route.                                *)
Skip ==
  /\ worker.phase = "starting"
  /\ worker' = Free
  /\ marked' = marked \ {worker.node}
  /\ UNCHANGED <<clock, rev, result, node, history, queue, hand, exec, disk,
                 restarts>>

BeginAutomatic ==
  /\ worker.phase = "starting"
  /\ rev[worker.node] # Absent
  /\ exec.phase = "idle"
  /\ Begin(worker.node, TRUE)
  /\ worker' = [worker EXCEPT !.phase = "begun"]
  /\ UNCHANGED <<clock, rev, result, node, queue, marked, hand, disk,
                 restarts>>

FinishQueued ==
  /\ worker.phase = "begun"
  /\ worker' = [worker EXCEPT !.phase = "running"]
  /\ marked' = marked \ {worker.node}
  /\ UNCHANGED <<clock, rev, result, node, history, queue, hand, exec, disk,
                 restarts>>

-----------------------------------------------------------------------------
(* executeNodeDiagnosis.                                                   *)

(* replaceDiagnosis                                                        *)
Replace(n, run) == history' = [history EXCEPT ![n] = run]

Completed(run, verdict) ==
  [run EXCEPT !.state = "completed", !.verdict = verdict,
              !.completedAt = Now]

(* With runtimeMu read-locked the bindings and their failures are read     *)
(* again.                                                                  *)
EnterRuntime ==
  LET n == exec.node
  IN /\ exec.phase = "begun"
     /\ exec.automatic => worker.phase = "running"
     /\ IF rev[n] = Absent
        THEN /\ Replace(n, Completed(history[n], "inconclusive"))
             /\ exec' = [exec EXCEPT !.phase = "completed"]
        ELSE /\ Replace(n, [history[n] EXCEPT
                  !.state = "running", !.rev = rev[n],
                  !.episode = node[n].episode, !.symptom = node[n].symptom,
                  !.capturedAt = clock])
             /\ exec' = [exec EXCEPT !.phase = "running"]
     /\ UNCHANGED <<clock, rev, result, node, queue, marked, hand, worker,
                    disk, restarts>>

(* A tunnel carries its requests at this instant.                          *)
MeasureTunnel ==
  /\ exec.phase = "running"
  /\ exec.measuredAt = 0
  /\ clock < MaxClock
  /\ clock' = clock + 1
  /\ exec' = [exec EXCEPT !.measuredAt = clock + 1]
  /\ UNCHANGED <<rev, result, node, history, queue, marked, hand, worker,
                 disk, restarts>>

(* completeDiagnosis up to the evidence. Besides what the tunnel says a run *)
(* is inconclusive without a route, preempted, out of time or when its      *)
(* control request failed; what a tunnel carried before that stays in it.   *)
Complete ==
  LET n == exec.node
      run == [history[n] EXCEPT !.measuredAt = exec.measuredAt]
      verdict == IF exec.measuredAt > 0 THEN "works" ELSE "failed"
  IN /\ exec.phase = "running"
     /\ \E v \in {verdict, "inconclusive"} : Replace(n, Completed(run, v))
     /\ exec' = [exec EXCEPT !.phase = "completed"]
     /\ UNCHANGED <<clock, rev, result, node, queue, marked, hand, worker,
                    disk, restarts>>

(* applyDiagnosisEvidence: a tunnel that worked becomes the result, unless *)
(* a newer one is stored.                                                  *)
(* Mutant: whatever is stored gives way.                                   *)
ProvesAlways(run, r, stored) ==
  run.measuredAt > 0 /\ r # Absent /\ ~IsStale(run, r)

Proves(run, r, stored) ==
  /\ run.measuredAt > 0
  /\ r # Absent
  /\ ~IsStale(run, r)
  /\ stored # NoResult => stored.at <= run.measuredAt

Evidence(run) ==
  [online |-> TRUE, symptom |-> NoSymptom, at |-> run.measuredAt,
   rev |-> run.rev]

(* recordMonitorResults of what was promoted.                              *)
CountNews(nd, r) == IF nd.resultAt < r.at THEN Count(nd, r) ELSE nd

(* Then the run is over, and the worker pauses and goes on.                *)
Finish ==
  LET n == exec.node
      run == history[n]
  IN /\ exec.phase = "completed"
     /\ IF Proves(run, rev[n], result[n])
        THEN /\ result' = [result EXCEPT ![n] = Evidence(run)]
             /\ node' = [node EXCEPT ![n] = CountNews(@, Evidence(run))]
        ELSE UNCHANGED <<result, node>>
     /\ exec' = Idle
     /\ worker' = IF exec.automatic THEN Free ELSE worker
     /\ UNCHANGED <<clock, rev, history, queue, marked, hand, disk, restarts>>

-----------------------------------------------------------------------------
(* What happens around it.                                                 *)

(* The report is older than its verdict allows.                            *)
Expire(n) ==
  /\ history[n] # NoRun
  /\ history[n].state = "completed"
  /\ ~history[n].aged
  /\ history' = [history EXCEPT ![n].aged = TRUE]
  /\ UNCHANGED <<clock, rev, result, node, queue, marked, hand, worker, exec,
                 disk, restarts>>

(* WithChecksPaused(... ApplyProxyUpdate): with runtimeMu write-locked no  *)
(* set is between storing and enqueuing, and no run past its lock.         *)
Reload(n, r) ==
  /\ \A g \in Recorders : hand[g].phase = "idle"
  /\ exec.phase \in {"idle", "begun"}
  /\ r # rev[n]
  /\ clock < MaxClock
  /\ clock' = clock + 1
  /\ rev' = [rev EXCEPT ![n] = r]
  /\ result' = [result EXCEPT ![n] = NoResult]
  /\ node' = [node EXCEPT ![n] = Reloaded(@, r)]
  /\ UNCHANGED <<history, queue, marked, hand, worker, exec, disk,
                 restarts>>

(* RefreshResolvedIPs takes monitorMu only.                                *)
DNSMoved(n) ==
  /\ rev[n] # Absent
  /\ node[n].failures > 0
  /\ node' = [node EXCEPT ![n].failures = 0]
  /\ UNCHANGED <<clock, rev, result, history, queue, marked, hand, worker,
                 exec, disk, restarts>>

(* The two loops that save snapshots. Results keep whole seconds.          *)
Saved(r) == IF r = NoResult THEN r ELSE [r EXCEPT !.at = 2 * Sec(@)]

SaveResults ==
  /\ restarts < MaxRestarts
  /\ disk' = [disk EXCEPT !.result = [n \in Nodes |-> Saved(result[n])]]
  /\ UNCHANGED <<clock, rev, result, node, history, queue, marked, hand,
                 worker, exec, restarts>>

SaveMonitor ==
  /\ restarts < MaxRestarts
  /\ disk' = [disk EXCEPT !.node = node]
  /\ UNCHANGED <<clock, rev, result, node, history, queue, marked, hand,
                 worker, exec, restarts>>

(* The checker dies and comes back: results, then repair history, then     *)
(* diagnoses are restored (main.go), and a saved positive report is        *)
(* promoted again.                                                         *)
RestoredResult(n) ==
  IF disk.result[n] # NoResult /\ disk.result[n].rev = rev[n]
  THEN disk.result[n] ELSE NoResult

RestoredNode(n, second) ==
  LET saved == disk.node[n]
  IN IF saved = NoNode
     THEN LET fresh == NewNode(IF rev[n] = Absent THEN node[n].rev
                               ELSE rev[n], 2 * second)
          IN IF RestoredResult(n) = NoResult THEN fresh
             ELSE Count(fresh, RestoredResult(n))
     ELSE Reloaded(saved, rev[n])

(* Mutant: an unfinished run is left as it was.                            *)
RestoredRunUnfinished(n, second) == history[n]

RestoredRun(n, second) ==
  IF history[n] # NoRun /\ history[n].state # "completed"
  THEN [history[n] EXCEPT !.state = "completed", !.verdict = "inconclusive",
                          !.completedAt = second]
  ELSE history[n]

Restart ==
  LET second == Now + 1
      Repaired(n) == /\ RestoredRun(n, second) # NoRun
                     /\ Proves(RestoredRun(n, second), rev[n],
                               RestoredResult(n))
  IN /\ restarts < MaxRestarts
     /\ restarts' = restarts + 1
     /\ clock' = 2 * second
     /\ history' = [n \in Nodes |-> RestoredRun(n, second)]
     /\ result' = [n \in Nodes |-> IF Repaired(n) THEN Evidence(history[n])
                                   ELSE RestoredResult(n)]
     /\ node' = [n \in Nodes |->
          IF Repaired(n)
          THEN CountNews(RestoredNode(n, second), Evidence(history[n]))
          ELSE RestoredNode(n, second)]
     /\ queue' = <<>>
     /\ marked' = {}
     /\ hand' = [g \in Recorders |-> Free]
     /\ worker' = Free
     /\ exec' = Idle
     /\ UNCHANGED <<rev, disk>>

Next ==
  \/ \E g \in Recorders, n \in Nodes : \E o \in Outcomes[n] : Check(g, n, o)
  \/ \E n \in Nodes : DropOutcome(n)
  \/ \E g \in Recorders : \/ Record(g) \/ Consider(g) \/ Mark(g) \/ Send(g)
  \/ \E n \in Nodes \ Quiet : StartManual(n)
  \/ Receive \/ Decide \/ Retry \/ Skip \/ BeginAutomatic \/ FinishQueued
  \/ EnterRuntime
  \/ MeasureTunnel \/ Complete \/ Finish
  \/ \E n \in Nodes \ Quiet : Expire(n) \/ DNSMoved(n)
  \/ \E n \in Nodes \ Quiet, r \in Revs \cup {Absent} : Reload(n, r)
  \/ SaveResults \/ SaveMonitor \/ Restart

Spec == Init /\ [][Next]_vars

(* Goroutines that can go on do so, every probe ends, and priority work    *)
(* leaves the worker a chance to begin.                                    *)
Fairness ==
  /\ \A g \in Recorders : WF_vars(Record(g) \/ Consider(g) \/ Mark(g)
                                  \/ Send(g))
  /\ WF_vars(Receive \/ Decide \/ Retry \/ Skip \/ BeginAutomatic
             \/ FinishQueued)
  /\ SF_vars(BeginAutomatic)
  /\ WF_vars(EnterRuntime \/ Complete \/ Finish)

FairSpec == Spec /\ Fairness

-----------------------------------------------------------------------------
(* A marked node is in exactly one place: the queue, the hand of the       *)
(* goroutine that marked it, or the hand of the worker; a node without a   *)
(* mark is in none. So no node is diagnosed twice for one report and none  *)
(* is shut out by a mark nobody will remove (enqueueAutomaticDiagnosis,    *)
(* runAutomaticDiagnosisWorker).                                           *)
Places(n) ==
  Cardinality({i \in DOMAIN queue : queue[i] = n})
  + Cardinality({g \in Recorders : /\ hand[g].phase = "marked"
                                   /\ hand[g].node = n})
  + (IF /\ worker.phase \in {"deciding", "starting", "begun"}
        /\ worker.node = n
     THEN 1 ELSE 0)

MarkedOnce ==
  \A n \in Nodes : Places(n) = IF n \in marked THEN 1 ELSE 0

(* A negative report that is still shown as current next to a counted      *)
(* failure no older than it belongs to that failure's outage: no success   *)
(* is known since its investigation began, even when the restart went back *)
(* to an older history ("repeating the same confirmed outage does not      *)
(* require another full investigation", but a new outage does). The one    *)
(* exception is a history that was lost and made anew after the report:    *)
(* its episodes are numbered from the start, and one of them may be taken  *)
(* for the report's.                                                       *)
FreshReportSameOutage ==
  \A n \in Nodes :
    (/\ history[n] # NoRun
     /\ history[n].state = "completed"
     /\ history[n].verdict = "failed"
     /\ rev[n] # Absent
     /\ ~Stale(n)
     /\ result[n] # NoResult
     /\ ~result[n].online
     /\ node[n].failures > 0
     /\ Sec(result[n].at) >= history[n].completedAt
     /\ node[n].since <= history[n].capturedAt)
    => node[n].successAt <= history[n].capturedAt

(* A report that is not completed is the one being executed, also after a  *)
(* restart in the middle of a run: otherwise automaticDiagnosisNeeded      *)
(* would wait for it for ever.                                             *)
UnfinishedIsRunning ==
  \A n \in Nodes :
    history[n] # NoRun /\ history[n].state # "completed"
    => exec.phase \in {"begun", "running"} /\ exec.node = n

(* What is shown is never older, in whole seconds, than what was saved for *)
(* the same connection: neither a diagnosis that ends late nor the         *)
(* promotion of a saved one after a restart puts back an older measurement.*)
SavedNeverNewer ==
  \A n \in Nodes :
    /\ disk.result[n] # NoResult /\ result[n] # NoResult
    /\ disk.result[n].rev = result[n].rev
    => Sec(result[n].at) >= Sec(disk.result[n].at)

(* Every queued node is dealt with: its mark does not stay.                *)
QueueDrains == \A n \in Nodes : n \in marked ~> n \notin marked

=============================================================================
