-------------------------- MODULE Diagnosis_proofs --------------------------
(***************************************************************************)
(* What the queue, the worker and the freshness of reports keep to, for    *)
(* every set of nodes, recorders and outcomes, every capacity of the queue *)
(* and any number of restarts.                                             *)
(***************************************************************************)
EXTENDS Diagnosis, FiniteSetTheorems, TLAPS

(* Who is busy is busy with a node, and what it works on is there.         *)
Typed ==
  /\ TypeOK
  /\ clock <= MaxClock + 2 * restarts
  /\ \A g \in Recorders : hand[g].phase # "idle" => hand[g].node \in Nodes
  /\ \A g \in Recorders :
       hand[g].phase = "stored" => result[hand[g].node] # NoResult
  /\ worker.phase # "idle" => worker.node \in Nodes
  /\ exec.phase # "idle" =>
       exec.node \in Nodes /\ history[exec.node] # NoRun

-----------------------------------------------------------------------------
(* What the operators return.                                              *)

LEMMA SecIsNat ==
  ASSUME NEW t \in Nat
  PROVE  /\ Sec(t) \in Nat
         /\ 2 * Sec(t) <= t
         /\ t <= 2 * Sec(t) + 1
PROOF
  BY DEF Sec

LEMMA NewNodeIsNode ==
  ASSUME NEW r \in Revs, NEW instant \in Nat
  PROVE  /\ NewNode(r, instant) \in Node
         /\ FailedNode(r) \in Node
PROOF
<1>1. 0 \in 0..2 /\ 1 \in 0..2 /\ 0 \in Nat /\ 1 \in Nat
  OBVIOUS
<1>2. NoSymptom \in Symptoms \cup {NoSymptom}
  OBVIOUS
<1>3. NewNode(r, instant) \in Node /\ NewNode(r, 0) \in Node
  BY <1>1, <1>2, ZenonT(60) DEF NewNode, Node
<1>. QED
  BY <1>1, <1>3, ZenonT(60) DEF FailedNode, Node

LEMMA CountIsNode ==
  ASSUME NEW nd \in Node, NEW r \in Result
  PROVE  Count(nd, r) \in Node
PROOF
<1>. DEFINE failures == IF r.online THEN 0
                        ELSE IF nd.failures < 2 THEN nd.failures + 1 ELSE 2
            episode == IF ~r.online /\ nd.failures = 0
                       THEN nd.episode + 1 ELSE nd.episode
            successAt == IF r.online THEN r.at ELSE nd.successAt
<1>1. failures \in 0..2 /\ episode \in Nat /\ successAt \in Nat
  BY DEF Node, Result
<1>2. r.symptom \in Symptoms \cup {NoSymptom} /\ r.at \in Nat
  BY DEF Result
<1>3. Count(nd, r) =
        [nd EXCEPT !.failures = failures, !.episode = episode,
                   !.symptom = r.symptom, !.successAt = successAt,
                   !.resultAt = r.at]
  BY DEF Count, Node
<1>. HIDE DEF failures, episode, successAt
<1>. QED
  BY <1>1, <1>2, <1>3, ZenonT(60) DEF Node

LEMMA ReloadedIsNode ==
  ASSUME NEW nd \in Node, NEW r \in Revs \cup {Absent}
  PROVE  Reloaded(nd, r) \in Node
PROOF
<1>1. 0 \in 0..2 /\ NoSymptom \in Symptoms \cup {NoSymptom}
  OBVIOUS
<1>2. CASE r \in {Absent, nd.rev}
  BY <1>2 DEF Reloaded
<1>3. CASE r \notin {Absent, nd.rev}
  <2>1. r \in Revs
    BY <1>3
  <2>. QED
    BY <1>1, <1>3, <2>1, ZenonT(60) DEF Reloaded, Node
<1>. QED
  BY <1>2, <1>3

LEMMA EvidenceIsResult ==
  ASSUME NEW run \in Run, NEW r \in Revs \cup {Absent}, NEW stored,
         Proves(run, r, stored)
  PROVE  Evidence(run) \in Result /\ run.rev = r
PROOF
<1>1. run.rev = r /\ r \in Revs /\ run.measuredAt \in Nat
  BY DEF Proves, IsStale, Run
<1>2. NoSymptom \in Symptoms \cup {NoSymptom} /\ TRUE \in BOOLEAN
  OBVIOUS
<1>. QED
  BY <1>1, <1>2 DEF Evidence, Result

LEMMA CountNewsIsNode ==
  ASSUME NEW nd \in Node, NEW r \in Result
  PROVE  CountNews(nd, r) \in Node
PROOF
  BY CountIsNode DEF CountNews

LEMMA CompletedIsRun ==
  ASSUME NEW run \in Run, NEW second \in Nat,
         NEW verdict \in {"none", "works", "failed", "inconclusive"}
  PROVE  [run EXCEPT !.state = "completed", !.verdict = verdict,
                     !.completedAt = second] \in Run
PROOF
<1>1. "completed" \in {"queued", "running", "completed"}
  OBVIOUS
<1>. QED
  BY <1>1, ZenonT(60) DEF Run

LEMMA SavedIsResult ==
  ASSUME NEW r \in Result \cup {NoResult}
  PROVE  Saved(r) \in Result \cup {NoResult}
PROOF
<1>1. CASE r = NoResult
  BY <1>1 DEF Saved
<1>2. CASE r # NoResult
  <2>1. r \in Result /\ r.at \in Nat
    BY <1>2 DEF Result
  <2>2. Sec(r.at) \in Nat
    BY <2>1, SecIsNat
  <2>3. r \in Result /\ 2 * Sec(r.at) \in Nat
    BY <2>1, <2>2
  <2>4. Saved(r) = [r EXCEPT !.at = 2 * Sec(r.at)]
    BY <1>2, <2>1 DEF Saved, Result
  <2>. HIDE DEF Sec
  <2>. QED
    BY <2>3, <2>4, ZenonT(60) DEF Result
<1>. QED
  BY <1>1, <1>2

-----------------------------------------------------------------------------
(* Types.                                                                  *)

LEMMA InitTyped == Init => Typed
PROOF
<1>. SUFFICES ASSUME Init PROVE Typed
  OBVIOUS
<1>. USE DiagnosisAssumption
<1>1. clock \in 3..MaxClock + 2 * MaxRestarts /\ clock <= MaxClock
  BY DEF Init
<1>2. rev \in [Nodes -> Revs \cup {Absent}]
  BY DEF Init
<1>3. result \in [Nodes -> Result \cup {NoResult}]
  BY DEF Init
<1>4. \A n \in Nodes : /\ FailedNode(rev[n]) \in Node
                       /\ NewNode(rev[n], 0) \in Node
  <2>1. 0 \in Nat /\ \A n \in Nodes : rev[n] \in Revs
    BY DEF Init
  <2>. QED
    BY <2>1, NewNodeIsNode
<1>5. node \in [Nodes -> Node]
  BY <1>4 DEF Init
<1>6. history \in [Nodes -> Run \cup {NoRun}]
  BY DEF Init
<1>7. queue \in Seq(Nodes) /\ Len(queue) <= QueueSize /\ marked \subseteq Nodes
  BY DEF Init
<1>8. /\ hand \in [Recorders -> Hand]
      /\ \A g \in Recorders : hand[g].phase = "idle"
  BY DEF Init, Hand, Free
<1>9. worker \in Worker /\ worker.phase = "idle"
  BY DEF Init, Worker, Free
<1>10. exec \in Exec /\ exec.phase = "idle"
  <2>1. 0 \in 0..MaxClock
    OBVIOUS
  <2>. QED
    BY <2>1 DEF Init, Exec, Idle
<1>11. disk \in [result : [Nodes -> Result \cup {NoResult}],
                 node : [Nodes -> Node \cup {NoNode}]]
  BY <1>3, <1>5 DEF Init
<1>12. restarts = 0 /\ restarts \in 0..MaxRestarts
  BY DEF Init
<1>. QED
  BY <1>1, <1>2, <1>3, <1>5, <1>6, <1>7, <1>8, <1>9, <1>10, <1>11, <1>12
     DEF Typed, TypeOK

(* A tick leaves room for the restarts to come.                            *)
LEMMA TickIsTyped ==
  ASSUME Typed, clock < MaxClock, clock' = clock + 1,
         UNCHANGED restarts
  PROVE  /\ clock' \in 3..MaxClock + 2 * MaxRestarts
         /\ clock' <= MaxClock + 2 * restarts'
         /\ clock + 1 \in Nat
         /\ clock + 1 \in 0..MaxClock
PROOF
  BY DiagnosisAssumption DEF Typed, TypeOK

LEMMA NowIsNat ==
  ASSUME Typed
  PROVE  clock \in Nat /\ clock >= 3 /\ Now \in Nat
PROOF
<1>1. clock \in Nat /\ clock >= 3
  BY DiagnosisAssumption DEF Typed, TypeOK
<1>. QED
  BY <1>1, SecIsNat DEF Now

LEMMA NextNowIsNat ==
  ASSUME Typed'
  PROVE  clock' \in Nat /\ Now' \in Nat
PROOF
<1>1. clock' \in Nat
  BY DiagnosisAssumption DEF Typed, TypeOK
<1>. QED
  BY <1>1, SecIsNat DEF Now

LEMMA TypesAt ==
  ASSUME Typed, NEW n \in Nodes
  PROVE  /\ rev[n] \in Revs \cup {Absent}
         /\ result[n] \in Result \cup {NoResult}
         /\ node[n] \in Node
         /\ history[n] \in Run \cup {NoRun}
         /\ disk.result[n] \in Result \cup {NoResult}
         /\ disk.node[n] \in Node \cup {NoNode}
PROOF
  BY DEF Typed, TypeOK

LEMMA TimesAreNat ==
  ASSUME Typed, NEW n \in Nodes
  PROVE  /\ result[n] # NoResult => result[n].at \in Nat
         /\ disk.result[n] # NoResult => disk.result[n].at \in Nat
         /\ node[n].successAt \in Nat
         /\ disk.node[n] # NoNode => disk.node[n].successAt \in Nat
         /\ history[n] # NoRun =>
              /\ history[n].capturedAt \in Nat
              /\ history[n].measuredAt \in Nat
              /\ history[n].completedAt \in Nat
PROOF
<1>1. (result[n] # NoResult => result[n].at \in Nat)
      /\ (disk.result[n] # NoResult => disk.result[n].at \in Nat)
  BY TypesAt DEF Result
<1>2. (disk.node[n] # NoNode => disk.node[n].successAt \in Nat)
      /\ node[n].successAt \in Nat
  BY TypesAt DEF Node
<1>3. history[n] # NoRun =>
        /\ history[n].capturedAt \in Nat
        /\ history[n].measuredAt \in Nat
        /\ history[n].completedAt \in Nat
  BY TypesAt DEF Run
<1>. QED
  BY <1>1, <1>2, <1>3

LEMMA CheckTyped ==
  ASSUME Typed, NEW g \in Recorders, NEW n \in Nodes, NEW o \in Outcomes[n],
         Check(g, n, o)
  PROVE  Typed'
PROOF
<1>. USE DiagnosisAssumption
<1>. DEFINE r == [online |-> o.online, symptom |-> o.symptom,
                  at |-> clock + 1, rev |-> rev[n]]
            h == [phase |-> "stored", node |-> n]
<1>1. /\ clock' \in 3..MaxClock + 2 * MaxRestarts
      /\ clock' <= MaxClock + 2 * restarts'
      /\ clock + 1 \in Nat
  BY TickIsTyped DEF Check
<1>2. r \in Result
  <2>1. o \in Outcome
    OBVIOUS
  <2>2. o.online \in BOOLEAN /\ o.symptom \in Symptoms \cup {NoSymptom}
    BY <2>1 DEF Outcome
  <2>3. rev[n] \in Revs
    BY DEF Check, Typed, TypeOK
  <2>. QED
    BY <1>1, <2>2, <2>3 DEF Result
<1>3. h \in Hand
  BY DEF Hand
<1>4. h.phase = "stored" /\ h.node = n
  OBVIOUS
<1>5. result' = [result EXCEPT ![n] = r] /\ hand' = [hand EXCEPT ![g] = h]
  BY DEF Check
<1>. HIDE DEF r, h
<1>6. r # NoResult
  BY <1>2
<1>7. result' \in [Nodes -> Result \cup {NoResult}]
  BY <1>2, <1>5 DEF Typed, TypeOK
<1>8. hand' \in [Recorders -> Hand]
  BY <1>3, <1>5 DEF Typed, TypeOK
<1>9. \A k \in Recorders : hand'[k].phase # "idle" => hand'[k].node \in Nodes
  BY <1>4, <1>5 DEF Typed, TypeOK
<1>10. \A k \in Recorders :
         hand'[k].phase = "stored" => result'[hand'[k].node] # NoResult
  BY <1>4, <1>5, <1>6 DEF Typed, TypeOK
<1>. QED
  BY <1>1, <1>7, <1>8, <1>9, <1>10 DEF Typed, TypeOK, Check

LEMMA HandsTyped ==
  ASSUME Typed, NEW g \in Recorders,
         Record(g) \/ Consider(g) \/ Mark(g) \/ Send(g)
  PROVE  Typed'
PROOF
<1>. USE DiagnosisAssumption
<1>1. Free \in Hand /\ Free.phase = "idle"
  BY DEF Free, Hand
<1>2. ASSUME NEW p \in {"recorded", "wanted", "marked"}
      PROVE  /\ [hand[g] EXCEPT !.phase = p] \in Hand
             /\ [hand[g] EXCEPT !.phase = p].phase = p
             /\ [hand[g] EXCEPT !.phase = p].node = hand[g].node
  BY DEF Typed, TypeOK, Hand
<1>3. ASSUME NEW p \in {"recorded", "wanted", "marked"},
             hand[g].phase # "idle", UNCHANGED result,
             \/ hand' = [hand EXCEPT ![g] = [@ EXCEPT !.phase = p]]
             \/ hand' = [hand EXCEPT ![g] = Free]
      PROVE  /\ hand' \in [Recorders -> Hand]
             /\ \A k \in Recorders :
                  hand'[k].phase # "idle" => hand'[k].node \in Nodes
             /\ \A k \in Recorders :
                  hand'[k].phase = "stored" =>
                    result'[hand'[k].node] # NoResult
  <2>. DEFINE h == [hand[g] EXCEPT !.phase = p]
  <2>1. hand' = [hand EXCEPT ![g] = h] \/ hand' = [hand EXCEPT ![g] = Free]
    BY <1>3
  <2>2. h \in Hand /\ h.phase = p /\ h.node = hand[g].node
    BY <1>2
  <2>. HIDE DEF h
  <2>3. hand \in [Recorders -> Hand]
    BY DEF Typed, TypeOK
  <2>4. hand' \in [Recorders -> Hand]
    BY <1>1, <2>1, <2>2, <2>3
  <2>5. \A k \in Recorders : k # g => hand'[k] = hand[k]
    BY <2>1, <2>3
  <2>6. hand'[g] = h \/ hand'[g] = Free
    BY <2>1, <2>3
  <2>. QED
    BY <1>1, <1>3, <2>2, <2>4, <2>5, <2>6 DEF Typed
<1>4. CASE Record(g)
  <2>. DEFINE n == hand[g].node
  <2>1. n \in Nodes /\ result[n] \in Result /\ node[n] \in Node
    BY <1>4 DEF Record, Typed, TypeOK
  <2>2. Count(node[n], result[n]) \in Node
    BY <2>1, CountIsNode
  <2>3. node' \in [Nodes -> Node]
    BY <1>4, <2>2 DEF Record, Typed, TypeOK
  <2>4. /\ hand[g].phase # "idle" /\ UNCHANGED result
        /\ \/ hand' = [hand EXCEPT ![g] = [@ EXCEPT !.phase = "recorded"]]
           \/ hand' = [hand EXCEPT ![g] = Free]
    BY <1>4 DEF Record
  <2>5. /\ hand' \in [Recorders -> Hand]
        /\ \A k \in Recorders :
             hand'[k].phase # "idle" => hand'[k].node \in Nodes
        /\ \A k \in Recorders :
             hand'[k].phase = "stored" => result'[hand'[k].node] # NoResult
    BY <1>3, <2>4
  <2>. QED
    BY <1>4, <2>3, <2>5 DEF Record, Typed, TypeOK
<1>5. CASE Consider(g)
  <2>1. /\ hand[g].phase # "idle" /\ UNCHANGED result
        /\ \/ hand' = [hand EXCEPT ![g] = [@ EXCEPT !.phase = "wanted"]]
           \/ hand' = [hand EXCEPT ![g] = Free]
    BY <1>5 DEF Consider
  <2>2. /\ hand' \in [Recorders -> Hand]
        /\ \A k \in Recorders :
             hand'[k].phase # "idle" => hand'[k].node \in Nodes
        /\ \A k \in Recorders :
             hand'[k].phase = "stored" => result'[hand'[k].node] # NoResult
    BY <1>3, <2>1
  <2>. QED
    BY <1>5, <2>2 DEF Consider, Typed, TypeOK
<1>6. CASE Mark(g)
  <2>1. /\ hand[g].phase # "idle" /\ UNCHANGED result
        /\ \/ hand' = [hand EXCEPT ![g] = [@ EXCEPT !.phase = "marked"]]
           \/ hand' = [hand EXCEPT ![g] = Free]
    BY <1>6 DEF Mark
  <2>2. /\ hand' \in [Recorders -> Hand]
        /\ \A k \in Recorders :
             hand'[k].phase # "idle" => hand'[k].node \in Nodes
        /\ \A k \in Recorders :
             hand'[k].phase = "stored" => result'[hand'[k].node] # NoResult
    BY <1>3, <2>1
  <2>3. hand[g].node \in Nodes
    BY <2>1 DEF Typed
  <2>4. marked' \subseteq Nodes
    BY <1>6, <2>3 DEF Mark, Typed, TypeOK
  <2>. QED
    BY <1>6, <2>2, <2>4 DEF Mark, Typed, TypeOK
<1>7. CASE Send(g)
  <2>1. /\ hand[g].phase # "idle" /\ UNCHANGED result
        /\ hand' = [hand EXCEPT ![g] = Free]
    BY <1>7 DEF Send
  <2>2. /\ hand' \in [Recorders -> Hand]
        /\ \A k \in Recorders :
             hand'[k].phase # "idle" => hand'[k].node \in Nodes
        /\ \A k \in Recorders :
             hand'[k].phase = "stored" => result'[hand'[k].node] # NoResult
    BY <1>3, <2>1
  <2>3. hand[g].node \in Nodes
    BY <2>1 DEF Typed
  <2>4. queue' \in Seq(Nodes) /\ Len(queue') <= QueueSize
    <3>1. queue \in Seq(Nodes) /\ Len(queue) \in Nat /\ Len(queue) <= QueueSize
      BY DEF Typed, TypeOK
    <3>2. CASE Len(queue) < QueueSize
      <4>1. queue' = Append(queue, hand[g].node)
        BY <1>7, <3>2 DEF Send
      <4>. QED
        BY <2>3, <3>1, <3>2, <4>1
    <3>3. CASE ~(Len(queue) < QueueSize)
      BY <1>7, <3>1, <3>3 DEF Send
    <3>. QED
      BY <3>2, <3>3
  <2>5. marked' \subseteq Nodes
    BY <1>7 DEF Send, Typed, TypeOK
  <2>. QED
    BY <1>7, <2>2, <2>4, <2>5 DEF Send, Typed, TypeOK
<1>. QED
  BY <1>4, <1>5, <1>6, <1>7

LEMMA BeginTyped ==
  ASSUME Typed, NEW n \in Nodes, NEW automatic \in BOOLEAN,
         Begin(n, automatic)
  PROVE  /\ history' \in [Nodes -> Run \cup {NoRun}]
         /\ exec' \in Exec
         /\ exec'.node = n
         /\ history'[n] # NoRun
PROOF
<1>. USE DiagnosisAssumption
<1>. DEFINE e == [phase |-> "begun", node |-> n, automatic |-> automatic,
                  measuredAt |-> 0]
<1>1. NewRun(n) \in Run
  <2>1. rev[n] \in Revs \cup {Absent} /\ 0 \in Nat /\ -1 \in Int
    BY DEF Typed, TypeOK
  <2>2. NoSymptom \in Symptoms \cup {NoSymptom} /\ FALSE \in BOOLEAN
    OBVIOUS
  <2>. QED
    BY <2>1, <2>2 DEF NewRun, Run
<1>2. e \in Exec
  <2>1. 0 \in 0..MaxClock
    OBVIOUS
  <2>. QED
    BY <2>1 DEF Exec
<1>3. e.node = n
  OBVIOUS
<1>4. exec' = e /\ history' = [history EXCEPT ![n] = NewRun(n)]
  BY DEF Begin
<1>. HIDE DEF e
<1>. QED
  BY <1>1, <1>2, <1>3, <1>4 DEF Typed, TypeOK

LEMMA WorkerTyped ==
  ASSUME Typed,
         \/ \E n \in Nodes : StartManual(n)
         \/ Receive \/ Decide \/ Retry \/ Skip \/ BeginAutomatic
         \/ FinishQueued
  PROVE  Typed'
PROOF
<1>. USE DiagnosisAssumption
<1>1. ASSUME NEW n \in Nodes, StartManual(n) PROVE Typed'
  <2>1. /\ clock' \in 3..MaxClock + 2 * MaxRestarts
        /\ clock' <= MaxClock + 2 * restarts'
    BY <1>1, TickIsTyped DEF StartManual
  <2>2. /\ history' \in [Nodes -> Run \cup {NoRun}] /\ exec' \in Exec
        /\ exec'.node = n /\ history'[n] # NoRun
    BY <1>1, BeginTyped DEF StartManual
  <2>. QED
    BY <1>1, <2>1, <2>2 DEF StartManual, Typed, TypeOK
<1>2. Free \in Worker /\ Free.phase = "idle"
  BY DEF Free, Worker
<1>3. ASSUME NEW p \in {"deciding", "starting", "begun", "running"}
      PROVE  /\ [worker EXCEPT !.phase = p] \in Worker
             /\ [worker EXCEPT !.phase = p].node = worker.node
  BY DEF Typed, TypeOK, Worker
<1>4. CASE Receive
  <2>1. queue \in Seq(Nodes) /\ queue # <<>> /\ Len(queue) <= QueueSize
    BY <1>4 DEF Receive, Typed, TypeOK
  <2>2. /\ Head(queue) \in Nodes /\ Tail(queue) \in Seq(Nodes)
        /\ Len(Tail(queue)) <= QueueSize
    BY <2>1
  <2>3. [phase |-> "deciding", node |-> Head(queue)] \in Worker
    BY <2>2 DEF Worker
  <2>4. worker' \in Worker /\ worker'.node \in Nodes
    BY <1>4, <2>2, <2>3 DEF Receive
  <2>5. queue' = Tail(queue)
    BY <1>4 DEF Receive
  <2>. QED
    BY <1>4, <2>2, <2>4, <2>5 DEF Receive, Typed, TypeOK
<1>5. CASE Decide
  <2>1. /\ worker' \in Worker
        /\ (worker'.phase # "idle" => worker'.node \in Nodes)
    BY <1>2, <1>3, <1>5 DEF Decide, Typed, TypeOK
  <2>2. marked' \subseteq Nodes
    BY <1>5 DEF Decide, Typed, TypeOK
  <2>. QED
    BY <1>5, <2>1, <2>2 DEF Decide, Typed, TypeOK
<1>6. CASE Retry
  <2>1. /\ worker' \in Worker
        /\ (worker'.phase # "idle" => worker'.node \in Nodes)
    BY <1>3, <1>6 DEF Retry, Typed, TypeOK
  <2>. QED
    BY <1>6, <2>1 DEF Retry, Typed, TypeOK
<1>7. CASE Skip
  <2>1. /\ worker' \in Worker
        /\ (worker'.phase # "idle" => worker'.node \in Nodes)
    BY <1>2, <1>7 DEF Skip, Typed, TypeOK
  <2>2. marked' \subseteq Nodes
    BY <1>7 DEF Skip, Typed, TypeOK
  <2>. QED
    BY <1>7, <2>1, <2>2 DEF Skip, Typed, TypeOK
<1>8. CASE BeginAutomatic
  <2>1. /\ worker' \in Worker
        /\ (worker'.phase # "idle" => worker'.node \in Nodes)
    BY <1>3, <1>8 DEF BeginAutomatic, Typed, TypeOK
  <2>2. worker.node \in Nodes /\ Begin(worker.node, TRUE) /\ TRUE \in BOOLEAN
    BY <1>8 DEF BeginAutomatic, Typed
  <2>3. /\ history' \in [Nodes -> Run \cup {NoRun}] /\ exec' \in Exec
        /\ exec'.node = worker.node /\ history'[worker.node] # NoRun
    BY <2>2, BeginTyped
  <2>. QED
    BY <1>8, <2>1, <2>2, <2>3 DEF BeginAutomatic, Typed, TypeOK
<1>9. CASE FinishQueued
  <2>1. /\ worker' \in Worker
        /\ (worker'.phase # "idle" => worker'.node \in Nodes)
    BY <1>3, <1>9 DEF FinishQueued, Typed, TypeOK
  <2>2. marked' \subseteq Nodes
    BY <1>9 DEF FinishQueued, Typed, TypeOK
  <2>. QED
    BY <1>9, <2>1, <2>2 DEF FinishQueued, Typed, TypeOK
<1>. QED
  BY <1>1, <1>4, <1>5, <1>6, <1>7, <1>8, <1>9

(* One step of the run being executed.                                     *)
LEMMA ExecTyped ==
  ASSUME Typed, NEW p \in {"running", "completed"}, NEW run \in Run,
         exec.phase # "idle",
         history' = [history EXCEPT ![exec.node] = run],
         exec' = [exec EXCEPT !.phase = p]
  PROVE  /\ history' \in [Nodes -> Run \cup {NoRun}]
         /\ exec' \in Exec
         /\ exec'.node = exec.node
         /\ exec'.node \in Nodes /\ history'[exec'.node] # NoRun
PROOF
<1>1. exec' \in Exec /\ exec'.node = exec.node
  <2>1. exec \in Exec /\ p \in {"idle", "begun", "running", "completed"}
    BY DEF Typed, TypeOK
  <2>. QED
    BY <2>1 DEF Exec
<1>2. exec.node \in Nodes
  BY DEF Typed
<1>3. run # NoRun
  BY DiagnosisAssumption
<1>. QED
  BY <1>1, <1>2, <1>3 DEF Typed, TypeOK

LEMMA RunTyped ==
  ASSUME Typed, EnterRuntime \/ MeasureTunnel \/ Complete
  PROVE  Typed'
PROOF
<1>. USE DiagnosisAssumption
<1>. DEFINE n == exec.node
<1>1. exec.phase # "idle" /\ n \in Nodes /\ history[n] \in Run
  <2>1. exec.phase # "idle"
    BY DEF EnterRuntime, MeasureTunnel, Complete
  <2>. QED
    BY <2>1 DEF Typed, TypeOK
<1>2. clock \in Nat /\ Now \in Nat
  BY NowIsNat
<1>3. CASE EnterRuntime
  <2>1. \E run \in Run, p \in {"running", "completed"} :
          /\ history' = [history EXCEPT ![n] = run]
          /\ exec' = [exec EXCEPT !.phase = p]
    <3>1. CASE rev[n] = Absent
      <4>1. Completed(history[n], "inconclusive") \in Run
        BY <1>1, <1>2, CompletedIsRun DEF Completed
      <4>. QED
        BY <1>3, <3>1, <4>1 DEF EnterRuntime, Replace
    <3>2. CASE rev[n] # Absent
      <4>. DEFINE run == [history[n] EXCEPT
                 !.state = "running", !.rev = rev[n],
                 !.episode = node[n].episode, !.symptom = node[n].symptom,
                 !.capturedAt = clock]
      <4>1. /\ rev[n] \in Revs \cup {Absent}
            /\ node[n].episode \in Int
            /\ node[n].symptom \in Symptoms \cup {NoSymptom}
            /\ "running" \in {"queued", "running", "completed"}
        BY <1>1 DEF Typed, TypeOK, Node
      <4>2. run \in Run
        BY <1>1, <1>2, <4>1, ZenonT(60) DEF Run
      <4>3. /\ history' = [history EXCEPT ![n] = run]
            /\ exec' = [exec EXCEPT !.phase = "running"]
        BY <1>3, <3>2 DEF EnterRuntime, Replace
      <4>. HIDE DEF run
      <4>. QED
        BY <4>2, <4>3
    <3>. QED
      BY <3>1, <3>2
  <2>2. /\ history' \in [Nodes -> Run \cup {NoRun}] /\ exec' \in Exec
        /\ exec'.node \in Nodes /\ history'[exec'.node] # NoRun
    BY <1>1, <2>1, ExecTyped
  <2>. QED
    BY <1>3, <2>2 DEF EnterRuntime, Typed, TypeOK
<1>4. CASE MeasureTunnel
  <2>1. /\ clock' \in 3..MaxClock + 2 * MaxRestarts
        /\ clock' <= MaxClock + 2 * restarts'
        /\ clock + 1 \in 0..MaxClock
    BY <1>4, TickIsTyped DEF MeasureTunnel
  <2>2. exec' \in Exec /\ exec'.node = exec.node
    BY <1>4, <2>1 DEF MeasureTunnel, Typed, TypeOK, Exec
  <2>. QED
    BY <1>1, <1>4, <2>1, <2>2 DEF MeasureTunnel, Typed, TypeOK
<1>5. CASE Complete
  <2>1. exec.measuredAt \in Nat
    BY DEF Typed, TypeOK, Exec
  <2>. DEFINE run == [history[n] EXCEPT !.measuredAt = exec.measuredAt]
  <2>2. run \in Run
    BY <1>1, <2>1, ZenonT(60) DEF Run
  <2>3. PICK v \in {"works", "failed", "inconclusive"} :
          history' = [history EXCEPT ![n] = Completed(run, v)]
    BY <1>5 DEF Complete, Replace
  <2>4. exec' = [exec EXCEPT !.phase = "completed"]
    BY <1>5 DEF Complete
  <2>. HIDE DEF run
  <2>5. Completed(run, v) \in Run
    BY <1>2, <2>2, CompletedIsRun DEF Completed
  <2>6. /\ history' \in [Nodes -> Run \cup {NoRun}] /\ exec' \in Exec
        /\ exec'.node \in Nodes /\ history'[exec'.node] # NoRun
    BY <1>1, <2>3, <2>4, <2>5, ExecTyped
  <2>. QED
    BY <1>5, <2>6 DEF Complete, Typed, TypeOK
<1>. QED
  BY <1>3, <1>4, <1>5

LEMMA FinishTyped == Typed /\ Finish => Typed'
PROOF
<1>. SUFFICES ASSUME Typed, Finish PROVE Typed'
  OBVIOUS
<1>. USE DiagnosisAssumption
<1>. DEFINE n == exec.node
            run == history[n]
<1>1. n \in Nodes /\ run \in Run /\ rev[n] \in Revs \cup {Absent}
  <2>1. exec.phase # "idle"
    BY DEF Finish
  <2>. QED
    BY <2>1 DEF Typed, TypeOK
<1>2. /\ result' \in [Nodes -> Result \cup {NoResult}]
      /\ node' \in [Nodes -> Node]
      /\ \A m \in Nodes : result[m] # NoResult => result'[m] # NoResult
  <2>1. CASE Proves(run, rev[n], result[n])
    <3>1. Evidence(run) \in Result
      BY <1>1, <2>1, EvidenceIsResult
    <3>2. CountNews(node[n], Evidence(run)) \in Node
      BY <1>1, <3>1, CountNewsIsNode DEF Typed, TypeOK
    <3>3. /\ result' = [result EXCEPT ![n] = Evidence(run)]
          /\ node' = [node EXCEPT ![n] = CountNews(@, Evidence(run))]
      BY <2>1 DEF Finish
    <3>. QED
      BY <1>1, <3>1, <3>2, <3>3 DEF Typed, TypeOK
  <2>2. CASE ~Proves(run, rev[n], result[n])
    BY <2>2 DEF Finish, Typed, TypeOK
  <2>. QED
    BY <2>1, <2>2
<1>3. exec' \in Exec /\ exec'.phase = "idle"
  <2>1. 0 \in 0..MaxClock
    OBVIOUS
  <2>. QED
    BY <2>1 DEF Finish, Exec, Idle
<1>4. worker' \in Worker /\ (worker'.phase # "idle" => worker'.node \in Nodes)
  <2>1. Free \in Worker /\ Free.phase = "idle"
    BY DEF Free, Worker
  <2>. QED
    BY <2>1 DEF Finish, Typed, TypeOK
<1>5. UNCHANGED <<clock, rev, history, queue, marked, hand, disk, restarts>>
  BY DEF Finish
<1>6. \A g \in Recorders :
        hand[g].phase = "stored" => hand[g].node \in Nodes
  BY DEF Typed
<1>. QED
  BY <1>2, <1>3, <1>4, <1>5, <1>6 DEF Typed, TypeOK

LEMMA AroundTyped ==
  ASSUME Typed,
         \/ \E n \in Nodes : DropOutcome(n) \/ Expire(n) \/ DNSMoved(n)
         \/ \E n \in Nodes, r \in Revs \cup {Absent} : Reload(n, r)
         \/ SaveResults \/ SaveMonitor
  PROVE  Typed'
PROOF
<1>. USE DiagnosisAssumption
<1>1. ASSUME NEW n \in Nodes, DropOutcome(n) PROVE Typed'
  BY <1>1 DEF DropOutcome, vars, Typed, TypeOK
<1>2. ASSUME NEW n \in Nodes, Expire(n) PROVE Typed'
  <2>. DEFINE run == [history[n] EXCEPT !.aged = TRUE]
  <2>1. history[n] \in Run
    BY <1>2 DEF Expire, Typed, TypeOK
  <2>2. run \in Run
    BY <2>1, ZenonT(60) DEF Run
  <2>3. history' = [history EXCEPT ![n] = run]
    BY <1>2 DEF Expire
  <2>. HIDE DEF run
  <2>4. history' \in [Nodes -> Run \cup {NoRun}]
    BY <2>2, <2>3 DEF Typed, TypeOK
  <2>5. \A m \in Nodes : history[m] # NoRun => history'[m] # NoRun
    BY <2>2, <2>3 DEF Typed, TypeOK
  <2>. QED
    BY <1>2, <2>4, <2>5 DEF Expire, Typed, TypeOK
<1>3. ASSUME NEW n \in Nodes, DNSMoved(n) PROVE Typed'
  <2>1. [node[n] EXCEPT !.failures = 0] \in Node
    <3>1. node[n] \in Node /\ 0 \in 0..2
      BY DEF Typed, TypeOK
    <3>. QED
      BY <3>1, ZenonT(60) DEF Node
  <2>2. node' \in [Nodes -> Node]
    BY <1>3, <2>1 DEF DNSMoved, Typed, TypeOK
  <2>. QED
    BY <1>3, <2>2 DEF DNSMoved, Typed, TypeOK
<1>4. ASSUME NEW n \in Nodes, NEW r \in Revs \cup {Absent}, Reload(n, r)
      PROVE  Typed'
  <2>1. /\ clock' \in 3..MaxClock + 2 * MaxRestarts
        /\ clock' <= MaxClock + 2 * restarts'
    BY <1>4, TickIsTyped DEF Reload
  <2>2. Reloaded(node[n], r) \in Node
    BY ReloadedIsNode DEF Typed, TypeOK
  <2>3. node' \in [Nodes -> Node]
    BY <1>4, <2>2 DEF Reload, Typed, TypeOK
  <2>4. /\ rev' \in [Nodes -> Revs \cup {Absent}]
        /\ result' \in [Nodes -> Result \cup {NoResult}]
    BY <1>4 DEF Reload, Typed, TypeOK
  <2>5. \A g \in Recorders : hand'[g].phase = "idle"
    BY <1>4 DEF Reload
  <2>. QED
    BY <1>4, <2>1, <2>3, <2>4, <2>5 DEF Reload, Typed, TypeOK
<1>5. CASE SaveResults
  <2>1. \A n \in Nodes : Saved(result[n]) \in Result \cup {NoResult}
    BY SavedIsResult DEF Typed, TypeOK
  <2>2. disk' = [disk EXCEPT !.result = [n \in Nodes |-> Saved(result[n])]]
    BY <1>5 DEF SaveResults
  <2>3. disk' \in [result : [Nodes -> Result \cup {NoResult}],
                   node : [Nodes -> Node \cup {NoNode}]]
    BY <2>1, <2>2 DEF Typed, TypeOK
  <2>. QED
    BY <1>5, <2>3 DEF SaveResults, Typed, TypeOK
<1>6. CASE SaveMonitor
  <2>1. disk' \in [result : [Nodes -> Result \cup {NoResult}],
                   node : [Nodes -> Node \cup {NoNode}]]
    BY <1>6 DEF SaveMonitor, Typed, TypeOK
  <2>. QED
    BY <1>6, <2>1 DEF SaveMonitor, Typed, TypeOK
<1>. QED
  BY <1>1, <1>2, <1>3, <1>4, <1>5, <1>6

(* What the restart reads back.                                            *)
LEMMA RestoredTyped ==
  ASSUME Typed, NEW n \in Nodes, NEW second \in Nat
  PROVE  /\ RestoredResult(n) \in Result \cup {NoResult}
         /\ RestoredRun(n, second) \in Run \cup {NoRun}
         /\ RestoredNode(n, second) \in Node
PROOF
<1>. USE DiagnosisAssumption
<1>1. /\ disk.result[n] \in Result \cup {NoResult}
      /\ disk.node[n] \in Node \cup {NoNode}
      /\ rev[n] \in Revs \cup {Absent}
      /\ node[n] \in Node
      /\ history[n] \in Run \cup {NoRun}
  BY DEF Typed, TypeOK
<1>2. RestoredResult(n) \in Result \cup {NoResult}
  BY <1>1 DEF RestoredResult
<1>3. RestoredRun(n, second) \in Run \cup {NoRun}
  <2>1. CASE history[n] # NoRun /\ history[n].state # "completed"
    BY <1>1, <2>1, CompletedIsRun DEF RestoredRun
  <2>2. CASE ~(history[n] # NoRun /\ history[n].state # "completed")
    BY <1>1, <2>2 DEF RestoredRun
  <2>. QED
    BY <2>1, <2>2
<1>4. RestoredNode(n, second) \in Node
  <2>1. CASE disk.node[n] = NoNode
    <3>. DEFINE r == IF rev[n] = Absent THEN node[n].rev ELSE rev[n]
                fresh == NewNode(r, 2 * second)
    <3>1. r \in Revs /\ 2 * second \in Nat
      BY <1>1 DEF Node
    <3>2. fresh \in Node
      BY <3>1, NewNodeIsNode
    <3>3. RestoredNode(n, second) = IF RestoredResult(n) = NoResult THEN fresh
                                    ELSE Count(fresh, RestoredResult(n))
      BY <2>1 DEF RestoredNode
    <3>. HIDE DEF fresh, r
    <3>. QED
      BY <1>2, <3>2, <3>3, CountIsNode
  <2>2. CASE disk.node[n] # NoNode
    BY <1>1, <2>2, ReloadedIsNode DEF RestoredNode
  <2>. QED
    BY <2>1, <2>2
<1>. QED
  BY <1>2, <1>3, <1>4

LEMMA RestoredRunKeeps ==
  ASSUME Typed, NEW n \in Nodes, NEW second \in Nat,
         history[n] # NoRun
  PROVE  /\ RestoredRun(n, second) # NoRun
         /\ RestoredRun(n, second).rev = history[n].rev
         /\ RestoredRun(n, second).measuredAt = history[n].measuredAt
         /\ RestoredRun(n, second).state = "completed"
         /\ history[n].state = "completed" =>
              RestoredRun(n, second) = history[n]
         /\ history[n].state # "completed" =>
              /\ RestoredRun(n, second).verdict = "inconclusive"
              /\ RestoredRun(n, second).completedAt = second
PROOF
<1>1. history[n] \in Run
  BY DEF Typed, TypeOK
<1>2. CASE history[n].state = "completed"
  BY <1>2 DEF RestoredRun
<1>3. CASE history[n].state # "completed"
  <2>1. RestoredRun(n, second) =
          [history[n] EXCEPT !.state = "completed",
             !.verdict = "inconclusive", !.completedAt = second]
    BY <1>3 DEF RestoredRun
  <2>2. RestoredRun(n, second) \in Run
    BY RestoredTyped, <2>1, <1>1, CompletedIsRun
  <2>3. RestoredRun(n, second) # NoRun
    BY <2>2, DiagnosisAssumption
  <2>. QED
    BY <1>1, <1>3, <2>1, <2>3 DEF Run
<1>. QED
  BY <1>2, <1>3

LEMMA RestartTyped == Typed /\ Restart => Typed'
PROOF
<1>. SUFFICES ASSUME Typed, Restart PROVE Typed'
  OBVIOUS
<1>. USE DiagnosisAssumption
<1>. DEFINE second == Now + 1
            Repaired(n) == /\ RestoredRun(n, second) # NoRun
                           /\ Proves(RestoredRun(n, second), rev[n],
                                     RestoredResult(n))
<1>1. /\ clock \in Nat /\ Now \in Nat /\ second \in Nat
      /\ 2 * second > clock /\ 2 * second <= clock + 2
  <2>1. clock \in Nat /\ Now \in Nat
    BY NowIsNat
  <2>2. 2 * Now <= clock /\ clock <= 2 * Now + 1
    BY <2>1, SecIsNat DEF Now
  <2>. QED
    BY <2>1, <2>2
<1>2. /\ clock' \in 3..MaxClock + 2 * MaxRestarts
      /\ clock' <= MaxClock + 2 * restarts'
      /\ restarts' \in 0..MaxRestarts
  <2>1. /\ restarts \in 0..MaxRestarts /\ restarts < MaxRestarts
        /\ restarts' = restarts + 1 /\ clock' = 2 * second
        /\ clock <= MaxClock + 2 * restarts /\ clock >= 3
    BY DEF Restart, Typed, TypeOK
  <2>. HIDE DEF second
  <2>. QED
    BY <1>1, <2>1
<1>3. ASSUME NEW n \in Nodes
      PROVE  /\ RestoredResult(n) \in Result \cup {NoResult}
             /\ RestoredRun(n, second) \in Run \cup {NoRun}
             /\ RestoredNode(n, second) \in Node
  BY <1>1, RestoredTyped
<1>4. ASSUME NEW n \in Nodes, Repaired(n)
      PROVE  Evidence(history[n]) \in Result
  <2>1. history[n] # NoRun
    BY <1>4 DEF RestoredRun
  <2>2. RestoredRun(n, second) \in Run /\ rev[n] \in Revs \cup {Absent}
    BY <1>3, <1>4 DEF Typed, TypeOK
  <2>3. Evidence(RestoredRun(n, second)) \in Result
    BY <1>4, <2>2, EvidenceIsResult
  <2>4. Evidence(RestoredRun(n, second)) = Evidence(history[n])
    BY <1>1, <2>1, RestoredRunKeeps DEF Evidence
  <2>. QED
    BY <2>3, <2>4
<1>5. /\ history' = [n \in Nodes |-> RestoredRun(n, second)]
      /\ result' = [n \in Nodes |-> IF Repaired(n) THEN Evidence(history[n])
                                    ELSE RestoredResult(n)]
      /\ node' = [n \in Nodes |->
           IF Repaired(n)
           THEN CountNews(RestoredNode(n, second), Evidence(history[n]))
           ELSE RestoredNode(n, second)]
  BY DEF Restart
<1>6. \A n \in Nodes : Repaired(n) =>
        CountNews(RestoredNode(n, second), Evidence(history[n])) \in Node
  BY <1>3, <1>4, CountNewsIsNode
<1>. HIDE DEF Repaired, second
<1>7. history' \in [Nodes -> Run \cup {NoRun}]
  BY <1>3, <1>5
<1>8. result' \in [Nodes -> Result \cup {NoResult}]
  BY <1>3, <1>4, <1>5
<1>9. node' \in [Nodes -> Node]
  BY <1>3, <1>5, <1>6
<1>10. /\ hand' \in [Recorders -> Hand]
       /\ \A g \in Recorders : hand'[g].phase = "idle"
  BY DEF Restart, Hand, Free
<1>11. worker' \in Worker /\ worker'.phase = "idle"
  BY DEF Restart, Worker, Free
<1>12. exec' \in Exec /\ exec'.phase = "idle"
  <2>1. 0 \in 0..MaxClock
    OBVIOUS
  <2>. QED
    BY <2>1 DEF Restart, Exec, Idle
<1>13. /\ queue' \in Seq(Nodes) /\ Len(queue') <= QueueSize
       /\ marked' \subseteq Nodes
  BY DEF Restart
<1>14. UNCHANGED <<rev, disk>>
  BY DEF Restart
<1>. QED
  BY <1>2, <1>7, <1>8, <1>9, <1>10, <1>11, <1>12, <1>13, <1>14
     DEF Typed, TypeOK

LEMMA NextTyped == Typed /\ [Next]_vars => Typed'
PROOF
<1>. SUFFICES ASSUME Typed, [Next]_vars PROVE Typed'
  OBVIOUS
<1>1. CASE UNCHANGED vars
  BY <1>1 DEF vars, Typed, TypeOK
<1>2. ASSUME NEW g \in Recorders, NEW n \in Nodes, NEW o \in Outcomes[n],
             Check(g, n, o)
      PROVE  Typed'
  BY <1>2, CheckTyped
<1>3. ASSUME NEW g \in Recorders,
             Record(g) \/ Consider(g) \/ Mark(g) \/ Send(g)
      PROVE  Typed'
  BY <1>3, HandsTyped
<1>. QED
  BY <1>1, <1>2, <1>3, WorkerTyped, RunTyped, FinishTyped, AroundTyped,
     RestartTyped, Zenon DEF Next

-----------------------------------------------------------------------------
(* The run being executed, its report and the worker that waits for it.    *)

Running ==
  /\ exec.automatic <=> worker.phase \in {"begun", "running"}
  /\ exec.automatic => exec.phase # "idle"
  /\ exec.automatic /\ exec.phase # "begun" => worker.phase = "running"
  /\ UnfinishedIsRunning
  /\ exec.phase \in {"begun", "running"} =>
       /\ history[exec.node].state # "completed"
       /\ history[exec.node].measuredAt = 0
  /\ exec.phase = "running" => history[exec.node].state = "running"
  /\ exec.phase = "begun" => exec.measuredAt = 0
  /\ exec.phase = "completed" =>
       history[exec.node].measuredAt = exec.measuredAt
  /\ \A n \in Nodes :
       /\ history[n] # NoRun
       /\ history[n].state = "completed"
       /\ history[n].verdict = "failed"
       => history[n].measuredAt = 0

LEMMA InitRunning == Init => Running
PROOF
  BY DEF Init, Running, UnfinishedIsRunning, Idle, Free

LEMMA BeginRunning ==
  ASSUME Typed, Running, NEW n \in Nodes, NEW automatic \in BOOLEAN,
         exec.phase = "idle", Begin(n, automatic)
  PROVE  /\ exec'.automatic = automatic
         /\ exec'.phase = "begun" /\ exec'.measuredAt = 0 /\ exec'.node = n
         /\ history'[n].state = "queued" /\ history'[n].measuredAt = 0
         /\ \A m \in Nodes : m # n => history'[m] = history[m]
         /\ \A m \in Nodes :
              m # n /\ history[m] # NoRun => history[m].state = "completed"
PROOF
<1>1. exec' = [phase |-> "begun", node |-> n, automatic |-> automatic,
               measuredAt |-> 0]
  BY DEF Begin
<1>2. history' = [history EXCEPT ![n] = NewRun(n)]
  BY DEF Begin
<1>3. NewRun(n).state = "queued" /\ NewRun(n).measuredAt = 0
  BY DEF NewRun
<1>4. history \in [Nodes -> Run \cup {NoRun}]
  BY DEF Typed, TypeOK
<1>5. \A m \in Nodes : history[m] # NoRun => history[m].state = "completed"
  BY DEF Running, UnfinishedIsRunning
<1>. QED
  BY <1>1, <1>2, <1>3, <1>4, <1>5

LEMMA StartRunning ==
  ASSUME Typed, Running,
         (\E n \in Nodes : StartManual(n)) \/ BeginAutomatic
  PROVE  Running'
PROOF
<1>1. exec.phase = "idle" /\ exec.automatic = FALSE
  BY DEF Running, StartManual, BeginAutomatic, Typed, TypeOK, Exec
<1>2. ASSUME NEW n \in Nodes, StartManual(n) PROVE Running'
  <2>1. FALSE \in BOOLEAN /\ Begin(n, FALSE) /\ UNCHANGED worker
    BY <1>2 DEF StartManual
  <2>2. /\ exec'.automatic = FALSE
        /\ exec'.phase = "begun" /\ exec'.measuredAt = 0 /\ exec'.node = n
        /\ history'[n].state = "queued" /\ history'[n].measuredAt = 0
        /\ \A m \in Nodes : m # n => history'[m] = history[m]
        /\ \A m \in Nodes :
             m # n /\ history[m] # NoRun => history[m].state = "completed"
    BY <1>1, <2>1, BeginRunning
  <2>. QED
    BY <1>1, <2>1, <2>2 DEF Running, UnfinishedIsRunning
<1>3. CASE BeginAutomatic
  <2>1. /\ TRUE \in BOOLEAN /\ Begin(worker.node, TRUE)
        /\ worker.node \in Nodes /\ worker' = [worker EXCEPT !.phase = "begun"]
    BY <1>3 DEF BeginAutomatic, Typed
  <2>2. worker'.phase = "begun"
    BY <2>1 DEF Typed, TypeOK, Worker
  <2>3. /\ exec'.automatic = TRUE
        /\ exec'.phase = "begun" /\ exec'.measuredAt = 0
        /\ exec'.node = worker.node
        /\ history'[worker.node].state = "queued"
        /\ history'[worker.node].measuredAt = 0
        /\ \A m \in Nodes : m # worker.node => history'[m] = history[m]
        /\ \A m \in Nodes : m # worker.node /\ history[m] # NoRun =>
             history[m].state = "completed"
    BY <1>1, <2>1, BeginRunning
  <2>. QED
    BY <1>1, <2>1, <2>2, <2>3 DEF Running, UnfinishedIsRunning
<1>. QED
  BY <1>2, <1>3

LEMMA EnterRunning ==
  ASSUME Typed, Running, EnterRuntime
  PROVE  Running'
PROOF
<1>. DEFINE n == exec.node
<1>1. /\ n \in Nodes /\ exec.phase = "begun" /\ history[n] \in Run
      /\ exec \in Exec
  BY DEF EnterRuntime, Typed, TypeOK
<1>2. history \in [Nodes -> Run \cup {NoRun}]
  BY DEF Typed, TypeOK
<1>3. exec.automatic => worker.phase = "running"
  BY DEF EnterRuntime
<1>4. PICK p \in {"running", "completed"} : exec' = [exec EXCEPT !.phase = p]
  BY DEF EnterRuntime
<1>5. /\ exec'.phase = p /\ exec'.automatic = exec.automatic
      /\ exec'.node = n /\ exec'.measuredAt = 0
  BY <1>1, <1>4 DEF Exec, Running
<1>6. history[n].measuredAt = 0
  BY <1>1 DEF Running
<1>7. \A m \in Nodes \ {n} :
        /\ history'[m] = history[m]
        /\ history[m] # NoRun => history[m].state = "completed"
  BY <1>1, <1>2 DEF EnterRuntime, Replace, Running, UnfinishedIsRunning
<1>8. /\ history'[n].measuredAt = 0
      /\ p = "running" => history'[n].state = "running"
      /\ p = "completed" => /\ history'[n].state = "completed"
                            /\ history'[n].verdict = "inconclusive"
  <2>1. CASE rev[n] = Absent
    <3>1. history'[n] = Completed(history[n], "inconclusive")
      BY <1>1, <1>2, <2>1 DEF EnterRuntime, Replace
    <3>2. exec'.phase = "completed"
      BY <1>1, <2>1 DEF EnterRuntime, Exec
    <3>3. /\ history'[n].measuredAt = 0
          /\ history'[n].state = "completed"
          /\ history'[n].verdict = "inconclusive"
      BY <1>1, <1>6, <3>1 DEF Completed, Run
    <3>. QED
      BY <1>5, <3>2, <3>3
  <2>2. CASE rev[n] # Absent
    <3>1. history'[n] = [history[n] EXCEPT
                  !.state = "running", !.rev = rev[n],
                  !.episode = node[n].episode, !.symptom = node[n].symptom,
                  !.capturedAt = clock]
      BY <1>1, <1>2, <2>2 DEF EnterRuntime, Replace
    <3>2. exec'.phase = "running"
      BY <1>1, <2>2 DEF EnterRuntime, Exec
    <3>3. history'[n].measuredAt = 0 /\ history'[n].state = "running"
      BY <1>1, <1>6, <3>1 DEF Run
    <3>. QED
      BY <1>5, <3>2, <3>3
  <2>. QED
    BY <2>1, <2>2
<1>9. UNCHANGED worker
  BY DEF EnterRuntime
<1>. QED
  BY <1>1, <1>3, <1>5, <1>7, <1>8, <1>9 DEF Running, UnfinishedIsRunning

LEMMA CompleteRunning ==
  ASSUME Typed, Running, Complete
  PROVE  /\ Running'
         /\ \A m \in Nodes \ {exec.node} : history'[m] = history[m]
         /\ \E v \in {"works", "failed", "inconclusive"} :
              /\ history'[exec.node] =
                   [history[exec.node] EXCEPT !.measuredAt = exec.measuredAt,
                      !.state = "completed", !.verdict = v,
                      !.completedAt = Now]
              /\ v = "failed" => exec.measuredAt = 0
PROOF
<1>. DEFINE n == exec.node
<1>1. /\ n \in Nodes /\ exec.phase = "running" /\ history[n] \in Run
      /\ exec \in Exec
  BY DEF Complete, Typed, TypeOK
<1>2. history \in [Nodes -> Run \cup {NoRun}] /\ exec.measuredAt \in Nat
  BY <1>1 DEF Typed, TypeOK, Exec
<1>3. /\ exec'.phase = "completed" /\ exec'.automatic = exec.automatic
      /\ exec'.node = n /\ exec'.measuredAt = exec.measuredAt
  BY <1>1 DEF Complete, Exec
<1>. DEFINE run == [history[n] EXCEPT !.measuredAt = exec.measuredAt]
<1>4. PICK v \in {"works", "failed", "inconclusive"} :
        /\ history' = [history EXCEPT ![n] = Completed(run, v)]
        /\ v = "failed" => ~(exec.measuredAt > 0)
  BY DEF Complete, Replace
<1>5. Completed(run, v) =
        [history[n] EXCEPT !.measuredAt = exec.measuredAt,
           !.state = "completed", !.verdict = v, !.completedAt = Now]
  BY <1>1 DEF Completed, Run
<1>6. v = "failed" => exec.measuredAt = 0
  BY <1>2, <1>4
<1>7. history'[n] = Completed(run, v)
  BY <1>1, <1>2, <1>4
<1>8. /\ history'[n].state = "completed" /\ history'[n].verdict = v
      /\ history'[n].measuredAt = exec.measuredAt
  <2>1. history'[n] =
          [history[n] EXCEPT !.measuredAt = exec.measuredAt,
             !.state = "completed", !.verdict = v, !.completedAt = Now]
    BY <1>5, <1>7
  <2>. HIDE DEF run, n
  <2>. QED
    BY <1>1, <2>1 DEF Run
<1>9. \A m \in Nodes \ {n} :
        /\ history'[m] = history[m]
        /\ history[m] # NoRun => history[m].state = "completed"
  BY <1>1, <1>2, <1>4 DEF Running, UnfinishedIsRunning
<1>10. UNCHANGED worker
  BY DEF Complete
<1>. HIDE DEF run
<1>11. Running'
  BY <1>1, <1>3, <1>6, <1>8, <1>9, <1>10 DEF Running, UnfinishedIsRunning
<1>. QED
  BY <1>5, <1>6, <1>7, <1>9, <1>11

LEMMA NextRunning == Typed /\ Running /\ [Next]_vars => Running'
PROOF
<1>. SUFFICES ASSUME Typed, Running, [Next]_vars PROVE Running'
  OBVIOUS
<1>1. CASE UNCHANGED <<history, worker, exec>>
  BY <1>1 DEF Running, UnfinishedIsRunning
<1>2. CASE Receive \/ Decide \/ Retry \/ Skip
  <2>1. /\ worker.phase \in {"idle", "deciding", "starting"}
        /\ worker'.phase \in {"idle", "deciding", "starting"}
        /\ UNCHANGED <<history, exec>>
    BY <1>2 DEF Receive, Decide, Retry, Skip, Free, Typed, TypeOK, Worker
  <2>. QED
    BY <2>1 DEF Running, UnfinishedIsRunning
<1>3. CASE FinishQueued
  <2>1. /\ worker.phase = "begun" /\ worker'.phase = "running"
        /\ UNCHANGED <<history, exec>>
    BY <1>3 DEF FinishQueued, Typed, TypeOK, Worker
  <2>. QED
    BY <2>1 DEF Running, UnfinishedIsRunning
<1>4. CASE MeasureTunnel
  <2>1. /\ exec.phase = "running" /\ exec'.phase = "running"
        /\ exec'.node = exec.node /\ exec'.automatic = exec.automatic
        /\ UNCHANGED <<history, worker>>
    BY <1>4 DEF MeasureTunnel, Typed, TypeOK, Exec
  <2>. QED
    BY <2>1 DEF Running, UnfinishedIsRunning
<1>5. CASE Finish
  <2>1. /\ exec.phase = "completed" /\ exec'.phase = "idle"
        /\ exec'.automatic = FALSE /\ UNCHANGED history
        /\ exec.automatic => worker'.phase = "idle"
        /\ ~exec.automatic => worker' = worker
    BY <1>5 DEF Finish, Idle, Free
  <2>. QED
    BY <2>1 DEF Running, UnfinishedIsRunning
<1>6. ASSUME NEW n \in Nodes, Expire(n) PROVE Running'
  <2>1. /\ history[n] \in Run /\ history[n].state = "completed"
        /\ history \in [Nodes -> Run \cup {NoRun}]
    BY <1>6 DEF Expire, Typed, TypeOK
  <2>2. history' = [history EXCEPT ![n] = [@ EXCEPT !.aged = TRUE]]
    BY <1>6 DEF Expire
  <2>3. /\ history'[n].state = "completed"
        /\ history'[n].verdict = history[n].verdict
        /\ history'[n].measuredAt = history[n].measuredAt
        /\ history[n] # NoRun
    BY <2>1, <2>2, DiagnosisAssumption DEF Run
  <2>4. \A m \in Nodes \ {n} : history'[m] = history[m]
    BY <2>1, <2>2
  <2>5. UNCHANGED <<worker, exec>>
    BY <1>6 DEF Expire
  <2>6. exec.phase # "idle" => exec.node \in Nodes
    BY DEF Typed
  <2>. QED
    BY <2>1, <2>3, <2>4, <2>5, <2>6 DEF Running, UnfinishedIsRunning
<1>7. CASE Restart
  <2>1. /\ exec'.phase = "idle" /\ exec'.automatic = FALSE
        /\ worker'.phase = "idle"
    BY <1>7 DEF Restart, Idle, Free
  <2>2. Now + 1 \in Nat
    BY NowIsNat
  <2>3. history' = [n \in Nodes |-> RestoredRun(n, Now + 1)]
    BY <1>7 DEF Restart
  <2>4. ASSUME NEW n \in Nodes, history'[n] # NoRun
        PROVE  /\ history'[n].state = "completed"
               /\ history'[n].verdict = "failed" => history'[n].measuredAt = 0
    <3>1. history'[n] = RestoredRun(n, Now + 1)
      BY <2>3
    <3>2. history[n] # NoRun
      BY <2>4, <3>1 DEF RestoredRun
    <3>3. /\ history'[n].state = "completed"
          /\ history[n].state = "completed" => history'[n] = history[n]
          /\ history[n].state # "completed" =>
               history'[n].verdict = "inconclusive"
      BY <2>2, <3>1, <3>2, RestoredRunKeeps
    <3>. QED
      BY <3>2, <3>3 DEF Running
  <2>. QED
    BY <2>1, <2>4 DEF Running, UnfinishedIsRunning
<1>8. ASSUME NEW g \in Recorders, NEW n \in Nodes, NEW o \in Outcomes[n],
             Check(g, n, o)
      PROVE  UNCHANGED <<history, worker, exec>>
  BY <1>8 DEF Check
<1>9. ASSUME NEW g \in Recorders,
             Record(g) \/ Consider(g) \/ Mark(g) \/ Send(g)
      PROVE  UNCHANGED <<history, worker, exec>>
  BY <1>9 DEF Record, Consider, Mark, Send
<1>10. ASSUME NEW n \in Nodes,
              \/ DropOutcome(n) \/ DNSMoved(n)
              \/ \E r \in Revs \cup {Absent} : Reload(n, r)
       PROVE  UNCHANGED <<history, worker, exec>>
  BY <1>10 DEF DropOutcome, DNSMoved, Reload, vars
<1>11. CASE SaveResults \/ SaveMonitor \/ UNCHANGED vars
  <2>1. UNCHANGED <<history, worker, exec>>
    BY <1>11 DEF SaveResults, SaveMonitor, vars
  <2>. QED
    BY <1>1, <2>1
<1>. QED
  BY <1>1, <1>2, <1>3, <1>4, <1>5, <1>6, <1>7, <1>8, <1>9, <1>10, <1>11,
     StartRunning, EnterRunning, CompleteRunning, Zenon DEF Next

-----------------------------------------------------------------------------
(* Marks: the three places a marked node can be in, and that it is in one  *)
(* of them only.                                                           *)

InQueue(n) == \E i \in DOMAIN queue : queue[i] = n
InHand(g, n) == hand[g].phase = "marked" /\ hand[g].node = n
AtWorker(n) ==
  worker.phase \in {"deciding", "starting", "begun"} /\ worker.node = n

Marks ==
  /\ \A i, j \in DOMAIN queue : queue[i] = queue[j] => i = j
  /\ \A n \in Nodes :
       /\ \A g, h \in Recorders : InHand(g, n) /\ InHand(h, n) => g = h
       /\ n \in marked <=>
            InQueue(n) \/ AtWorker(n) \/ (\E g \in Recorders : InHand(g, n))
       /\ InQueue(n) => ~AtWorker(n)
       /\ \A g \in Recorders : InHand(g, n) => ~InQueue(n) /\ ~AtWorker(n)

LEMMA InitMarks == Init => Marks
PROOF
  BY DEF Init, Marks, InQueue, InHand, AtWorker, Free

(* Of each place at most one counts, and a marked node is in one of them.  *)
LEMMA MarksImplyMarkedOnce == Marks => MarkedOnce
PROOF
<1>. SUFFICES ASSUME Marks, NEW n \in Nodes
              PROVE  Places(n) = IF n \in marked THEN 1 ELSE 0
  BY DEF MarkedOnce
<1>. DEFINE Q == {i \in DOMAIN queue : queue[i] = n}
            H == {g \in Recorders : InHand(g, n)}
<1>1. Cardinality(Q) = IF InQueue(n) THEN 1 ELSE 0
  <2>1. CASE InQueue(n)
    <3>1. PICK i \in DOMAIN queue : queue[i] = n
      BY <2>1 DEF InQueue
    <3>2. Q = {i}
      BY <3>1 DEF Marks
    <3>3. Cardinality({i}) = 1
      BY FS_Singleton
    <3>. QED
      BY <2>1, <3>2, <3>3
  <2>2. CASE ~InQueue(n)
    <3>1. Q = {}
      BY <2>2 DEF InQueue
    <3>. QED
      BY <2>2, <3>1, FS_EmptySet
  <2>. QED
    BY <2>1, <2>2
<1>2. Cardinality(H) = IF \E g \in Recorders : InHand(g, n) THEN 1 ELSE 0
  <2>1. CASE \E g \in Recorders : InHand(g, n)
    <3>1. PICK g \in Recorders : InHand(g, n)
      BY <2>1
    <3>2. H = {g}
      BY <3>1 DEF Marks
    <3>3. Cardinality({g}) = 1
      BY FS_Singleton
    <3>. QED
      BY <2>1, <3>2, <3>3
  <2>2. CASE ~(\E g \in Recorders : InHand(g, n))
    <3>1. H = {}
      BY <2>2
    <3>. QED
      BY <2>2, <3>1, FS_EmptySet
  <2>. QED
    BY <2>1, <2>2
<1>3. H = {g \in Recorders : hand[g].phase = "marked" /\ hand[g].node = n}
  BY DEF InHand
<1>4. Places(n) =
        Cardinality(Q) + Cardinality(H) + (IF AtWorker(n) THEN 1 ELSE 0)
  BY <1>3 DEF Places, AtWorker
<1>. HIDE DEF Q, H
<1>5. /\ n \in marked <=>
           InQueue(n) \/ AtWorker(n) \/ (\E g \in Recorders : InHand(g, n))
      /\ InQueue(n) => ~AtWorker(n)
      /\ (\E g \in Recorders : InHand(g, n)) => ~InQueue(n) /\ ~AtWorker(n)
  BY DEF Marks
<1>. QED
  BY <1>1, <1>2, <1>4, <1>5

LEMMA KeepMarks ==
  ASSUME Marks, UNCHANGED <<queue, marked>>,
         \A n \in Nodes :
           /\ AtWorker(n)' <=> AtWorker(n)
           /\ \A g \in Recorders : InHand(g, n)' <=> InHand(g, n)
  PROVE  Marks'
PROOF
<1>1. \A n \in Nodes : InQueue(n)' <=> InQueue(n)
  BY DEF InQueue
<1>. QED
  BY <1>1 DEF Marks

LEMMA MarkMarks ==
  ASSUME Typed, Marks, NEW g \in Recorders, Mark(g)
  PROVE  Marks'
PROOF
<1>. DEFINE n == hand[g].node
<1>1. /\ hand \in [Recorders -> Hand] /\ hand[g].phase = "wanted"
      /\ n \in Nodes
      /\ UNCHANGED <<queue, worker>>
  BY DEF Mark, Typed, TypeOK
<1>2. \A h \in Recorders : h # g => hand'[h] = hand[h]
  BY <1>1 DEF Mark
<1>3. \A m \in Nodes : /\ InQueue(m)' <=> InQueue(m)
                       /\ AtWorker(m)' <=> AtWorker(m)
  BY <1>1 DEF InQueue, AtWorker
<1>4. \A m \in Nodes : ~InHand(g, m)
  BY <1>1 DEF InHand
<1>5. \A m \in Nodes, h \in Recorders : h # g =>
        (InHand(h, m)' <=> InHand(h, m))
  BY <1>2 DEF InHand
<1>6. CASE n \in marked
  <2>1. hand'[g] = Free /\ UNCHANGED marked
    BY <1>1, <1>6 DEF Mark
  <2>2. \A m \in Nodes : ~InHand(g, m)'
    BY <2>1 DEF InHand, Free
  <2>. QED
    BY <1>1, <1>3, <1>4, <1>5, <2>1, <2>2, KeepMarks
<1>7. CASE n \notin marked
  <2>1. hand'[g] = [hand[g] EXCEPT !.phase = "marked"]
    BY <1>1, <1>7 DEF Mark
  <2>2. hand'[g].phase = "marked" /\ hand'[g].node = n
    BY <1>1, <2>1 DEF Hand
  <2>3. \A m \in Nodes : InHand(g, m)' <=> m = n
    BY <2>2 DEF InHand
  <2>4. marked' = marked \cup {n}
    BY <1>7 DEF Mark
  <2>5. /\ ~InQueue(n) /\ ~AtWorker(n)
        /\ \A h \in Recorders : ~InHand(h, n)
    BY <1>1, <1>7 DEF Marks
  <2>. HIDE DEF n
  <2>6. \A i, j \in DOMAIN queue' : queue'[i] = queue'[j] => i = j
    BY <1>1 DEF Marks
  <2>7. ASSUME NEW m \in Nodes
        PROVE  /\ \A h, k \in Recorders :
                    InHand(h, m)' /\ InHand(k, m)' => h = k
               /\ m \in marked' <=>
                    \/ InQueue(m)' \/ AtWorker(m)'
                    \/ \E h \in Recorders : InHand(h, m)'
               /\ InQueue(m)' => ~AtWorker(m)'
               /\ \A h \in Recorders :
                    InHand(h, m)' => ~InQueue(m)' /\ ~AtWorker(m)'
    <3>1. CASE m = n
      BY <1>3, <1>5, <2>3, <2>4, <2>5, <3>1
    <3>2. CASE m # n
      BY <1>3, <1>4, <1>5, <2>3, <2>4, <3>2 DEF Marks
    <3>. QED
      BY <3>1, <3>2
  <2>. QED
    BY <2>6, <2>7 DEF Marks
<1>. QED
  BY <1>6, <1>7

LEMMA SendMarks ==
  ASSUME Typed, Marks, NEW g \in Recorders, Send(g)
  PROVE  Marks'
PROOF
<1>. DEFINE n == hand[g].node
<1>1. /\ hand \in [Recorders -> Hand] /\ hand[g].phase = "marked"
      /\ hand' = [hand EXCEPT ![g] = Free] /\ UNCHANGED worker
      /\ queue \in Seq(Nodes)
  BY DEF Send, Typed, TypeOK
<1>2. InHand(g, n) /\ n \in Nodes
  BY <1>1 DEF InHand, Typed
<1>3. n \in marked /\ ~InQueue(n) /\ ~AtWorker(n)
  BY <1>2 DEF Marks
<1>4. \A m \in Nodes : AtWorker(m)' <=> AtWorker(m)
  BY <1>1 DEF AtWorker
<1>5. \A m \in Nodes, h \in Recorders :
        InHand(h, m)' <=> h # g /\ InHand(h, m)
  BY <1>1 DEF InHand, Free
<1>6. \A m \in Nodes : InHand(g, m) => m = n
  BY DEF InHand
<1>7. \A h \in Recorders : h # g => ~InHand(h, n)
  BY <1>2 DEF Marks
<1>8. CASE Len(queue) < QueueSize
  <2>1. queue' = Append(queue, n) /\ UNCHANGED marked
    BY <1>8 DEF Send
  <2>. HIDE DEF n
  <2>2. /\ DOMAIN queue' = 1..(Len(queue) + 1) /\ DOMAIN queue = 1..Len(queue)
        /\ queue'[Len(queue) + 1] = n
        /\ \A i \in DOMAIN queue : i \in DOMAIN queue' /\ queue'[i] = queue[i]
        /\ Len(queue) \in Nat
    BY <1>1, <1>2, <2>1
  <2>3. \A i \in DOMAIN queue' : i # Len(queue) + 1 => i \in DOMAIN queue
    BY <2>2
  <2>4. \A i \in DOMAIN queue : queue[i] # n
    BY <1>3 DEF InQueue
  <2>5. \A i, j \in DOMAIN queue' : queue'[i] = queue'[j] => i = j
    BY <2>2, <2>3, <2>4 DEF Marks
  <2>6. Len(queue) + 1 \in DOMAIN queue'
    BY <2>2
  <2>7. \A m \in Nodes : InQueue(m)' <=> m = n \/ InQueue(m)
    BY <2>2, <2>3, <2>6 DEF InQueue
  <2>8. ASSUME NEW m \in Nodes
        PROVE  /\ \A h, k \in Recorders :
                    InHand(h, m)' /\ InHand(k, m)' => h = k
               /\ m \in marked' <=>
                    \/ InQueue(m)' \/ AtWorker(m)'
                    \/ \E h \in Recorders : InHand(h, m)'
               /\ InQueue(m)' => ~AtWorker(m)'
               /\ \A h \in Recorders :
                    InHand(h, m)' => ~InQueue(m)' /\ ~AtWorker(m)'
    <3>1. CASE m = n
      BY <1>3, <1>4, <1>5, <1>7, <2>1, <2>7, <3>1
    <3>2. CASE m # n
      BY <1>4, <1>5, <1>6, <2>1, <2>7, <3>2 DEF Marks
    <3>. QED
      BY <3>1, <3>2
  <2>. QED
    BY <2>5, <2>8 DEF Marks
<1>9. CASE ~(Len(queue) < QueueSize)
  <2>1. UNCHANGED queue /\ marked' = marked \ {n}
    BY <1>9 DEF Send
  <2>. HIDE DEF n
  <2>2. \A m \in Nodes : InQueue(m)' <=> InQueue(m)
    BY <2>1 DEF InQueue
  <2>3. \A i, j \in DOMAIN queue' : queue'[i] = queue'[j] => i = j
    BY <2>1 DEF Marks
  <2>4. ASSUME NEW m \in Nodes
        PROVE  /\ \A h, k \in Recorders :
                    InHand(h, m)' /\ InHand(k, m)' => h = k
               /\ m \in marked' <=>
                    \/ InQueue(m)' \/ AtWorker(m)'
                    \/ \E h \in Recorders : InHand(h, m)'
               /\ InQueue(m)' => ~AtWorker(m)'
               /\ \A h \in Recorders :
                    InHand(h, m)' => ~InQueue(m)' /\ ~AtWorker(m)'
    <3>1. CASE m = n
      BY <1>3, <1>4, <1>5, <1>7, <2>1, <2>2, <3>1
    <3>2. CASE m # n
      BY <1>4, <1>5, <1>6, <2>1, <2>2, <3>2 DEF Marks
    <3>. QED
      BY <3>1, <3>2
  <2>. QED
    BY <2>3, <2>4 DEF Marks
<1>. QED
  BY <1>8, <1>9

LEMMA ReceiveMarks ==
  ASSUME Typed, Marks, Receive
  PROVE  Marks'
PROOF
<1>. DEFINE n == Head(queue)
<1>1. /\ queue \in Seq(Nodes) /\ queue # <<>> /\ queue' = Tail(queue)
      /\ worker.phase = "idle"
      /\ worker' = [phase |-> "deciding", node |-> n]
      /\ UNCHANGED <<marked, hand>>
  BY DEF Receive, Typed, TypeOK
<1>2. /\ DOMAIN queue = 1..Len(queue) /\ Len(queue) \in Nat /\ Len(queue) >= 1
      /\ DOMAIN queue' = 1..(Len(queue) - 1)
      /\ \A i \in DOMAIN queue' : queue'[i] = queue[i + 1]
      /\ n = queue[1]
  BY <1>1
<1>3. \A m \in Nodes : ~AtWorker(m)
  BY <1>1 DEF AtWorker
<1>4. \A m \in Nodes : AtWorker(m)' <=> m = n
  BY <1>1 DEF AtWorker
<1>5. \A m \in Nodes, h \in Recorders : InHand(h, m)' <=> InHand(h, m)
  BY <1>1 DEF InHand
<1>. HIDE DEF n
<1>6. \A i \in DOMAIN queue' : i + 1 \in DOMAIN queue /\ i + 1 # 1
  BY <1>2
<1>7. 1 \in DOMAIN queue /\ InQueue(n)
  BY <1>2 DEF InQueue
<1>8. \A i, j \in DOMAIN queue' : queue'[i] = queue'[j] => i = j
  <2>1. \A i, j \in DOMAIN queue' : i + 1 = j + 1 => i = j
    BY <1>2
  <2>2. \A i, j \in DOMAIN queue : queue[i] = queue[j] => i = j
    BY DEF Marks
  <2>. QED
    BY <1>2, <1>6, <2>1, <2>2
<1>9. \A m \in Nodes : InQueue(m)' <=> InQueue(m) /\ m # n
  <2>1. \A i \in DOMAIN queue :
          i # 1 => i - 1 \in DOMAIN queue' /\ (i - 1) + 1 = i
    BY <1>2
  <2>2. \A i \in DOMAIN queue : queue[i] = queue[1] => i = 1
    BY <1>7 DEF Marks
  <2>3. ASSUME NEW m \in Nodes, InQueue(m)'
        PROVE  InQueue(m) /\ m # n
    <3>1. PICK i \in DOMAIN queue' : queue'[i] = m
      BY <2>3 DEF InQueue
    <3>2. queue[i + 1] = m /\ i + 1 \in DOMAIN queue /\ i + 1 # 1
      BY <1>2, <1>6, <3>1
    <3>3. m # n
      BY <1>2, <2>2, <3>2
    <3>. QED
      BY <3>2, <3>3 DEF InQueue
  <2>4. ASSUME NEW m \in Nodes, InQueue(m), m # n
        PROVE  InQueue(m)'
    <3>1. PICK i \in DOMAIN queue : queue[i] = m
      BY <2>4 DEF InQueue
    <3>2. i # 1
      BY <1>2, <2>4, <3>1
    <3>3. i - 1 \in DOMAIN queue' /\ queue'[i - 1] = m
      BY <1>2, <2>1, <3>1, <3>2
    <3>. QED
      BY <3>3 DEF InQueue
  <2>. QED
    BY <2>3, <2>4
<1>10. ASSUME NEW m \in Nodes
       PROVE  /\ \A h, k \in Recorders :
                   InHand(h, m)' /\ InHand(k, m)' => h = k
              /\ m \in marked' <=>
                   \/ InQueue(m)' \/ AtWorker(m)'
                   \/ \E h \in Recorders : InHand(h, m)'
              /\ InQueue(m)' => ~AtWorker(m)'
              /\ \A h \in Recorders :
                   InHand(h, m)' => ~InQueue(m)' /\ ~AtWorker(m)'
  <2>1. CASE m = n
    BY <1>1, <1>4, <1>5, <1>7, <1>9, <2>1 DEF Marks
  <2>2. CASE m # n
    BY <1>1, <1>3, <1>4, <1>5, <1>9, <2>2 DEF Marks
  <2>. QED
    BY <2>1, <2>2
<1>. QED
  BY <1>8, <1>10 DEF Marks

(* The worker removes the mark of the node it is done with.                *)
LEMMA UnmarkMarks ==
  ASSUME Typed, Marks, UNCHANGED <<queue, hand>>,
         worker.phase \in {"deciding", "starting", "begun"},
         worker'.phase \in {"idle", "running"},
         marked' = marked \ {worker.node}
  PROVE  Marks'
PROOF
<1>. DEFINE n == worker.node
<1>1. n \in Nodes /\ AtWorker(n)
  BY DEF Typed, AtWorker
<1>2. \A m \in Nodes : ~AtWorker(m)'
  BY DEF AtWorker
<1>3. \A m \in Nodes : AtWorker(m) => m = n
  BY DEF AtWorker
<1>4. \A m \in Nodes : InQueue(m)' <=> InQueue(m)
  BY DEF InQueue
<1>5. \A m \in Nodes, h \in Recorders : InHand(h, m)' <=> InHand(h, m)
  BY DEF InHand
<1>6. \A i, j \in DOMAIN queue' : queue'[i] = queue'[j] => i = j
  BY DEF Marks
<1>7. marked' = marked \ {n}
  OBVIOUS
<1>. HIDE DEF n
<1>8. ASSUME NEW m \in Nodes
      PROVE  /\ \A h, k \in Recorders : InHand(h, m)' /\ InHand(k, m)' => h = k
             /\ m \in marked' <=>
                  \/ InQueue(m)' \/ AtWorker(m)'
                  \/ \E h \in Recorders : InHand(h, m)'
             /\ InQueue(m)' => ~AtWorker(m)'
             /\ \A h \in Recorders :
                  InHand(h, m)' => ~InQueue(m)' /\ ~AtWorker(m)'
  BY <1>1, <1>2, <1>3, <1>4, <1>5, <1>7 DEF Marks
<1>. QED
  BY <1>6, <1>8 DEF Marks

LEMMA NextMarks == Typed /\ Running /\ Marks /\ [Next]_vars => Marks'
PROOF
<1>. SUFFICES ASSUME Typed, Running, Marks, [Next]_vars PROVE Marks'
  OBVIOUS
<1>1. CASE UNCHANGED <<queue, marked, hand, worker>>
  BY <1>1, KeepMarks DEF AtWorker, InHand
<1>2. ASSUME NEW g \in Recorders, NEW n \in Nodes, NEW o \in Outcomes[n],
             Check(g, n, o)
      PROVE  Marks'
  <2>1. /\ hand' = [hand EXCEPT ![g] = [phase |-> "stored", node |-> n]]
        /\ hand[g].phase = "idle" /\ hand \in [Recorders -> Hand]
        /\ UNCHANGED <<queue, marked, worker>>
    BY <1>2 DEF Check, Typed, TypeOK
  <2>2. \A m \in Nodes, h \in Recorders : InHand(h, m)' <=> InHand(h, m)
    BY <2>1 DEF InHand
  <2>. QED
    BY <2>1, <2>2, KeepMarks DEF AtWorker
<1>3. ASSUME NEW g \in Recorders, Record(g) \/ Consider(g)
      PROVE  Marks'
  <2>1. /\ hand \in [Recorders -> Hand] /\ hand[g].phase # "marked"
        /\ \A h \in Recorders : h # g => hand'[h] = hand[h]
        /\ UNCHANGED <<queue, marked, worker>>
    BY <1>3 DEF Record, Consider, Typed, TypeOK
  <2>2. hand'[g].phase # "marked"
    BY <1>3, <2>1 DEF Record, Consider, Free, Hand
  <2>3. \A m \in Nodes, h \in Recorders : InHand(h, m)' <=> InHand(h, m)
    BY <2>1, <2>2 DEF InHand
  <2>. QED
    BY <2>1, <2>3, KeepMarks DEF AtWorker
<1>4. CASE Decide
  <2>1. CASE Needed(worker.node)
    <3>1. /\ worker.phase = "deciding" /\ worker'.phase = "starting"
          /\ worker'.node = worker.node
          /\ UNCHANGED <<queue, marked, hand>>
      BY <1>4, <2>1 DEF Decide, Typed, TypeOK, Worker
    <3>. QED
      BY <3>1, KeepMarks DEF AtWorker, InHand
  <2>2. CASE ~Needed(worker.node)
    <3>1. /\ worker.phase = "deciding" /\ worker'.phase = "idle"
          /\ marked' = marked \ {worker.node} /\ UNCHANGED <<queue, hand>>
      BY <1>4, <2>2 DEF Decide, Free
    <3>. QED
      BY <3>1, UnmarkMarks
  <2>. QED
    BY <2>1, <2>2
<1>5. CASE Retry \/ BeginAutomatic
  <2>1. /\ worker.phase = "starting" /\ worker'.phase \in {"deciding", "begun"}
        /\ worker'.node = worker.node /\ UNCHANGED <<queue, marked, hand>>
    BY <1>5 DEF Retry, BeginAutomatic, Typed, TypeOK, Worker
  <2>. QED
    BY <2>1, KeepMarks DEF AtWorker, InHand
<1>6. CASE Skip \/ FinishQueued
  <2>1. /\ worker.phase \in {"starting", "begun"}
        /\ worker'.phase \in {"idle", "running"}
        /\ marked' = marked \ {worker.node} /\ UNCHANGED <<queue, hand>>
    BY <1>6 DEF Skip, FinishQueued, Free, Typed, TypeOK, Worker
  <2>. QED
    BY <2>1, UnmarkMarks
<1>7. CASE Finish
  <2>1. UNCHANGED <<queue, marked, hand>>
    BY <1>7 DEF Finish
  <2>2. CASE exec.automatic
    <3>1. worker.phase = "running" /\ worker'.phase = "idle"
      BY <1>7, <2>2 DEF Finish, Free, Running
    <3>. QED
      BY <2>1, <3>1, KeepMarks DEF AtWorker, InHand
  <2>3. CASE ~exec.automatic
    <3>1. UNCHANGED worker
      BY <1>7, <2>3 DEF Finish
    <3>. QED
      BY <1>1, <2>1, <3>1
  <2>. QED
    BY <2>2, <2>3
<1>8. CASE Restart
  <2>1. /\ queue' = <<>> /\ marked' = {} /\ worker'.phase = "idle"
        /\ \A g \in Recorders : hand'[g].phase = "idle"
    BY <1>8 DEF Restart, Free
  <2>. QED
    BY <2>1 DEF Marks, InQueue, InHand, AtWorker
<1>9. ASSUME NEW n \in Nodes,
             \/ DropOutcome(n) \/ StartManual(n) \/ Expire(n) \/ DNSMoved(n)
             \/ \E r \in Revs \cup {Absent} : Reload(n, r)
      PROVE  UNCHANGED <<queue, marked, hand, worker>>
  BY <1>9 DEF DropOutcome, StartManual, Expire, DNSMoved, Reload, vars
<1>10. CASE \/ EnterRuntime \/ MeasureTunnel \/ Complete
            \/ SaveResults \/ SaveMonitor \/ UNCHANGED vars
  <2>1. UNCHANGED <<queue, marked, hand, worker>>
    BY <1>10 DEF EnterRuntime, MeasureTunnel, Complete, SaveResults,
                 SaveMonitor, vars
  <2>. QED
    BY <1>1, <2>1
<1>11. ASSUME NEW g \in Recorders, Mark(g) \/ Send(g) PROVE Marks'
  BY <1>11, MarkMarks, SendMarks
<1>12. Receive => Marks'
  BY ReceiveMarks
<1>. QED
  BY <1>1, <1>2, <1>3, <1>4, <1>5, <1>6, <1>7, <1>8, <1>9, <1>10, <1>11,
     <1>12, Zenon DEF Next

-----------------------------------------------------------------------------
(* What the operators leave alone.                                         *)

LEMMA CountFields ==
  ASSUME NEW nd \in Node, NEW r \in Result
  PROVE  /\ Count(nd, r).successAt = IF r.online THEN r.at ELSE nd.successAt
         /\ Count(nd, r).episode = IF ~r.online /\ nd.failures = 0
                                   THEN nd.episode + 1 ELSE nd.episode
         /\ r.online => Count(nd, r).failures = 0
         /\ Count(nd, r).since = nd.since
PROOF
  BY DEF Count, Node

LEMMA ReloadedFields ==
  ASSUME NEW nd \in Node, NEW r
  PROVE  /\ Reloaded(nd, r).successAt = nd.successAt
         /\ Reloaded(nd, r).episode = nd.episode
         /\ Reloaded(nd, r).failures \in {0, nd.failures}
         /\ Reloaded(nd, r).since = nd.since
PROOF
<1>1. CASE r \in {Absent, nd.rev}
  BY <1>1 DEF Reloaded
<1>2. CASE r \notin {Absent, nd.rev}
  <2>1. Reloaded(nd, r) =
          [nd EXCEPT !.failures = 0, !.symptom = NoSymptom, !.rev = r]
    BY <1>2 DEF Reloaded
  <2>. QED
    BY <2>1 DEF Node
<1>. QED
  BY <1>1, <1>2

LEMMA SecGrows ==
  ASSUME NEW a \in Nat, NEW b \in Nat, a <= b
  PROVE  Sec(a) <= Sec(b)
PROOF
  BY DEF Sec

LEMMA ClockGrows ==
  ASSUME Typed, [Next]_vars
  PROVE  clock <= clock' /\ Now <= Now'
PROOF
<1>1. clock \in Nat /\ Typed'
  BY NextTyped, NowIsNat
<1>2. clock' \in Nat
  BY <1>1, NextNowIsNat
<1>3. UNCHANGED clock \/ clock' = clock + 1 \/ clock' = 2 * (Now + 1)
  BY DEF Next, vars, Check, DropOutcome, Record, Consider, Mark, Send,
         StartManual, Receive, Decide, Retry, Skip, BeginAutomatic,
         FinishQueued, EnterRuntime, MeasureTunnel, Complete, Finish, Expire,
         DNSMoved, Reload, SaveResults, SaveMonitor, Restart
<1>4. clock <= 2 * (Now + 1)
  BY <1>1, SecIsNat DEF Now, Sec
<1>5. clock <= clock'
  BY <1>1, <1>3, <1>4
<1>. QED
  BY <1>1, <1>2, <1>5, SecGrows DEF Now

-----------------------------------------------------------------------------
(* Nothing is dated later than now.                                        *)

ResultTimes ==
  \A n \in Nodes : result[n] # NoResult => result[n].at <= clock
NodeTimes == \A n \in Nodes : node[n].successAt <= clock
DiskTimes ==
  \A n \in Nodes :
    /\ disk.result[n] # NoResult => disk.result[n].at <= clock
    /\ disk.node[n] # NoNode => disk.node[n].successAt <= clock
HistoryTimes ==
  \A n \in Nodes : history[n] # NoRun =>
    /\ history[n].capturedAt <= clock
    /\ history[n].measuredAt <= clock
    /\ history[n].completedAt <= Now
ExecTimes == exec.measuredAt <= clock

Times == ResultTimes /\ NodeTimes /\ DiskTimes /\ HistoryTimes /\ ExecTimes

LEMMA InitTimes == Init => Times
PROOF
<1>. SUFFICES ASSUME Init PROVE Times
  OBVIOUS
<1>. USE DiagnosisAssumption
<1>1. clock = 3 /\ exec.measuredAt = 0
  BY DEF Init, Idle
<1>2. \A n \in Nodes : node[n].successAt = 0
  BY DEF Init, FailedNode, NewNode
<1>3. \A n \in Nodes :
        disk.node[n] # NoNode => disk.node[n].successAt = 0
  BY <1>2 DEF Init
<1>4. \A n \in Nodes : /\ result[n] = NoResult /\ disk.result[n] = NoResult
                       /\ history[n] = NoRun
  BY DEF Init
<1>. QED
  BY <1>1, <1>2, <1>3, <1>4
     DEF Times, ResultTimes, NodeTimes, DiskTimes, HistoryTimes, ExecTimes

(* What a step leaves alone is not dated later than the clock afterwards.  *)
LEMMA KeepTimes ==
  ASSUME Typed, Times, clock' \in Nat, Now' \in Nat,
         clock <= clock', Now <= Now'
  PROVE  /\ UNCHANGED result => ResultTimes'
         /\ UNCHANGED node => NodeTimes'
         /\ UNCHANGED disk => DiskTimes'
         /\ UNCHANGED history => HistoryTimes'
         /\ UNCHANGED exec => ExecTimes'
PROOF
<1>1. clock \in Nat /\ Now \in Nat /\ exec.measuredAt \in Nat
  <2>1. exec.measuredAt \in Nat
    BY DEF Typed, TypeOK, Exec
  <2>. QED
    BY <2>1, NowIsNat
<1>2. UNCHANGED result => ResultTimes'
  BY <1>1, TimesAreNat DEF Times, ResultTimes
<1>3. UNCHANGED node => NodeTimes'
  BY <1>1, TimesAreNat DEF Times, NodeTimes
<1>4. UNCHANGED disk => DiskTimes'
  BY <1>1, TimesAreNat DEF Times, DiskTimes
<1>5. UNCHANGED history => HistoryTimes'
  BY <1>1, TimesAreNat DEF Times, HistoryTimes
<1>6. UNCHANGED exec => ExecTimes'
  BY <1>1 DEF Times, ExecTimes
<1>. QED
  BY <1>2, <1>3, <1>4, <1>5, <1>6

(* One element replaced by one that is not dated later.                    *)
LEMMA ReplaceTimes ==
  ASSUME Typed, Times, clock' \in Nat, Now' \in Nat,
         clock <= clock', Now <= Now', NEW n \in Nodes
  PROVE  /\ \A r : /\ result' = [result EXCEPT ![n] = r]
                   /\ r # NoResult => r.at <= clock'
                   => ResultTimes'
         /\ \A nd : /\ node' = [node EXCEPT ![n] = nd]
                    /\ nd.successAt <= clock'
                    => NodeTimes'
         /\ \A run : /\ history' = [history EXCEPT ![n] = run]
                     /\ run.capturedAt <= clock' /\ run.measuredAt <= clock'
                     /\ run.completedAt <= Now'
                     => HistoryTimes'
PROOF
<1>1. clock \in Nat /\ Now \in Nat
  BY NowIsNat
<1>2. /\ DOMAIN result = Nodes /\ DOMAIN node = Nodes /\ DOMAIN history = Nodes
  BY DEF Typed, TypeOK
<1>3. ASSUME NEW r, result' = [result EXCEPT ![n] = r],
             r # NoResult => r.at <= clock'
      PROVE  ResultTimes'
  <2>1. \A m \in Nodes : result[m] # NoResult => result[m].at <= clock'
    BY <1>1, TimesAreNat DEF Times, ResultTimes
  <2>2. \A m \in Nodes : result'[m] = IF m = n THEN r ELSE result[m]
    BY <1>2, <1>3
  <2>. QED
    BY <1>3, <2>1, <2>2 DEF ResultTimes
<1>4. ASSUME NEW nd, node' = [node EXCEPT ![n] = nd],
             nd.successAt <= clock'
      PROVE  NodeTimes'
  <2>1. \A m \in Nodes : node[m].successAt <= clock'
    BY <1>1, TimesAreNat DEF Times, NodeTimes
  <2>2. \A m \in Nodes : node'[m] = IF m = n THEN nd ELSE node[m]
    BY <1>2, <1>4
  <2>. QED
    BY <1>4, <2>1, <2>2 DEF NodeTimes
<1>5. ASSUME NEW run, history' = [history EXCEPT ![n] = run],
             run.capturedAt <= clock', run.measuredAt <= clock',
             run.completedAt <= Now'
      PROVE  HistoryTimes'
  <2>1. \A m \in Nodes : history[m] # NoRun =>
          /\ history[m].capturedAt <= clock' /\ history[m].measuredAt <= clock'
          /\ history[m].completedAt <= Now'
    BY <1>1, TimesAreNat DEF Times, HistoryTimes
  <2>2. \A m \in Nodes : history'[m] = IF m = n THEN run ELSE history[m]
    BY <1>2, <1>5
  <2>. QED
    BY <1>5, <2>1, <2>2 DEF HistoryTimes
<1>. QED
  BY <1>3, <1>4, <1>5

(* Counting a result dates the node no later than its own results were.    *)
LEMMA CountTimes ==
  ASSUME NEW nd \in Node, NEW r \in Result, NEW t \in Nat,
         nd.successAt <= t, r.at <= t
  PROVE  Count(nd, r).successAt <= t /\ CountNews(nd, r).successAt <= t
PROOF
  BY CountFields DEF CountNews

LEMMA RunTimes ==
  ASSUME Typed, Typed', Running, Times, clock <= clock', Now <= Now',
         EnterRuntime \/ Complete
  PROVE  HistoryTimes'
PROOF
<1>. DEFINE n == exec.node
<1>1. /\ n \in Nodes /\ history[n] \in Run /\ history[n] # NoRun
      /\ exec.measuredAt \in Nat
  <2>1. exec.phase # "idle"
    BY DEF EnterRuntime, Complete
  <2>2. exec.measuredAt \in Nat
    BY DEF Typed, TypeOK, Exec
  <2>3. n \in Nodes /\ history[n] # NoRun
    BY <2>1 DEF Typed
  <2>. QED
    BY <2>2, <2>3, TypesAt
<1>2. /\ clock \in Nat /\ Now \in Nat /\ clock' \in Nat /\ Now' \in Nat
      /\ clock' = clock /\ Now' = Now
  BY NowIsNat, NextNowIsNat DEF EnterRuntime, Complete, Now
<1>3. /\ history[n].capturedAt <= clock /\ history[n].measuredAt <= clock
      /\ history[n].completedAt <= Now /\ exec.measuredAt <= clock
  BY <1>1 DEF Times, HistoryTimes, ExecTimes
<1>4. PICK run : /\ history' = [history EXCEPT ![n] = run]
                 /\ run.capturedAt <= clock /\ run.measuredAt <= clock
                 /\ run.completedAt <= Now
  <2>1. CASE EnterRuntime /\ rev[n] = Absent
    <3>1. history' = [history EXCEPT
                        ![n] = Completed(history[n], "inconclusive")]
      BY <2>1 DEF EnterRuntime, Replace
    <3>. DEFINE run == Completed(history[n], "inconclusive")
    <3>2. /\ run.capturedAt = history[n].capturedAt
          /\ run.measuredAt = history[n].measuredAt
          /\ run.completedAt = Now
      BY <1>1 DEF Completed, Run
    <3>. HIDE DEF run
    <3>3. /\ run.capturedAt <= clock /\ run.measuredAt <= clock
          /\ run.completedAt <= Now
      BY <1>2, <1>3, <3>2
    <3>. QED
      BY <3>1, <3>3 DEF run
  <2>2. CASE EnterRuntime /\ rev[n] # Absent
    <3>. DEFINE run == [history[n] EXCEPT
                  !.state = "running", !.rev = rev[n],
                  !.episode = node[n].episode, !.symptom = node[n].symptom,
                  !.capturedAt = clock]
    <3>1. history' = [history EXCEPT ![n] = run]
      BY <2>2 DEF EnterRuntime, Replace
    <3>2. /\ run.capturedAt = clock
          /\ run.measuredAt = history[n].measuredAt
          /\ run.completedAt = history[n].completedAt
      BY <1>1 DEF Run
    <3>. HIDE DEF run
    <3>3. /\ run.capturedAt <= clock /\ run.measuredAt <= clock
          /\ run.completedAt <= Now
      BY <1>2, <1>3, <3>2
    <3>. QED
      BY <3>1, <3>3
  <2>3. CASE Complete
    <3>1. PICK v \in {"works", "failed", "inconclusive"} :
            history'[n] = [history[n] EXCEPT !.measuredAt = exec.measuredAt,
                             !.state = "completed", !.verdict = v,
                             !.completedAt = Now]
      BY <2>3, CompleteRunning
    <3>2. /\ history'[n].capturedAt = history[n].capturedAt
          /\ history'[n].measuredAt = exec.measuredAt
          /\ history'[n].completedAt = Now
      BY <1>1, <3>1 DEF Run
    <3>3. history' = [history EXCEPT ![n] = history'[n]]
      <4>1. \A m \in Nodes \ {n} : history'[m] = history[m]
        BY <2>3, CompleteRunning
      <4>. QED
        BY <4>1 DEF Typed, TypeOK
    <3>. QED
      BY <1>2, <1>3, <3>2, <3>3
  <2>. QED
    BY <2>1, <2>2, <2>3
<1>. QED
  BY <1>1, <1>2, <1>4, ReplaceTimes

LEMMA FinishTimes ==
  ASSUME Typed, Typed', Times, Finish
  PROVE  Times'
PROOF
<1>. DEFINE n == exec.node
            run == history[n]
<1>1. /\ n \in Nodes /\ run \in Run /\ run # NoRun
      /\ rev[n] \in Revs \cup {Absent} /\ node[n] \in Node
  <2>1. exec.phase # "idle"
    BY DEF Finish
  <2>2. n \in Nodes /\ run # NoRun
    BY <2>1 DEF Typed
  <2>. QED
    BY <2>2, TypesAt
<1>2. /\ clock \in Nat /\ Now \in Nat /\ clock' = clock /\ Now' = Now
      /\ clock <= clock' /\ Now <= Now' /\ clock' \in Nat /\ Now' \in Nat
  BY NowIsNat DEF Finish, Now
<1>3. UNCHANGED <<history, disk>>
  BY DEF Finish
<1>4. ExecTimes'
  BY <1>2 DEF Finish, Idle, ExecTimes
<1>5. ResultTimes' /\ NodeTimes'
  <2>1. CASE Proves(run, rev[n], result[n])
    <3>1. Evidence(run) \in Result
      BY <1>1, <2>1, EvidenceIsResult
    <3>2. Evidence(run).at <= clock
      BY <1>1 DEF Evidence, Times, HistoryTimes
    <3>3. node[n].successAt <= clock
      BY <1>1 DEF Times, NodeTimes
    <3>4. CountNews(node[n], Evidence(run)).successAt <= clock
      BY <1>1, <1>2, <3>1, <3>2, <3>3, CountTimes
    <3>5. /\ result' = [result EXCEPT ![n] = Evidence(run)]
          /\ node' = [node EXCEPT ![n] = CountNews(node[n], Evidence(run))]
      BY <2>1 DEF Finish
    <3>. HIDE DEF n, run
    <3>. QED
      BY <1>1, <1>2, <3>2, <3>4, <3>5, ReplaceTimes
  <2>2. CASE ~Proves(run, rev[n], result[n])
    <3>1. UNCHANGED <<result, node>>
      BY <2>2 DEF Finish
    <3>. QED
      BY <1>2, <3>1, KeepTimes
  <2>. QED
    BY <2>1, <2>2
<1>. QED
  BY <1>2, <1>3, <1>4, <1>5, KeepTimes DEF Times

LEMMA RestartTimes ==
  ASSUME Typed, Typed', Times, clock <= clock', Now <= Now', Restart
  PROVE  Times'
PROOF
<1>. DEFINE second == Now + 1
            Repaired(n) == /\ RestoredRun(n, second) # NoRun
                           /\ Proves(RestoredRun(n, second), rev[n],
                                     RestoredResult(n))
<1>1. /\ clock \in Nat /\ Now \in Nat /\ clock' \in Nat /\ Now' \in Nat
      /\ second \in Nat /\ clock' = 2 * second /\ second <= Now'
  <2>1. clock' = 2 * second
    BY DEF Restart
  <2>2. clock \in Nat /\ Now \in Nat /\ clock' \in Nat /\ Now' \in Nat
    BY NowIsNat, NextNowIsNat
  <2>3. Now' = second
    BY <2>1, <2>2 DEF Now, Sec
  <2>. QED
    BY <2>1, <2>2, <2>3
<1>2. /\ history' = [n \in Nodes |-> RestoredRun(n, second)]
      /\ result' = [n \in Nodes |-> IF Repaired(n) THEN Evidence(history[n])
                                    ELSE RestoredResult(n)]
      /\ node' = [n \in Nodes |->
           IF Repaired(n)
           THEN CountNews(RestoredNode(n, second), Evidence(history[n]))
           ELSE RestoredNode(n, second)]
      /\ UNCHANGED disk
  BY DEF Restart
<1>3. ASSUME NEW n \in Nodes, RestoredResult(n) # NoResult
      PROVE  RestoredResult(n).at <= clock' /\ RestoredResult(n) \in Result
  <2>1. RestoredResult(n) = disk.result[n] /\ disk.result[n] # NoResult
    BY <1>3 DEF RestoredResult
  <2>2. disk.result[n].at <= clock /\ disk.result[n].at \in Nat
    BY <2>1, TimesAreNat DEF Times, DiskTimes
  <2>3. disk.result[n] \in Result
    BY <2>1, TypesAt
  <2>. QED
    BY <1>1, <2>1, <2>2, <2>3
<1>4. ASSUME NEW n \in Nodes
      PROVE  /\ RestoredNode(n, second).successAt <= clock'
             /\ RestoredNode(n, second) \in Node
  <2>1. RestoredNode(n, second) \in Node
    BY <1>1, RestoredTyped
  <2>2. CASE disk.node[n] # NoNode
    <3>1. disk.node[n] \in Node
      BY <2>2, TypesAt
    <3>2. disk.node[n].successAt <= clock /\ disk.node[n].successAt \in Nat
      BY <2>2, TimesAreNat DEF Times, DiskTimes
    <3>3. RestoredNode(n, second) = Reloaded(disk.node[n], rev[n])
      BY <2>2 DEF RestoredNode
    <3>4. RestoredNode(n, second).successAt = disk.node[n].successAt
      BY <3>1, <3>3, ReloadedFields
    <3>. QED
      BY <1>1, <2>1, <3>2, <3>4
  <2>3. CASE disk.node[n] = NoNode
    <3>. DEFINE fresh == NewNode(IF rev[n] = Absent THEN node[n].rev
                                 ELSE rev[n], 2 * second)
    <3>1. fresh.successAt = 0
      BY DEF NewNode
    <3>2. fresh \in Node
      <4>1. (IF rev[n] = Absent THEN node[n].rev ELSE rev[n]) \in Revs
        BY TypesAt DEF Node
      <4>2. 2 * second \in Nat
        BY <1>1
      <4>. QED
        BY <4>1, <4>2, NewNodeIsNode
    <3>3. RestoredNode(n, second) =
            IF RestoredResult(n) = NoResult THEN fresh
            ELSE Count(fresh, RestoredResult(n))
      BY <2>3 DEF RestoredNode
    <3>. HIDE DEF fresh, second
    <3>4. fresh.successAt <= clock'
      BY <1>1, <3>1
    <3>5. RestoredNode(n, second).successAt <= clock'
      BY <1>1, <1>3, <3>2, <3>3, <3>4, CountTimes
    <3>. QED
      BY <2>1, <3>5
  <2>. QED
    BY <2>2, <2>3
<1>5. ASSUME NEW n \in Nodes, Repaired(n)
      PROVE  /\ Evidence(history[n]) \in Result
             /\ Evidence(history[n]).at <= clock'
  <2>1. history[n] # NoRun
    BY <1>5 DEF RestoredRun
  <2>2. /\ RestoredRun(n, second) \in Run /\ rev[n] \in Revs \cup {Absent}
        /\ history[n] \in Run
    BY <1>1, <1>5, <2>1, RestoredTyped, TypesAt
  <2>3. Evidence(RestoredRun(n, second)) \in Result
    BY <1>5, <2>2, EvidenceIsResult
  <2>4. Evidence(RestoredRun(n, second)) = Evidence(history[n])
    BY <1>1, <2>1, RestoredRunKeeps DEF Evidence
  <2>5. /\ Evidence(history[n]).at = history[n].measuredAt
        /\ history[n].measuredAt \in Nat /\ history[n].measuredAt <= clock
    BY <2>1, TimesAreNat DEF Evidence, Times, HistoryTimes
  <2>. QED
    BY <1>1, <2>3, <2>4, <2>5
<1>6. ASSUME NEW n \in Nodes, Repaired(n)
      PROVE  CountNews(RestoredNode(n, second), Evidence(history[n])).successAt
               <= clock'
  BY <1>1, <1>4, <1>5, <1>6, CountTimes
<1>7. ResultTimes'
  BY <1>2, <1>3, <1>5 DEF ResultTimes
<1>8. NodeTimes'
  BY <1>2, <1>4, <1>6 DEF NodeTimes
<1>9. ASSUME NEW n \in Nodes, history'[n] # NoRun
      PROVE  /\ history'[n].capturedAt <= clock'
             /\ history'[n].measuredAt <= clock'
             /\ history'[n].completedAt <= Now'
  <2>1. history'[n] = RestoredRun(n, second)
    BY <1>2
  <2>2. history[n] # NoRun /\ history[n] \in Run
    BY <1>9, <2>1, TypesAt DEF RestoredRun
  <2>3. /\ history[n].capturedAt <= clock' /\ history[n].measuredAt <= clock'
        /\ history[n].completedAt <= Now'
    BY <1>1, <2>2, TimesAreNat DEF Times, HistoryTimes
  <2>4. CASE history[n].state = "completed"
    BY <2>1, <2>3, <2>4 DEF RestoredRun
  <2>5. CASE history[n].state # "completed"
    <3>1. history'[n] = [history[n] EXCEPT !.state = "completed",
                           !.verdict = "inconclusive", !.completedAt = second]
      BY <2>1, <2>2, <2>5 DEF RestoredRun
    <3>. HIDE DEF second
    <3>2. /\ history'[n].capturedAt = history[n].capturedAt
          /\ history'[n].measuredAt = history[n].measuredAt
          /\ history'[n].completedAt = second
      BY <2>2, <3>1 DEF Run
    <3>. QED
      BY <1>1, <2>3, <3>2
  <2>. QED
    BY <2>4, <2>5
<1>10. HistoryTimes'
  BY <1>9 DEF HistoryTimes
<1>11. ExecTimes'
  BY <1>1 DEF Restart, Idle, ExecTimes
<1>12. DiskTimes'
  BY <1>1, <1>2, KeepTimes
<1>. QED
  BY <1>7, <1>8, <1>10, <1>11, <1>12 DEF Times

LEMMA NextTimes == Typed /\ Running /\ Times /\ [Next]_vars => Times'
PROOF
<1>. SUFFICES ASSUME Typed, Running, Times, [Next]_vars PROVE Times'
  OBVIOUS
<1>1. Typed' /\ clock <= clock' /\ Now <= Now'
  BY NextTyped, ClockGrows
<1>2. /\ clock \in Nat /\ Now \in Nat /\ clock' \in Nat /\ Now' \in Nat
  BY <1>1, NowIsNat, NextNowIsNat
<1>3. /\ UNCHANGED result => ResultTimes'
      /\ UNCHANGED node => NodeTimes'
      /\ UNCHANGED disk => DiskTimes'
      /\ UNCHANGED history => HistoryTimes'
      /\ UNCHANGED exec => ExecTimes'
  BY <1>1, <1>2, KeepTimes
<1>4. CASE UNCHANGED <<result, node, disk, history, exec>>
  BY <1>3, <1>4 DEF Times
<1>5. ASSUME NEW g \in Recorders, NEW n \in Nodes, NEW o \in Outcomes[n],
             Check(g, n, o)
      PROVE  Times'
  <2>. DEFINE r == [online |-> o.online, symptom |-> o.symptom,
                    at |-> clock + 1, rev |-> rev[n]]
  <2>1. /\ result' = [result EXCEPT ![n] = r] /\ clock' = clock + 1
        /\ UNCHANGED <<node, disk, history, exec>>
    BY <1>5 DEF Check
  <2>2. r.at = clock + 1
    OBVIOUS
  <2>. HIDE DEF r
  <2>3. r.at <= clock'
    BY <1>2, <2>1, <2>2
  <2>4. ResultTimes'
    BY <1>1, <1>2, <2>1, <2>3, ReplaceTimes
  <2>. QED
    BY <1>3, <2>1, <2>4 DEF Times
<1>6. ASSUME NEW g \in Recorders, Record(g) PROVE Times'
  <2>. DEFINE n == hand[g].node
  <2>1. /\ n \in Nodes /\ result[n] \in Result /\ node[n] \in Node
        /\ result[n] # NoResult
    <3>1. n \in Nodes /\ result[n] # NoResult
      BY <1>6 DEF Record, Typed
    <3>. QED
      BY <3>1, TypesAt
  <2>2. UNCHANGED <<clock, result, disk, history, exec>>
    BY <1>6 DEF Record
  <2>3. UNCHANGED node
          \/ node' = [node EXCEPT ![n] = Count(node[n], result[n])]
    BY <1>6 DEF Record
  <2>4. result[n].at <= clock /\ node[n].successAt <= clock
    BY <2>1 DEF Times, ResultTimes, NodeTimes
  <2>5. Count(node[n], result[n]).successAt <= clock'
    BY <1>2, <2>1, <2>2, <2>4, CountTimes
  <2>6. NodeTimes'
    BY <1>1, <1>2, <1>3, <2>1, <2>3, <2>5, ReplaceTimes
  <2>. QED
    BY <1>3, <2>2, <2>6 DEF Times
<1>7. ASSUME NEW n \in Nodes, NEW automatic \in BOOLEAN, Begin(n, automatic),
             UNCHANGED <<result, node, disk>>
      PROVE  Times'
  <2>1. history' = [history EXCEPT ![n] = NewRun(n)]
    BY <1>7 DEF Begin
  <2>2. /\ NewRun(n).capturedAt = 0 /\ NewRun(n).measuredAt = 0
        /\ NewRun(n).completedAt = 0
    BY DEF NewRun
  <2>3. /\ NewRun(n).capturedAt <= clock' /\ NewRun(n).measuredAt <= clock'
        /\ NewRun(n).completedAt <= Now'
    BY <1>2, <2>2
  <2>4. HistoryTimes'
    BY <1>1, <1>2, <2>1, <2>3, ReplaceTimes
  <2>5. exec'.measuredAt = 0
    BY <1>7 DEF Begin
  <2>6. ExecTimes'
    BY <1>2, <2>5 DEF ExecTimes
  <2>. QED
    BY <1>3, <1>7, <2>4, <2>6 DEF Times
<1>8. ASSUME NEW n \in Nodes, StartManual(n) PROVE Times'
  BY <1>7, <1>8 DEF StartManual
<1>9. CASE BeginAutomatic
  <2>1. worker.node \in Nodes
    BY <1>9 DEF BeginAutomatic, Typed
  <2>. QED
    BY <1>7, <1>9, <2>1 DEF BeginAutomatic
<1>10. CASE EnterRuntime \/ Complete
  <2>1. HistoryTimes'
    BY <1>1, <1>10, RunTimes
  <2>2. UNCHANGED <<clock, result, node, disk>>
    BY <1>10 DEF EnterRuntime, Complete
  <2>3. /\ exec \in Exec
        /\ \/ exec' = [exec EXCEPT !.phase = "running"]
           \/ exec' = [exec EXCEPT !.phase = "completed"]
    BY <1>10 DEF EnterRuntime, Complete, Typed, TypeOK
  <2>4. exec'.measuredAt = exec.measuredAt
    BY <2>3 DEF Exec
  <2>5. ExecTimes'
    BY <2>2, <2>4 DEF Times, ExecTimes
  <2>. QED
    BY <1>3, <2>1, <2>2, <2>5 DEF Times
<1>11. CASE MeasureTunnel
  <2>1. UNCHANGED <<result, node, disk, history>> /\ clock' = clock + 1
    BY <1>11 DEF MeasureTunnel
  <2>2. exec'.measuredAt = clock + 1
    BY <1>11 DEF MeasureTunnel, Typed, TypeOK, Exec
  <2>3. ExecTimes'
    BY <1>2, <2>1, <2>2 DEF ExecTimes
  <2>. QED
    BY <1>3, <2>1, <2>3 DEF Times
<1>12. ASSUME NEW n \in Nodes, Expire(n) PROVE Times'
  <2>. DEFINE run == [history[n] EXCEPT !.aged = TRUE]
  <2>1. /\ history[n] # NoRun /\ history' = [history EXCEPT ![n] = run]
        /\ UNCHANGED <<clock, result, node, disk, exec>>
    BY <1>12 DEF Expire
  <2>2. history[n] \in Run
    BY <2>1, TypesAt
  <2>3. /\ run.capturedAt = history[n].capturedAt
        /\ run.measuredAt = history[n].measuredAt
        /\ run.completedAt = history[n].completedAt
    BY <2>2 DEF Run
  <2>4. /\ history[n].capturedAt <= clock /\ history[n].measuredAt <= clock
        /\ history[n].completedAt <= Now /\ Now' = Now
    BY <2>1 DEF Times, HistoryTimes, Now
  <2>. HIDE DEF run
  <2>5. HistoryTimes'
    BY <1>1, <1>2, <2>1, <2>3, <2>4, ReplaceTimes
  <2>. QED
    BY <1>3, <2>1, <2>5 DEF Times
<1>13. ASSUME NEW n \in Nodes, DNSMoved(n) PROVE Times'
  <2>. DEFINE nd == [node[n] EXCEPT !.failures = 0]
  <2>1. /\ node' = [node EXCEPT ![n] = nd]
        /\ UNCHANGED <<clock, result, disk, history, exec>>
    BY <1>13 DEF DNSMoved
  <2>2. nd.successAt = node[n].successAt
    BY TypesAt DEF Node
  <2>3. node[n].successAt <= clock
    BY DEF Times, NodeTimes
  <2>. HIDE DEF nd
  <2>4. NodeTimes'
    BY <1>1, <1>2, <2>1, <2>2, <2>3, ReplaceTimes
  <2>. QED
    BY <1>3, <2>1, <2>4 DEF Times
<1>14. ASSUME NEW n \in Nodes, NEW r \in Revs \cup {Absent}, Reload(n, r)
       PROVE  Times'
  <2>1. /\ result' = [result EXCEPT ![n] = NoResult]
        /\ node' = [node EXCEPT ![n] = Reloaded(node[n], r)]
        /\ UNCHANGED <<disk, history, exec>>
    BY <1>14 DEF Reload
  <2>2. Reloaded(node[n], r).successAt = node[n].successAt
    BY TypesAt, ReloadedFields
  <2>3. node[n].successAt <= clock /\ node[n].successAt \in Nat
    BY TimesAreNat DEF Times, NodeTimes
  <2>4. Reloaded(node[n], r).successAt <= clock'
    BY <1>1, <1>2, <2>2, <2>3
  <2>5. ResultTimes' /\ NodeTimes'
    BY <1>1, <1>2, <2>1, <2>4, ReplaceTimes
  <2>. QED
    BY <1>3, <2>1, <2>5 DEF Times
<1>15. CASE SaveResults
  <2>1. /\ disk' = [disk EXCEPT !.result = [n \in Nodes |-> Saved(result[n])]]
        /\ UNCHANGED <<clock, result, node, history, exec>>
    BY <1>15 DEF SaveResults
  <2>2. /\ disk'.node = disk.node
        /\ \A n \in Nodes : disk'.result[n] = Saved(result[n])
    BY <2>1 DEF Typed, TypeOK
  <2>3. ASSUME NEW n \in Nodes, Saved(result[n]) # NoResult
        PROVE  Saved(result[n]).at <= clock
    <3>1. result[n] # NoResult /\ result[n] \in Result
      BY <2>3, TypesAt DEF Saved
    <3>2. result[n].at \in Nat /\ result[n].at <= clock
      BY <3>1, TimesAreNat DEF Times, ResultTimes
    <3>3. Saved(result[n]).at = 2 * Sec(result[n].at)
      BY <3>1 DEF Saved, Result
    <3>4. Sec(result[n].at) \in Nat /\ 2 * Sec(result[n].at) <= result[n].at
      BY <3>2, SecIsNat
    <3>. QED
      BY <1>2, <3>2, <3>3, <3>4
  <2>4. DiskTimes'
    BY <2>1, <2>2, <2>3 DEF Times, DiskTimes
  <2>. QED
    BY <1>3, <2>1, <2>4 DEF Times
<1>16. CASE SaveMonitor
  <2>1. /\ disk'.result = disk.result /\ disk'.node = node
        /\ UNCHANGED <<clock, result, node, history, exec>>
    BY <1>16 DEF SaveMonitor, Typed, TypeOK
  <2>2. DiskTimes'
    BY <2>1 DEF Times, DiskTimes, NodeTimes
  <2>. QED
    BY <1>3, <2>1, <2>2 DEF Times
<1>17. ASSUME NEW g \in Recorders, Consider(g) \/ Mark(g) \/ Send(g)
       PROVE  UNCHANGED <<result, node, disk, history, exec>>
  BY <1>17 DEF Consider, Mark, Send
<1>18. CASE \/ Receive \/ Decide \/ Retry \/ Skip \/ FinishQueued
            \/ UNCHANGED vars \/ \E n \in Nodes : DropOutcome(n)
  <2>1. UNCHANGED <<result, node, disk, history, exec>>
    BY <1>18 DEF Receive, Decide, Retry, Skip, FinishQueued, DropOutcome, vars
  <2>. QED
    BY <1>4, <2>1
<1>19. Finish => Times'
  BY <1>1, FinishTimes
<1>20. Restart => Times'
  BY <1>1, RestartTimes
<1>. QED
  BY <1>4, <1>5, <1>6, <1>8, <1>9, <1>10, <1>11, <1>12, <1>13, <1>14, <1>15,
     <1>16, <1>17, <1>18, <1>19, <1>20, Zenon DEF Next

-----------------------------------------------------------------------------
(* What is shown is of the node's connection, and not older than what was  *)
(* saved: no result can be saved that a running measurement would put      *)
(* back.                                                                   *)

OfThisConnection ==
  \A n \in Nodes : result[n] # NoResult => result[n].rev = rev[n]

EvidenceIsNewer ==
  (/\ exec.phase \in {"running", "completed"}
   /\ exec.measuredAt > 0
   /\ result[exec.node] = NoResult
   /\ disk.result[exec.node] # NoResult)
  => disk.result[exec.node].at <= exec.measuredAt

Shown == OfThisConnection /\ EvidenceIsNewer /\ SavedNeverNewer

LEMMA InitShown == Init => Shown
PROOF
  BY DEF Init, Shown, OfThisConnection, EvidenceIsNewer, SavedNeverNewer, Idle

LEMMA KeepShown ==
  ASSUME Shown, UNCHANGED <<rev, result>>, disk'.result = disk.result,
         \/ ~(exec'.phase \in {"running", "completed"} /\ exec'.measuredAt > 0)
         \/ /\ exec.phase \in {"running", "completed"}
            /\ exec'.node = exec.node /\ exec'.measuredAt = exec.measuredAt
  PROVE  Shown'
PROOF
<1>1. OfThisConnection'
  BY DEF Shown, OfThisConnection
<1>2. SavedNeverNewer'
  BY DEF Shown, SavedNeverNewer
<1>3. EvidenceIsNewer'
  BY DEF Shown, EvidenceIsNewer
<1>. QED
  BY <1>1, <1>2, <1>3 DEF Shown

LEMMA CheckShown ==
  ASSUME Typed, Times, Shown, NEW g \in Recorders, NEW n \in Nodes,
         NEW o \in Outcomes[n], Check(g, n, o)
  PROVE  Shown'
PROOF
<1>. DEFINE r == [online |-> o.online, symptom |-> o.symptom,
                  at |-> clock + 1, rev |-> rev[n]]
<1>1. /\ result' = [result EXCEPT ![n] = r]
      /\ UNCHANGED <<rev, exec, disk>>
  BY DEF Check
<1>2. r.at = clock + 1 /\ r.rev = rev[n]
  OBVIOUS
<1>3. r # NoResult
  <2>1. r = result'[n] /\ result'[n] \in Result
    <3>1. /\ o.online \in BOOLEAN /\ o.symptom \in Symptoms \cup {NoSymptom}
          /\ clock + 1 \in Nat /\ rev[n] \in Revs
      <4>1. o \in Outcome
        BY DiagnosisAssumption
      <4>. QED
        BY <4>1, NowIsNat, TypesAt DEF Outcome, Check
    <3>2. r \in Result
      BY <3>1 DEF Result
    <3>. HIDE DEF r
    <3>. QED
      BY <1>1, <3>2 DEF Typed, TypeOK
  <2>. QED
    BY <2>1, DiagnosisAssumption
<1>. HIDE DEF r
<1>4. \A m \in Nodes : result'[m] = IF m = n THEN r ELSE result[m]
  BY <1>1 DEF Typed, TypeOK
<1>5. OfThisConnection'
  BY <1>1, <1>2, <1>4 DEF Shown, OfThisConnection
<1>6. EvidenceIsNewer'
  <2>1. exec.phase # "idle" => exec.node \in Nodes
    BY DEF Typed
  <2>. QED
    BY <1>1, <1>3, <1>4, <2>1 DEF Shown, EvidenceIsNewer
<1>7. SavedNeverNewer'
  <2>1. disk.result[n] # NoResult => Sec(disk.result[n].at) <= Sec(r.at)
    <3>1. clock \in Nat
      BY NowIsNat
    <3>2. disk.result[n] # NoResult =>
            disk.result[n].at \in Nat /\ disk.result[n].at <= clock
      BY TimesAreNat DEF Times, DiskTimes
    <3>3. r.at \in Nat /\ (disk.result[n] # NoResult =>
                             disk.result[n].at <= r.at)
      BY <1>2, <3>1, <3>2
    <3>. QED
      BY <3>2, <3>3, SecGrows
  <2>2. (disk.result[n] # NoResult => Sec(r.at) >= Sec(disk.result[n].at))
    <3>1. Sec(r.at) \in Nat
      BY <1>2, NowIsNat, SecIsNat
    <3>2. disk.result[n] # NoResult => Sec(disk.result[n].at) \in Nat
      BY TimesAreNat, SecIsNat
    <3>. QED
      BY <2>1, <3>1, <3>2
  <2>. QED
    BY <1>1, <1>4, <2>2 DEF Shown, SavedNeverNewer
<1>. QED
  BY <1>5, <1>6, <1>7 DEF Shown

LEMMA FinishShown ==
  ASSUME Typed, Running, Times, Shown, Finish
  PROVE  Shown'
PROOF
<1>. DEFINE n == exec.node
            run == history[n]
<1>1. /\ n \in Nodes /\ run \in Run /\ run # NoRun
      /\ rev[n] \in Revs \cup {Absent} /\ exec.phase = "completed"
  <2>1. exec.phase = "completed"
    BY DEF Finish
  <2>2. n \in Nodes /\ run # NoRun
    BY <2>1 DEF Typed
  <2>. QED
    BY <2>1, <2>2, TypesAt
<1>2. UNCHANGED <<rev, disk>> /\ exec'.phase = "idle"
  BY DEF Finish, Idle
<1>3. CASE ~Proves(run, rev[n], result[n])
  <2>1. UNCHANGED result
    BY <1>3 DEF Finish
  <2>. QED
    BY <1>2, <2>1, KeepShown
<1>4. CASE Proves(run, rev[n], result[n])
  <2>. DEFINE r == Evidence(run)
  <2>1. r \in Result /\ run.rev = rev[n]
    BY <1>1, <1>4, EvidenceIsResult
  <2>2. r.rev = run.rev /\ r.at = run.measuredAt
    BY DEF Evidence
  <2>3. result' = [result EXCEPT ![n] = r]
    BY <1>4 DEF Finish
  <2>4. run.measuredAt = exec.measuredAt /\ run.measuredAt > 0
    BY <1>1, <1>4 DEF Running, Proves
  <2>5. result[n] # NoResult => result[n].at <= run.measuredAt
    BY <1>4 DEF Proves
  <2>. HIDE DEF r
  <2>6. \A m \in Nodes : result'[m] = IF m = n THEN r ELSE result[m]
    BY <2>3 DEF Typed, TypeOK
  <2>7. OfThisConnection'
    BY <1>2, <2>1, <2>2, <2>6 DEF Shown, OfThisConnection
  <2>8. EvidenceIsNewer'
    BY <1>2 DEF EvidenceIsNewer
  <2>9. ASSUME disk.result[n] # NoResult, disk.result[n].rev = r.rev
        PROVE  Sec(r.at) >= Sec(disk.result[n].at)
    <3>1. r.at \in Nat /\ disk.result[n].at \in Nat
      BY <1>1, <2>2, <2>9, TimesAreNat
    <3>2. Sec(r.at) \in Nat /\ Sec(disk.result[n].at) \in Nat
      BY <3>1, SecIsNat
    <3>3. CASE result[n] = NoResult
      <4>1. disk.result[n].at <= r.at
        BY <1>1, <2>2, <2>4, <2>9, <3>3 DEF Shown, EvidenceIsNewer
      <4>2. Sec(disk.result[n].at) <= Sec(r.at)
        BY <3>1, <4>1, SecGrows
      <4>. QED
        BY <3>2, <4>2
    <3>4. CASE result[n] # NoResult
      <4>1. result[n].rev = rev[n] /\ result[n].at \in Nat
        BY <1>1, <3>4, TimesAreNat DEF Shown, OfThisConnection
      <4>2. Sec(result[n].at) >= Sec(disk.result[n].at)
        BY <1>1, <2>1, <2>2, <2>9, <3>4, <4>1 DEF Shown, SavedNeverNewer
      <4>3. Sec(result[n].at) <= Sec(r.at) /\ Sec(result[n].at) \in Nat
        BY <2>2, <2>5, <3>1, <3>4, <4>1, SecGrows, SecIsNat
      <4>. QED
        BY <3>2, <4>2, <4>3
    <3>. QED
      BY <3>3, <3>4
  <2>10. SavedNeverNewer'
    BY <1>2, <2>6, <2>9 DEF Shown, SavedNeverNewer
  <2>. QED
    BY <2>7, <2>8, <2>10 DEF Shown
<1>. QED
  BY <1>3, <1>4

LEMMA SaveShown ==
  ASSUME Typed, Shown, SaveResults
  PROVE  Shown'
PROOF
<1>1. /\ UNCHANGED <<rev, result, exec>>
      /\ \A n \in Nodes : disk'.result[n] = Saved(result[n])
  BY DEF SaveResults, Typed, TypeOK
<1>2. OfThisConnection'
  BY <1>1 DEF Shown, OfThisConnection
<1>3. EvidenceIsNewer'
  <2>1. exec.phase # "idle" => exec.node \in Nodes
    BY DEF Typed
  <2>. QED
    BY <1>1, <2>1 DEF EvidenceIsNewer, Saved
<1>4. ASSUME NEW n \in Nodes, disk'.result[n] # NoResult, result[n] # NoResult
      PROVE  Sec(result[n].at) >= Sec(disk'.result[n].at)
  <2>1. result[n] \in Result /\ result[n].at \in Nat
    BY <1>4, TypesAt, TimesAreNat
  <2>2. disk'.result[n].at = 2 * Sec(result[n].at)
    BY <1>1, <1>4, <2>1 DEF Saved, Result
  <2>3. Sec(result[n].at) \in Nat
    BY <2>1, SecIsNat
  <2>4. Sec(2 * Sec(result[n].at)) = Sec(result[n].at)
    <3>. DEFINE s == Sec(result[n].at)
    <3>1. s \in Nat
      BY <2>3
    <3>. HIDE DEF s
    <3>2. (2 * s) \div 2 = s
      BY <3>1
    <3>3. Sec(2 * s) = s
      BY <3>2 DEF Sec
    <3>. QED
      BY <3>3 DEF s
  <2>. QED
    BY <2>2, <2>3, <2>4
<1>5. SavedNeverNewer'
  BY <1>1, <1>4 DEF SavedNeverNewer
<1>. QED
  BY <1>2, <1>3, <1>5 DEF Shown

LEMMA RestartShown ==
  ASSUME Typed, Shown, Restart
  PROVE  Shown'
PROOF
<1>. DEFINE second == Now + 1
            Repaired(n) == /\ RestoredRun(n, second) # NoRun
                           /\ Proves(RestoredRun(n, second), rev[n],
                                     RestoredResult(n))
<1>1. /\ result' = [n \in Nodes |-> IF Repaired(n) THEN Evidence(history[n])
                                    ELSE RestoredResult(n)]
      /\ UNCHANGED <<rev, disk>> /\ exec'.phase = "idle"
  BY DEF Restart, Idle
<1>2. second \in Nat
  BY NowIsNat
<1>3. ASSUME NEW n \in Nodes, Repaired(n)
      PROVE  /\ Evidence(history[n]).rev = rev[n]
             /\ Evidence(history[n]).at \in Nat
             /\ RestoredResult(n) # NoResult =>
                  RestoredResult(n).at <= Evidence(history[n]).at
  <2>1. history[n] # NoRun
    BY <1>3 DEF RestoredRun
  <2>2. /\ RestoredRun(n, second) \in Run /\ rev[n] \in Revs \cup {Absent}
    BY <1>2, <1>3, RestoredTyped, TypesAt
  <2>3. RestoredRun(n, second).rev = rev[n]
    BY <1>3, <2>2, EvidenceIsResult
  <2>4. /\ RestoredRun(n, second).rev = history[n].rev
        /\ RestoredRun(n, second).measuredAt = history[n].measuredAt
    BY <1>2, <2>1, RestoredRunKeeps
  <2>5. RestoredResult(n) # NoResult =>
          RestoredResult(n).at <= RestoredRun(n, second).measuredAt
    BY <1>3 DEF Proves
  <2>6. /\ Evidence(history[n]).rev = history[n].rev
        /\ Evidence(history[n]).at = history[n].measuredAt
    BY DEF Evidence
  <2>7. history[n].measuredAt \in Nat
    BY <2>1, TimesAreNat
  <2>. QED
    BY <2>3, <2>4, <2>5, <2>6, <2>7
<1>. HIDE DEF Repaired, second
<1>4. \A n \in Nodes : RestoredResult(n) # NoResult =>
        /\ RestoredResult(n) = disk.result[n]
        /\ disk.result[n].rev = rev[n]
  BY DEF RestoredResult
<1>5. OfThisConnection'
  BY <1>1, <1>3, <1>4 DEF OfThisConnection
<1>6. EvidenceIsNewer'
  BY <1>1 DEF EvidenceIsNewer
<1>7. ASSUME NEW n \in Nodes, disk.result[n] # NoResult, result'[n] # NoResult,
             disk.result[n].rev = result'[n].rev
      PROVE  Sec(result'[n].at) >= Sec(disk.result[n].at)
  <2>1. disk.result[n].at \in Nat /\ Sec(disk.result[n].at) \in Nat
    BY <1>7, TimesAreNat, SecIsNat
  <2>2. CASE Repaired(n)
    <3>1. result'[n] = Evidence(history[n])
      BY <1>1, <2>2
    <3>2. RestoredResult(n) = disk.result[n]
      BY <1>3, <1>7, <2>2, <3>1 DEF RestoredResult
    <3>3. disk.result[n].at <= result'[n].at /\ result'[n].at \in Nat
      BY <1>3, <1>7, <2>2, <3>1, <3>2
    <3>4. /\ Sec(disk.result[n].at) <= Sec(result'[n].at)
          /\ Sec(result'[n].at) \in Nat
      BY <2>1, <3>3, SecGrows, SecIsNat
    <3>. QED
      BY <2>1, <3>4
  <2>3. CASE ~Repaired(n)
    <3>1. result'[n] = disk.result[n]
      BY <1>1, <1>4, <1>7, <2>3
    <3>. QED
      BY <2>1, <3>1
  <2>. QED
    BY <2>2, <2>3
<1>8. SavedNeverNewer'
  BY <1>1, <1>7 DEF SavedNeverNewer
<1>. QED
  BY <1>5, <1>6, <1>8 DEF Shown

LEMMA NextShown == Typed /\ Running /\ Times /\ Shown /\ [Next]_vars => Shown'
PROOF
<1>. SUFFICES ASSUME Typed, Running, Times, Shown, [Next]_vars PROVE Shown'
  OBVIOUS
<1>1. CASE UNCHANGED <<rev, result, disk, exec>>
  BY <1>1, KeepShown
<1>2. ASSUME NEW n \in Nodes, NEW automatic \in BOOLEAN, Begin(n, automatic),
             UNCHANGED <<rev, result, disk>>
      PROVE  Shown'
  <2>1. exec'.phase = "begun"
    BY <1>2 DEF Begin
  <2>. QED
    BY <1>2, <2>1, KeepShown
<1>3. ASSUME NEW n \in Nodes, StartManual(n) PROVE Shown'
  BY <1>2, <1>3 DEF StartManual
<1>4. CASE BeginAutomatic
  <2>1. worker.node \in Nodes
    BY <1>4 DEF BeginAutomatic, Typed
  <2>. QED
    BY <1>2, <1>4, <2>1 DEF BeginAutomatic
<1>5. CASE EnterRuntime \/ Complete
  <2>1. /\ UNCHANGED <<rev, result, disk>> /\ exec \in Exec
        /\ \/ exec' = [exec EXCEPT !.phase = "running"]
           \/ exec' = [exec EXCEPT !.phase = "completed"]
    BY <1>5 DEF EnterRuntime, Complete, Typed, TypeOK
  <2>2. exec'.measuredAt = exec.measuredAt /\ exec'.node = exec.node
    BY <2>1 DEF Exec
  <2>3. exec.measuredAt = 0 \/ exec.phase = "running"
    BY <1>5 DEF EnterRuntime, Complete, Running
  <2>4. ~(0 > 0)
    OBVIOUS
  <2>. QED
    BY <2>1, <2>2, <2>3, <2>4, KeepShown
<1>6. CASE MeasureTunnel
  <2>1. /\ UNCHANGED <<rev, result, disk>> /\ exec \in Exec
        /\ exec' = [exec EXCEPT !.measuredAt = clock + 1]
        /\ exec.phase = "running"
    BY <1>6 DEF MeasureTunnel, Typed, TypeOK
  <2>2. exec'.measuredAt = clock + 1 /\ exec'.node = exec.node
    BY <2>1 DEF Exec
  <2>3. OfThisConnection' /\ SavedNeverNewer'
    BY <2>1 DEF Shown, OfThisConnection, SavedNeverNewer
  <2>4. exec.node \in Nodes
    BY <2>1 DEF Typed
  <2>5. disk.result[exec.node] # NoResult =>
          /\ disk.result[exec.node].at \in Nat
          /\ disk.result[exec.node].at <= clock
    BY <2>4, TimesAreNat DEF Times, DiskTimes
  <2>6. clock \in Nat
    BY NowIsNat
  <2>7. disk.result[exec.node] # NoResult =>
          disk.result[exec.node].at <= clock + 1
    BY <2>5, <2>6
  <2>8. EvidenceIsNewer'
    BY <2>1, <2>2, <2>7 DEF EvidenceIsNewer
  <2>. QED
    BY <2>3, <2>8 DEF Shown
<1>7. ASSUME NEW n \in Nodes, NEW r \in Revs \cup {Absent}, Reload(n, r)
      PROVE  Shown'
  <2>1. /\ \A m \in Nodes :
             /\ result'[m] = IF m = n THEN NoResult ELSE result[m]
             /\ m # n => rev'[m] = rev[m]
        /\ UNCHANGED <<disk, exec>> /\ exec.phase \in {"idle", "begun"}
    BY <1>7 DEF Reload, Typed, TypeOK
  <2>2. OfThisConnection' /\ SavedNeverNewer' /\ EvidenceIsNewer'
    BY <2>1 DEF Shown, OfThisConnection, SavedNeverNewer, EvidenceIsNewer
  <2>. QED
    BY <2>2 DEF Shown
<1>8. CASE SaveMonitor
  <2>1. disk'.result = disk.result /\ UNCHANGED <<rev, result, exec>>
    BY <1>8 DEF SaveMonitor, Typed, TypeOK
  <2>. QED
    BY <2>1, KeepShown
<1>9. ASSUME NEW g \in Recorders,
             Record(g) \/ Consider(g) \/ Mark(g) \/ Send(g)
      PROVE  UNCHANGED <<rev, result, disk, exec>>
  BY <1>9 DEF Record, Consider, Mark, Send
<1>10. ASSUME NEW n \in Nodes, DropOutcome(n) \/ Expire(n) \/ DNSMoved(n)
       PROVE  UNCHANGED <<rev, result, disk, exec>>
  BY <1>10 DEF DropOutcome, Expire, DNSMoved, vars
<1>11. CASE \/ Receive \/ Decide \/ Retry \/ Skip \/ FinishQueued
            \/ UNCHANGED vars
  <2>1. UNCHANGED <<rev, result, disk, exec>>
    BY <1>11 DEF Receive, Decide, Retry, Skip, FinishQueued, vars
  <2>. QED
    BY <1>1, <2>1
<1>12. ASSUME NEW g \in Recorders, NEW n \in Nodes, NEW o \in Outcomes[n],
              Check(g, n, o)
       PROVE  Shown'
  BY <1>12, CheckShown
<1>13. Finish \/ SaveResults \/ Restart => Shown'
  BY FinishShown, SaveShown, RestartShown
<1>. QED
  BY <1>1, <1>3, <1>4, <1>5, <1>6, <1>7, <1>8, <1>9, <1>10, <1>11, <1>12,
     <1>13, Zenon DEF Next

-----------------------------------------------------------------------------
(* A report that speaks of an outage, and what a repair history may say    *)
(* next to it.                                                             *)

Telling(run) ==
  /\ run # NoRun
  /\ \/ run.state = "running"
     \/ run.state = "completed" /\ run.verdict = "failed"

Past(run, second) == run.state = "completed" /\ second > run.completedAt

(* A success since the outage was read is after the report, or the outage  *)
(* is over in the numbering too, or the numbering is another one.          *)
Fits(run, nd) ==
  \/ nd.since > run.capturedAt
  \/ nd.successAt <= run.capturedAt
  \/ Past(run, Sec(nd.successAt))
  \/ /\ nd.episode >= run.episode
     /\ nd.failures > 0 => nd.episode > run.episode

(* Nothing that is counted from here on can be taken for the outage.       *)
Reaches(run, nd, second) == nd.episode >= run.episode \/ Past(run, second)

Outages ==
  /\ \A n \in Nodes : Telling(history[n]) =>
       /\ history[n].episode \in Nat
       /\ Fits(history[n], node[n])
       /\ disk.node[n] # NoNode => Fits(history[n], disk.node[n])
       /\ Reaches(history[n], node[n], Now)
  /\ \A g \in Recorders :
       hand[g].phase = "stored" /\ Telling(history[hand[g].node]) =>
         Reaches(history[hand[g].node], node[hand[g].node],
                 Sec(result[hand[g].node].at))

LEMMA InitOutages == Init => Outages
PROOF
  BY DEF Init, Outages, Telling, Free

LEMMA PastGrows ==
  ASSUME NEW run \in Run, NEW s \in Nat, NEW t \in Nat, s <= t, Past(run, s)
  PROVE  Past(run, t)
PROOF
  BY DEF Past, Run

LEMMA FitsCount ==
  ASSUME NEW run \in Run, run.episode \in Nat, NEW nd \in Node,
         NEW r \in Result, Fits(run, nd), Reaches(run, nd, Sec(r.at))
  PROVE  Fits(run, Count(nd, r)) /\ Count(nd, r).episode >= nd.episode
PROOF
<1>. DEFINE after == Count(nd, r)
<1>1. /\ nd.episode \in Nat /\ nd.failures \in 0..2 /\ nd.since \in Nat
      /\ nd.successAt \in Nat /\ run.capturedAt \in Nat
  BY DEF Node, Run
<1>2. /\ after.successAt = IF r.online THEN r.at ELSE nd.successAt
      /\ after.episode = IF ~r.online /\ nd.failures = 0
                         THEN nd.episode + 1 ELSE nd.episode
      /\ r.online => after.failures = 0
      /\ after.since = nd.since
  BY CountFields
<1>. HIDE DEF after
<1>3. after.episode >= nd.episode
  BY <1>1, <1>2
<1>4. ASSUME r.online PROVE Fits(run, after)
  <2>1. /\ after.successAt = r.at /\ after.failures = 0
        /\ after.episode = nd.episode
    BY <1>2, <1>4
  <2>2. CASE Past(run, Sec(r.at))
    BY <2>1, <2>2 DEF Fits
  <2>3. CASE nd.episode >= run.episode
    BY <2>1, <2>3 DEF Fits
  <2>. QED
    BY <2>2, <2>3 DEF Reaches
<1>5. ASSUME ~r.online PROVE Fits(run, after)
  <2>1. after.successAt = nd.successAt
    BY <1>2, <1>5
  <2>2. CASE /\ nd.episode >= run.episode
             /\ nd.failures > 0 => nd.episode > run.episode
    <3>1. after.episode > run.episode
      BY <1>1, <1>2, <1>5, <2>2
    <3>2. after.episode >= run.episode
      BY <1>1, <1>3, <2>2, <1>2
    <3>. QED
      BY <3>1, <3>2 DEF Fits
  <2>3. CASE ~(/\ nd.episode >= run.episode
               /\ nd.failures > 0 => nd.episode > run.episode)
    BY <1>2, <2>1, <2>3 DEF Fits
  <2>. QED
    BY <2>2, <2>3
<1>. QED
  BY <1>3, <1>4, <1>5 DEF after

LEMMA FitsReset ==
  ASSUME NEW run \in Run, NEW nd \in Node, NEW after,
         after.successAt = nd.successAt, after.episode = nd.episode,
         after.since = nd.since, after.failures \in {0, nd.failures},
         Fits(run, nd)
  PROVE  Fits(run, after)
PROOF
  BY DEF Fits

(* A step on one node.                                                     *)
LEMMA StepOutages ==
  ASSUME Typed, Outages, NEW n \in Nodes,
         Now' \in Nat, Now <= Now', disk'.node = disk.node,
         \A m \in Nodes \ {n} : /\ history'[m] = history[m]
                                /\ node'[m] = node[m]
                                /\ result'[m] = result[m],
         \A g \in Recorders : hand'[g].phase = "stored" => hand'[g] = hand[g],
         Telling(history'[n]) =>
           /\ history'[n].episode \in Nat
           /\ Fits(history'[n], node'[n])
           /\ disk.node[n] # NoNode => Fits(history'[n], disk.node[n])
           /\ Reaches(history'[n], node'[n], Now')
           /\ \A g \in Recorders :
                hand[g].phase = "stored" /\ hand[g].node = n =>
                  Reaches(history'[n], node'[n], Sec(result'[n].at))
  PROVE  Outages'
PROOF
<1>1. ASSUME NEW m \in Nodes, Telling(history'[m])
      PROVE  /\ history'[m].episode \in Nat
             /\ Fits(history'[m], node'[m])
             /\ disk'.node[m] # NoNode => Fits(history'[m], disk'.node[m])
             /\ Reaches(history'[m], node'[m], Now')
  <2>1. CASE m = n
    BY <1>1, <2>1
  <2>2. CASE m # n
    <3>1. history'[m] = history[m] /\ node'[m] = node[m]
      BY <2>2
    <3>2. /\ history[m].episode \in Nat
          /\ Fits(history[m], node[m])
          /\ disk.node[m] # NoNode => Fits(history[m], disk.node[m])
          /\ Reaches(history[m], node[m], Now)
      BY <1>1, <3>1 DEF Outages
    <3>3. history[m] \in Run
      BY <1>1, <3>1, TypesAt DEF Telling
    <3>4. Reaches(history[m], node[m], Now')
      BY <3>2, <3>3, NowIsNat, PastGrows DEF Reaches
    <3>. QED
      BY <3>1, <3>2, <3>4
  <2>. QED
    BY <2>1, <2>2
<1>2. ASSUME NEW g \in Recorders, hand'[g].phase = "stored",
             Telling(history'[hand'[g].node])
      PROVE  Reaches(history'[hand'[g].node], node'[hand'[g].node],
                     Sec(result'[hand'[g].node].at))
  <2>1. /\ hand'[g] = hand[g] /\ hand[g].phase = "stored"
        /\ hand[g].node \in Nodes
    BY <1>2 DEF Typed
  <2>2. CASE hand[g].node = n
    BY <1>2, <2>1, <2>2
  <2>3. CASE hand[g].node # n
    BY <1>2, <2>1, <2>3 DEF Outages
  <2>. QED
    BY <2>2, <2>3
<1>. QED
  BY <1>1, <1>2 DEF Outages

LEMMA KeepOutages ==
  ASSUME Typed, Outages, Now' \in Nat, Now <= Now',
         UNCHANGED <<history, node, result>>, disk'.node = disk.node,
         \A g \in Recorders : hand'[g].phase = "stored" => hand'[g] = hand[g]
  PROVE  Outages'
PROOF
<1>1. CASE Nodes = {}
  <2>1. \A g \in Recorders : hand'[g].phase # "stored"
    BY <1>1 DEF Typed
  <2>. QED
    BY <1>1, <2>1 DEF Outages
<1>2. ASSUME NEW n \in Nodes PROVE Outages'
  <2>1. Telling(history[n]) =>
          /\ history[n].episode \in Nat
          /\ Fits(history[n], node[n])
          /\ disk.node[n] # NoNode => Fits(history[n], disk.node[n])
          /\ Reaches(history[n], node[n], Now)
          /\ \A g \in Recorders :
               hand[g].phase = "stored" /\ hand[g].node = n =>
                 Reaches(history[n], node[n], Sec(result[n].at))
    BY DEF Outages
  <2>2. Telling(history[n]) => Reaches(history[n], node[n], Now')
    <3>1. Telling(history[n]) => history[n] \in Run
      BY TypesAt DEF Telling
    <3>. QED
      BY <2>1, <3>1, NowIsNat, PastGrows DEF Reaches
  <2>. QED
    BY <2>1, <2>2, StepOutages
<1>. QED
  BY <1>1, <1>2

(* What Outages says of one node.                                          *)
LEMMA OutageAt ==
  ASSUME Typed, Outages, NEW n \in Nodes, Telling(history[n])
  PROVE  /\ history[n] \in Run
         /\ history[n].episode \in Nat
         /\ Fits(history[n], node[n])
         /\ disk.node[n] # NoNode => Fits(history[n], disk.node[n])
         /\ Reaches(history[n], node[n], Now)
         /\ \A g \in Recorders :
              hand[g].phase = "stored" /\ hand[g].node = n =>
                Reaches(history[n], node[n], Sec(result[n].at))
PROOF
<1>1. history[n] \in Run
  BY TypesAt DEF Telling
<1>. QED
  BY <1>1 DEF Outages

LEMMA CheckOutages ==
  ASSUME Typed, Typed', Outages, NEW h \in Recorders, NEW n \in Nodes,
         NEW o \in Outcomes[n], Check(h, n, o)
  PROVE  Outages'
PROOF
<1>1. /\ UNCHANGED <<history, node, disk>> /\ clock' = clock + 1
      /\ result'[n].at = clock'
      /\ \A m \in Nodes \ {n} : result'[m] = result[m]
      /\ hand'[h] = [phase |-> "stored", node |-> n]
      /\ \A g \in Recorders \ {h} : hand'[g] = hand[g]
  BY DEF Check, Typed, TypeOK
<1>2. /\ clock \in Nat /\ Now \in Nat /\ clock' \in Nat /\ Now' \in Nat
      /\ Now <= Now'
  <2>1. clock \in Nat /\ Now \in Nat /\ clock' \in Nat /\ Now' \in Nat
    BY NowIsNat, NextNowIsNat
  <2>2. clock <= clock'
    BY <1>1, <2>1
  <2>. QED
    BY <2>1, <2>2, SecGrows DEF Now
<1>3. Sec(result'[n].at) = Now'
  BY <1>1 DEF Now
<1>4. ASSUME NEW m \in Nodes, Telling(history[m])
      PROVE  Reaches(history[m], node[m], Now')
  BY <1>2, <1>4, OutageAt, PastGrows DEF Reaches
<1>5. ASSUME NEW m \in Nodes, Telling(history'[m])
      PROVE  /\ history'[m].episode \in Nat
             /\ Fits(history'[m], node'[m])
             /\ disk'.node[m] # NoNode => Fits(history'[m], disk'.node[m])
             /\ Reaches(history'[m], node'[m], Now')
  BY <1>1, <1>4, <1>5, OutageAt
<1>6. ASSUME NEW g \in Recorders, hand'[g].phase = "stored",
             Telling(history'[hand'[g].node])
      PROVE  Reaches(history'[hand'[g].node], node'[hand'[g].node],
                     Sec(result'[hand'[g].node].at))
  <2>1. CASE hand'[g].node = n
    BY <1>1, <1>3, <1>4, <1>6, <2>1
  <2>2. CASE hand'[g].node # n
    <3>1. g # h
      BY <1>1, <2>2
    <3>2. hand'[g] = hand[g] /\ hand[g].node \in Nodes
      BY <1>1, <1>6, <3>1 DEF Typed
    <3>. QED
      BY <1>1, <1>6, <2>2, <3>2, OutageAt
  <2>. QED
    BY <2>1, <2>2
<1>. QED
  BY <1>5, <1>6 DEF Outages

LEMMA RecordOutages ==
  ASSUME Typed, Outages, NEW h \in Recorders, Record(h)
  PROVE  Outages'
PROOF
<1>. DEFINE n == hand[h].node
<1>1. /\ n \in Nodes /\ result[n] \in Result /\ node[n] \in Node
      /\ hand[h].phase = "stored"
  <2>1. n \in Nodes /\ result[n] # NoResult /\ hand[h].phase = "stored"
    BY DEF Record, Typed
  <2>. QED
    BY <2>1, TypesAt
<1>2. /\ UNCHANGED <<clock, history, result, disk>>
      /\ UNCHANGED node
           \/ node' = [node EXCEPT ![n] = Count(node[n], result[n])]
  BY DEF Record
<1>3. Now' \in Nat /\ Now <= Now' /\ Now' = Now
  BY <1>2, NowIsNat DEF Now
<1>4. \A m \in Nodes \ {n} : node'[m] = node[m]
  BY <1>2 DEF Typed, TypeOK
<1>5. node'[n] = node[n] \/ node'[n] = Count(node[n], result[n])
  BY <1>1, <1>2 DEF Typed, TypeOK
<1>6. \A g \in Recorders : hand'[g].phase = "stored" => hand'[g] = hand[g]
  <2>1. hand'[h].phase # "stored"
    BY <1>1 DEF Record, Free, Typed, TypeOK, Hand
  <2>2. \A g \in Recorders \ {h} : hand'[g] = hand[g]
    BY DEF Record, Typed, TypeOK
  <2>. QED
    BY <2>1, <2>2
<1>7. ASSUME Telling(history[n])
      PROVE  /\ history[n].episode \in Nat
             /\ Fits(history[n], node'[n])
             /\ disk.node[n] # NoNode => Fits(history[n], disk.node[n])
             /\ Reaches(history[n], node'[n], Now')
             /\ \A g \in Recorders :
                  hand[g].phase = "stored" /\ hand[g].node = n =>
                    Reaches(history[n], node'[n], Sec(result[n].at))
  <2>1. /\ history[n] \in Run /\ history[n].episode \in Nat
        /\ Fits(history[n], node[n])
        /\ disk.node[n] # NoNode => Fits(history[n], disk.node[n])
        /\ Reaches(history[n], node[n], Now)
        /\ Reaches(history[n], node[n], Sec(result[n].at))
    BY <1>1, <1>7, OutageAt
  <2>2. /\ Fits(history[n], Count(node[n], result[n]))
        /\ Count(node[n], result[n]).episode >= node[n].episode
    BY <1>1, <2>1, FitsCount
  <2>3. /\ node[n].episode \in Nat
        /\ Count(node[n], result[n]).episode \in Nat
    BY <1>1, CountIsNode DEF Node
  <2>4. node'[n].episode \in Nat /\ node'[n].episode >= node[n].episode
    BY <1>5, <2>2, <2>3
  <2>5. \A s : Reaches(history[n], node[n], s) =>
          Reaches(history[n], node'[n], s)
    BY <2>1, <2>3, <2>4 DEF Reaches
  <2>6. Fits(history[n], node'[n])
    BY <1>5, <2>1, <2>2
  <2>. QED
    BY <1>3, <2>1, <2>5, <2>6
<1>. HIDE DEF n
<1>. QED
  BY <1>1, <1>2, <1>3, <1>4, <1>6, <1>7, StepOutages

(* A report that tells of no outage asks nothing.                          *)
LEMMA SilentOutages ==
  ASSUME Typed, Outages, NEW n \in Nodes, Now' \in Nat, Now <= Now',
         UNCHANGED <<disk, hand>>, ~Telling(history'[n]),
         \A m \in Nodes \ {n} : /\ history'[m] = history[m]
                                /\ node'[m] = node[m]
                                /\ result'[m] = result[m]
  PROVE  Outages'
PROOF
  BY StepOutages

LEMMA EnterOutages ==
  ASSUME Typed, Times, Outages, EnterRuntime
  PROVE  Outages'
PROOF
<1>. DEFINE n == exec.node
<1>1. n \in Nodes /\ history[n] \in Run /\ node[n] \in Node
  <2>1. n \in Nodes /\ history[n] # NoRun
    BY DEF EnterRuntime, Typed
  <2>. QED
    BY <2>1, TypesAt
<1>2. /\ UNCHANGED <<clock, node, result, disk, hand>>
      /\ \A m \in Nodes \ {n} : history'[m] = history[m]
  BY DEF EnterRuntime, Replace, Typed, TypeOK
<1>3. Now' \in Nat /\ Now <= Now' /\ clock \in Nat
  BY <1>2, NowIsNat DEF Now
<1>4. CASE rev[n] = Absent
  <2>1. history'[n] = Completed(history[n], "inconclusive")
    BY <1>1, <1>4 DEF EnterRuntime, Replace, Typed, TypeOK
  <2>2. ~Telling(history'[n])
    BY <1>1, <2>1 DEF Telling, Completed, Run
  <2>. HIDE DEF n
  <2>. QED
    BY <1>1, <1>2, <1>3, <2>2, SilentOutages
<1>5. CASE rev[n] # Absent
  <2>1. history'[n] = [history[n] EXCEPT
                 !.state = "running", !.rev = rev[n],
                 !.episode = node[n].episode, !.symptom = node[n].symptom,
                 !.capturedAt = clock]
    BY <1>1, <1>5 DEF EnterRuntime, Replace, Typed, TypeOK
  <2>2. /\ history'[n].episode = node[n].episode
        /\ history'[n].capturedAt = clock
    BY <1>1, <2>1 DEF Run
  <2>3. node[n].episode \in Nat /\ node[n].episode >= node[n].episode
    BY <1>1 DEF Node
  <2>4. /\ node[n].successAt <= clock
        /\ disk.node[n] # NoNode => disk.node[n].successAt <= clock
    BY <1>1 DEF Times, NodeTimes, DiskTimes
  <2>. HIDE DEF n
  <2>5. /\ Fits(history'[n], node[n])
        /\ disk.node[n] # NoNode => Fits(history'[n], disk.node[n])
    BY <2>2, <2>4 DEF Fits
  <2>6. \A s : Reaches(history'[n], node[n], s)
    BY <2>2, <2>3 DEF Reaches
  <2>. QED
    BY <1>1, <1>2, <1>3, <2>2, <2>3, <2>5, <2>6, StepOutages
<1>. QED
  BY <1>4, <1>5

LEMMA CompleteOutages ==
  ASSUME Typed, Running, Outages, Complete
  PROVE  Outages'
PROOF
<1>. DEFINE n == exec.node
<1>1. n \in Nodes /\ history[n] \in Run /\ history[n].state = "running"
  <2>1. n \in Nodes /\ history[n] # NoRun /\ history[n].state = "running"
    BY DEF Complete, Typed, Running
  <2>. QED
    BY <2>1, TypesAt
<1>2. UNCHANGED <<clock, node, result, disk, hand>>
  BY DEF Complete
<1>3. Now' \in Nat /\ Now <= Now'
  BY <1>2, NowIsNat DEF Now
<1>4. \A m \in Nodes \ {n} : history'[m] = history[m]
  BY CompleteRunning
<1>5. PICK v \in {"works", "failed", "inconclusive"} :
        history'[n] = [history[n] EXCEPT !.measuredAt = exec.measuredAt,
                         !.state = "completed", !.verdict = v,
                         !.completedAt = Now]
  BY CompleteRunning
<1>6. /\ history'[n].episode = history[n].episode
      /\ history'[n].capturedAt = history[n].capturedAt
  BY <1>1, <1>5 DEF Run
<1>7. Telling(history[n])
  BY <1>1, DiagnosisAssumption DEF Telling
<1>8. \A s : ~Past(history[n], s)
  BY <1>1 DEF Past
<1>9. /\ history[n].episode \in Nat
      /\ Fits(history[n], node[n])
      /\ disk.node[n] # NoNode => Fits(history[n], disk.node[n])
      /\ Reaches(history[n], node[n], Now)
  BY <1>1, <1>7, OutageAt
<1>10. \A nd : Fits(history[n], nd) => Fits(history'[n], nd)
  BY <1>6, <1>8 DEF Fits
<1>11. \A s : Reaches(history'[n], node[n], s)
  BY <1>6, <1>8, <1>9 DEF Reaches
<1>. HIDE DEF n
<1>. QED
  BY <1>1, <1>2, <1>3, <1>4, <1>6, <1>9, <1>10, <1>11, StepOutages

LEMMA FinishOutages ==
  ASSUME Typed, Running, Outages, Finish
  PROVE  Outages'
PROOF
<1>. DEFINE n == exec.node
<1>1. /\ n \in Nodes /\ history[n] # NoRun /\ history[n].state = "completed"
  BY DEF Finish, Typed, Running, UnfinishedIsRunning
<1>2. UNCHANGED <<clock, history, disk, hand>>
  BY DEF Finish
<1>3. Now' \in Nat /\ Now <= Now'
  BY <1>2, NowIsNat DEF Now
<1>4. CASE Proves(history[n], rev[n], result[n])
  <2>1. /\ result' = [result EXCEPT ![n] = Evidence(history[n])]
        /\ node' = [node EXCEPT ![n] = CountNews(@, Evidence(history[n]))]
    BY <1>4 DEF Finish
  <2>2. \A m \in Nodes \ {n} : node'[m] = node[m] /\ result'[m] = result[m]
    BY <2>1 DEF Typed, TypeOK
  <2>3. ~(0 > 0)
    OBVIOUS
  <2>4. history[n].measuredAt # 0
    BY <1>4, <2>3 DEF Proves
  <2>5. ~Telling(history[n])
    BY <1>1, <2>4 DEF Telling, Running
  <2>. HIDE DEF n
  <2>. QED
    BY <1>1, <1>2, <1>3, <2>2, <2>5, SilentOutages
<1>5. CASE ~Proves(history[n], rev[n], result[n])
  <2>1. UNCHANGED <<result, node>>
    BY <1>5 DEF Finish
  <2>. QED
    BY <1>2, <1>3, <2>1, KeepOutages
<1>. QED
  BY <1>4, <1>5

LEMMA BeginOutages ==
  ASSUME Typed, Outages, NEW n \in Nodes, NEW automatic \in BOOLEAN,
         Begin(n, automatic), Now' \in Nat, Now <= Now',
         UNCHANGED <<node, result, disk, hand>>
  PROVE  Outages'
PROOF
<1>1. history' = [history EXCEPT ![n] = NewRun(n)]
  BY DEF Begin
<1>2. /\ history'[n] = NewRun(n)
      /\ \A m \in Nodes \ {n} : history'[m] = history[m]
  BY <1>1 DEF Typed, TypeOK
<1>3. ~Telling(history'[n])
  BY <1>2 DEF Telling, NewRun
<1>. QED
  BY <1>2, <1>3, SilentOutages

LEMMA ExpireOutages ==
  ASSUME Typed, Outages, NEW n \in Nodes, Expire(n)
  PROVE  Outages'
PROOF
<1>1. /\ history' = [history EXCEPT ![n] = [history[n] EXCEPT !.aged = TRUE]]
      /\ history[n] # NoRun
      /\ UNCHANGED <<clock, node, result, disk, hand>>
  BY DEF Expire
<1>2. history[n] \in Run
  BY <1>1, TypesAt
<1>3. /\ history'[n] = [history[n] EXCEPT !.aged = TRUE]
      /\ \A m \in Nodes \ {n} : history'[m] = history[m]
  BY <1>1 DEF Typed, TypeOK
<1>4. /\ history'[n].state = history[n].state
      /\ history'[n].verdict = history[n].verdict
      /\ history'[n].episode = history[n].episode
      /\ history'[n].capturedAt = history[n].capturedAt
      /\ history'[n].completedAt = history[n].completedAt
  BY <1>2, <1>3 DEF Run
<1>5. Now' \in Nat /\ Now' = Now /\ Now <= Now'
  BY <1>1, NowIsNat DEF Now
<1>6. Telling(history'[n]) => Telling(history[n])
  BY <1>1, <1>4 DEF Telling
<1>7. /\ \A s : Past(history[n], s) => Past(history'[n], s)
      /\ \A nd : Fits(history[n], nd) => Fits(history'[n], nd)
      /\ \A nd, s : Reaches(history[n], nd, s) => Reaches(history'[n], nd, s)
  BY <1>4 DEF Fits, Reaches, Past
<1>8. Telling(history'[n]) =>
        /\ history'[n].episode \in Nat
        /\ Fits(history'[n], node'[n])
        /\ disk.node[n] # NoNode => Fits(history'[n], disk.node[n])
        /\ Reaches(history'[n], node'[n], Now')
        /\ \A g \in Recorders :
             hand[g].phase = "stored" /\ hand[g].node = n =>
               Reaches(history'[n], node'[n], Sec(result'[n].at))
  BY <1>1, <1>4, <1>5, <1>6, <1>7, OutageAt
<1>. QED
  BY <1>1, <1>3, <1>5, <1>8, StepOutages

(* A reset of the failures leaves the numbering and the success alone.     *)
LEMMA ResetOutages ==
  ASSUME Typed, Outages, NEW n \in Nodes, Now' \in Nat, Now <= Now',
         UNCHANGED <<history, disk, hand>>,
         node'[n].successAt = node[n].successAt,
         node'[n].episode = node[n].episode,
         node'[n].since = node[n].since,
         node'[n].failures \in {0, node[n].failures},
         \A m \in Nodes \ {n} : /\ node'[m] = node[m]
                                /\ result'[m] = result[m],
         result'[n] = result[n]
           \/ \A g \in Recorders : hand[g].phase # "stored"
  PROVE  Outages'
PROOF
<1>1. ASSUME Telling(history[n])
      PROVE  /\ history[n].episode \in Nat
             /\ Fits(history[n], node'[n])
             /\ disk.node[n] # NoNode => Fits(history[n], disk.node[n])
             /\ Reaches(history[n], node'[n], Now')
             /\ \A g \in Recorders :
                  hand[g].phase = "stored" /\ hand[g].node = n =>
                    Reaches(history[n], node'[n], Sec(result'[n].at))
  <2>1. /\ history[n] \in Run /\ history[n].episode \in Nat
        /\ Fits(history[n], node[n])
        /\ disk.node[n] # NoNode => Fits(history[n], disk.node[n])
        /\ Reaches(history[n], node[n], Now)
        /\ \A g \in Recorders :
             hand[g].phase = "stored" /\ hand[g].node = n =>
               Reaches(history[n], node[n], Sec(result[n].at))
    BY <1>1, OutageAt
  <2>2. node[n] \in Node
    BY TypesAt
  <2>3. Fits(history[n], node'[n])
    BY <2>1, <2>2, FitsReset
  <2>4. \A s : Reaches(history[n], node[n], s) =>
          Reaches(history[n], node'[n], s)
    BY DEF Reaches
  <2>5. Reaches(history[n], node[n], Now')
    BY <2>1, NowIsNat, PastGrows DEF Reaches
  <2>. QED
    BY <2>1, <2>3, <2>4, <2>5
<1>. QED
  BY <1>1, StepOutages

LEMMA SaveOutages ==
  ASSUME Typed, Outages, SaveMonitor
  PROVE  Outages'
PROOF
<1>1. /\ disk'.node = node
      /\ UNCHANGED <<clock, history, node, result, hand>>
  BY DEF SaveMonitor, Typed, TypeOK
<1>2. Now' = Now
  BY <1>1 DEF Now
<1>3. ASSUME NEW n \in Nodes, Telling(history'[n])
      PROVE  /\ history'[n].episode \in Nat
             /\ Fits(history'[n], node'[n])
             /\ disk'.node[n] # NoNode => Fits(history'[n], disk'.node[n])
             /\ Reaches(history'[n], node'[n], Now')
  BY <1>1, <1>2, <1>3, OutageAt
<1>4. ASSUME NEW g \in Recorders, hand'[g].phase = "stored",
             Telling(history'[hand'[g].node])
      PROVE  Reaches(history'[hand'[g].node], node'[hand'[g].node],
                     Sec(result'[hand'[g].node].at))
  BY <1>1, <1>4 DEF Outages
<1>. QED
  BY <1>3, <1>4 DEF Outages

(* A history read back is the one that was saved, with its successes and   *)
(* its numbering, or one made anew now.                                    *)
LEMMA RestoredFits ==
  ASSUME Typed, Times, Outages, NEW n \in Nodes, NEW second \in Nat,
         2 * second > clock, Telling(history[n])
  PROVE  Fits(history[n], RestoredNode(n, second))
PROOF
<1>1. /\ history[n] \in Run
      /\ disk.node[n] # NoNode => Fits(history[n], disk.node[n])
  BY OutageAt
<1>2. CASE disk.node[n] # NoNode
  <2>1. disk.node[n] \in Node
    BY <1>2, TypesAt
  <2>2. RestoredNode(n, second) = Reloaded(disk.node[n], rev[n])
    BY <1>2 DEF RestoredNode
  <2>. QED
    BY <1>1, <1>2, <2>1, <2>2, ReloadedFields, FitsReset
<1>3. CASE disk.node[n] = NoNode
  <2>. DEFINE fresh == NewNode(IF rev[n] = Absent THEN node[n].rev
                               ELSE rev[n], 2 * second)
  <2>1. fresh.since = 2 * second
    BY DEF NewNode
  <2>2. fresh \in Node
    <3>1. (IF rev[n] = Absent THEN node[n].rev ELSE rev[n]) \in Revs
      BY TypesAt DEF Node
    <3>2. 2 * second \in Nat
      OBVIOUS
    <3>. QED
      BY <3>1, <3>2, NewNodeIsNode
  <2>3. RestoredNode(n, second) =
          IF RestoredResult(n) = NoResult THEN fresh
          ELSE Count(fresh, RestoredResult(n))
    BY <1>3 DEF RestoredNode
  <2>4. RestoredResult(n) \in Result \cup {NoResult}
    BY RestoredTyped
  <2>. HIDE DEF fresh
  <2>5. RestoredNode(n, second).since = 2 * second
    BY <2>1, <2>2, <2>3, <2>4, CountFields
  <2>6. /\ clock \in Nat /\ history[n].capturedAt \in Nat
        /\ history[n].capturedAt <= clock
    <3>1. history[n] # NoRun
      BY DEF Telling
    <3>. QED
      BY <3>1, NowIsNat, TimesAreNat DEF Times, HistoryTimes
  <2>7. 2 * second > history[n].capturedAt
    BY <2>6
  <2>. QED
    BY <2>5, <2>7 DEF Fits
<1>. QED
  BY <1>2, <1>3

LEMMA RestartOutages ==
  ASSUME Typed, Running, Times, Outages, Restart
  PROVE  Outages'
PROOF
<1>. DEFINE second == Now + 1
            Repaired(n) == /\ RestoredRun(n, second) # NoRun
                           /\ Proves(RestoredRun(n, second), rev[n],
                                     RestoredResult(n))
<1>1. /\ second \in Nat /\ 2 * second > clock /\ Now' = second /\ Now < second
      /\ Now \in Nat
  <2>1. clock \in Nat /\ Now \in Nat
    BY NowIsNat
  <2>2. clock' = 2 * second
    BY DEF Restart
  <2>3. clock <= 2 * Now + 1
    BY <2>1, SecIsNat DEF Now
  <2>4. Now' = second
    BY <2>1, <2>2 DEF Now, Sec
  <2>. QED
    BY <2>1, <2>3, <2>4
<1>2. /\ history' = [n \in Nodes |-> RestoredRun(n, second)]
      /\ node' = [n \in Nodes |->
           IF Repaired(n)
           THEN CountNews(RestoredNode(n, second), Evidence(history[n]))
           ELSE RestoredNode(n, second)]
      /\ UNCHANGED disk
  BY DEF Restart
<1>3. \A g \in Recorders : hand'[g].phase = "idle"
  BY DEF Restart, Free
<1>4. ASSUME NEW n \in Nodes, Telling(history'[n])
      PROVE  /\ history'[n].episode \in Nat
             /\ Fits(history'[n], node'[n])
             /\ disk'.node[n] # NoNode => Fits(history'[n], disk'.node[n])
             /\ Reaches(history'[n], node'[n], Now')
  <2>1. history'[n] = RestoredRun(n, second) /\ history'[n] # NoRun
    BY <1>2, <1>4 DEF Telling
  <2>2. history[n] # NoRun
    BY <2>1 DEF RestoredRun
  <2>. HIDE DEF second
  <2>3. /\ RestoredRun(n, second).state = "completed"
        /\ history[n].state = "completed" =>
             RestoredRun(n, second) = history[n]
        /\ history[n].state # "completed" =>
             RestoredRun(n, second).verdict = "inconclusive"
    BY <1>1, <2>2, RestoredRunKeeps
  <2>4. history[n].state = "completed" /\ history'[n] = history[n]
    BY <1>4, <2>1, <2>3 DEF Telling
  <2>5. Telling(history[n]) /\ history[n].verdict = "failed"
    BY <1>4, <2>4 DEF Telling
  <2>6. history[n].measuredAt = 0
    BY <2>2, <2>4, <2>5 DEF Running
  <2>7. ~(0 > 0)
    OBVIOUS
  <2>8. ~Repaired(n)
    BY <2>1, <2>4, <2>6, <2>7 DEF Proves
  <2>9. node'[n] = RestoredNode(n, second)
    BY <1>2, <2>8
  <2>10. Fits(history[n], RestoredNode(n, second))
    BY <1>1, <2>5, RestoredFits
  <2>11. /\ history[n].episode \in Nat
         /\ (disk.node[n] # NoNode => Fits(history[n], disk.node[n]))
    BY <2>5, OutageAt
  <2>12. history[n].completedAt \in Nat /\ history[n].completedAt <= Now
    BY <2>2, TimesAreNat DEF Times, HistoryTimes
  <2>13. Now' > history[n].completedAt
    BY <1>1, <2>12
  <2>14. Reaches(history[n], node'[n], Now')
    BY <2>4, <2>13 DEF Reaches, Past
  <2>. QED
    BY <1>2, <2>4, <2>9, <2>10, <2>11, <2>14
<1>. QED
  BY <1>3, <1>4 DEF Outages

LEMMA NextOutages ==
  Typed /\ Running /\ Times /\ Outages /\ [Next]_vars => Outages'
PROOF
<1>. SUFFICES ASSUME Typed, Running, Times, Outages, [Next]_vars
              PROVE  Outages'
  OBVIOUS
<1>1. Typed' /\ Now' \in Nat /\ Now <= Now'
  BY NextTyped, NextNowIsNat, ClockGrows
<1>2. ASSUME UNCHANGED <<history, node, result>>, disk'.node = disk.node,
             \A g \in Recorders :
               hand'[g].phase = "stored" => hand'[g] = hand[g]
      PROVE  Outages'
  BY <1>1, <1>2, KeepOutages
<1>3. ASSUME NEW g \in Recorders, Consider(g) \/ Mark(g) \/ Send(g)
      PROVE  Outages'
  <2>1. UNCHANGED <<history, node, result, disk>>
    BY <1>3 DEF Consider, Mark, Send
  <2>2. \A h \in Recorders \ {g} : hand'[h] = hand[h]
    BY <1>3 DEF Consider, Mark, Send, Typed, TypeOK
  <2>3. hand'[g].phase # "stored"
    BY <1>3 DEF Consider, Mark, Send, Typed, TypeOK, Hand, Free
  <2>. QED
    BY <1>2, <2>1, <2>2, <2>3
<1>4. CASE \/ Receive \/ Decide \/ Retry \/ Skip \/ FinishQueued
           \/ MeasureTunnel \/ UNCHANGED vars
           \/ \E n \in Nodes : DropOutcome(n)
  <2>1. UNCHANGED <<history, node, result, disk, hand>>
    BY <1>4 DEF Receive, Decide, Retry, Skip, FinishQueued, MeasureTunnel,
                DropOutcome, vars
  <2>. QED
    BY <1>2, <2>1
<1>5. ASSUME NEW n \in Nodes, StartManual(n) PROVE Outages'
  BY <1>1, <1>5, BeginOutages DEF StartManual
<1>6. CASE BeginAutomatic
  <2>1. worker.node \in Nodes
    BY <1>6 DEF BeginAutomatic, Typed
  <2>. QED
    BY <1>1, <1>6, <2>1, BeginOutages DEF BeginAutomatic
<1>7. ASSUME NEW n \in Nodes, DNSMoved(n) PROVE Outages'
  <2>1. /\ node' = [node EXCEPT ![n] = [node[n] EXCEPT !.failures = 0]]
        /\ UNCHANGED <<history, result, disk, hand>>
    BY <1>7 DEF DNSMoved
  <2>2. /\ node'[n] = [node[n] EXCEPT !.failures = 0] /\ node[n] \in Node
        /\ \A m \in Nodes \ {n} : node'[m] = node[m]
    BY <2>1 DEF Typed, TypeOK
  <2>3. /\ node'[n].successAt = node[n].successAt
        /\ node'[n].episode = node[n].episode
        /\ node'[n].since = node[n].since
        /\ node'[n].failures = 0
    BY <2>2 DEF Node
  <2>. QED
    BY <1>1, <2>1, <2>2, <2>3, ResetOutages
<1>8. ASSUME NEW n \in Nodes, NEW r \in Revs \cup {Absent}, Reload(n, r)
      PROVE  Outages'
  <2>1. /\ node' = [node EXCEPT ![n] = Reloaded(node[n], r)]
        /\ result' = [result EXCEPT ![n] = NoResult]
        /\ UNCHANGED <<history, disk, hand>>
        /\ \A g \in Recorders : hand[g].phase # "stored"
    BY <1>8 DEF Reload
  <2>2. /\ node'[n] = Reloaded(node[n], r) /\ node[n] \in Node
        /\ \A m \in Nodes \ {n} : node'[m] = node[m] /\ result'[m] = result[m]
    BY <2>1 DEF Typed, TypeOK
  <2>3. /\ node'[n].successAt = node[n].successAt
        /\ node'[n].episode = node[n].episode
        /\ node'[n].since = node[n].since
        /\ node'[n].failures \in {0, node[n].failures}
    BY <2>2, ReloadedFields
  <2>. QED
    BY <1>1, <2>1, <2>2, <2>3, ResetOutages
<1>9. CASE SaveResults
  <2>1. UNCHANGED <<history, node, result, hand>> /\ disk'.node = disk.node
    BY <1>9 DEF SaveResults, Typed, TypeOK
  <2>. QED
    BY <1>2, <2>1
<1>10. ASSUME NEW g \in Recorders, NEW n \in Nodes, NEW o \in Outcomes[n],
              Check(g, n, o)
       PROVE  Outages'
  BY <1>1, <1>10, CheckOutages
<1>11. ASSUME NEW g \in Recorders, Record(g) PROVE Outages'
  BY <1>11, RecordOutages
<1>12. ASSUME NEW n \in Nodes, Expire(n) PROVE Outages'
  BY <1>12, ExpireOutages
<1>13. EnterRuntime \/ Complete \/ Finish \/ SaveMonitor \/ Restart => Outages'
  BY EnterOutages, CompleteOutages, FinishOutages, SaveOutages, RestartOutages
<1>. QED
  BY <1>3, <1>4, <1>5, <1>6, <1>7, <1>8, <1>9, <1>10, <1>11, <1>12, <1>13,
     Zenon DEF Next

(* A report shown next to a failure it does not belong to would be         *)
(* superseded.                                                             *)
LEMMA OutagesImplyFresh ==
  Typed /\ Outages => FreshReportSameOutage
PROOF
<1>. SUFFICES ASSUME Typed, Outages, NEW n \in Nodes,
                     history[n] # NoRun, history[n].state = "completed",
                     history[n].verdict = "failed", rev[n] # Absent,
                     ~Stale(n), result[n] # NoResult, ~result[n].online,
                     node[n].failures > 0,
                     Sec(result[n].at) >= history[n].completedAt,
                     node[n].since <= history[n].capturedAt
              PROVE  node[n].successAt <= history[n].capturedAt
  BY DEF FreshReportSameOutage
<1>1. Telling(history[n])
  BY DEF Telling
<1>2. history[n].episode \in Nat /\ Fits(history[n], node[n])
  BY <1>1, OutageAt
<1>3. ~Superseded(n)
  BY DEF Stale
<1>4. history[n].episode = -1 \/ history[n].episode = node[n].episode
  BY <1>3 DEF Superseded
<1>5. ~(Sec(node[n].successAt) > history[n].completedAt)
  BY <1>3 DEF Superseded
<1>6. history[n].episode = node[n].episode
  BY <1>2, <1>4
<1>7. ~(node[n].episode > history[n].episode)
  BY <1>2, <1>6
<1>8. ~Past(history[n], Sec(node[n].successAt))
  BY <1>5 DEF Past
<1>9. node[n].since \in Nat /\ history[n].capturedAt \in Nat
  <2>1. node[n] \in Node /\ history[n] \in Run
    BY TypesAt
  <2>. QED
    BY <2>1 DEF Node, Run
<1>10. ~(node[n].since > history[n].capturedAt)
  BY <1>9
<1>. QED
  BY <1>2, <1>7, <1>8, <1>10 DEF Fits

-----------------------------------------------------------------------------
IInv == Typed /\ Running /\ Marks /\ Times /\ Shown /\ Outages

LEMMA InitIInv == Init => IInv
PROOF
  BY InitTyped, InitRunning, InitMarks, InitTimes, InitShown, InitOutages
     DEF IInv

LEMMA NextIInv == IInv /\ [Next]_vars => IInv'
PROOF
  BY NextTyped, NextRunning, NextMarks, NextTimes, NextShown, NextOutages
     DEF IInv

LEMMA Invariance == Spec => []IInv
PROOF
  BY InitIInv, NextIInv, PTL DEF Spec

(* Every record of a diagnosis, of the queue and of the saved files has    *)
(* the form the code gives it.                                             *)
THEOREM DiagnosisTypeOK == Spec => []TypeOK
PROOF
<1>1. IInv => TypeOK
  BY DEF IInv, Typed
<1>. QED
  BY <1>1, Invariance, PTL

(* A marked node is in exactly one place, the queue, the hand of the       *)
(* goroutine that marked it or the hand of the worker, and a node without  *)
(* a mark in none (enqueueAutomaticDiagnosis, runAutomaticDiagnosisWorker).*)
THEOREM NodesAreMarkedOnce == Spec => []MarkedOnce
PROOF
<1>1. IInv => MarkedOnce
  BY MarksImplyMarkedOnce DEF IInv
<1>. QED
  BY <1>1, Invariance, PTL

(* The only report that is not completed is that of the run being          *)
(* executed, also after a restart in the middle of one                     *)
(* (executeNodeDiagnosis, restoreNodeDiagnoses).                           *)
THEOREM UnfinishedRunsAreRunning == Spec => []UnfinishedIsRunning
PROOF
<1>1. IInv => UnfinishedIsRunning
  BY DEF IInv, Running
<1>. QED
  BY <1>1, Invariance, PTL

(* What is shown is never older, in whole seconds, than what was saved for *)
(* the same connection (applyDiagnosisEvidence, the promotion of a saved   *)
(* report after a restart).                                                *)
THEOREM SavedStaysNoNewer == Spec => []SavedNeverNewer
PROOF
<1>1. IInv => SavedNeverNewer
  BY DEF IInv, Shown
<1>. QED
  BY <1>1, Invariance, PTL

(* A negative report still shown as current next to a counted failure      *)
(* belongs to that failure's outage: no success is known since its         *)
(* investigation began, unless the history was made anew after it          *)
(* (diagnosisSupersededByFailure).                                         *)
THEOREM FreshReportsAreOfThisOutage == Spec => []FreshReportSameOutage
PROOF
<1>1. IInv => FreshReportSameOutage
  BY OutagesImplyFresh DEF IInv
<1>. QED
  BY <1>1, Invariance, PTL

=============================================================================
