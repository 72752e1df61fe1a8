----------------------------- MODULE NodeMonitor -----------------------------
(***************************************************************************)
(* Who may change a node's repair state, and when: the check sets          *)
(* (scheduled, sweep, changed, manual), the deep diagnosis, the            *)
(* subscription refresh with its Xray reload, and the DNS refresh, all     *)
(* interleaved (checker/checker.go, checker/monitor.go,                    *)
(* subscription_update.go).                                                *)
(*                                                                         *)
(* A check set captures its targets, waits for its locks, resolves the     *)
(* targets again, measures each one under the node's own lock, and only    *)
(* when all are measured records their results in the monitor.  Between a  *)
(* measurement and its recording anything that does not need runtimeMu     *)
(* may happen.                                                             *)
(*                                                                         *)
(* GetNetworkStatus().Ready may turn at any time, so each reading of it is *)
(* a choice: a set is started or left, a node measured or skipped, an      *)
(* outcome kept or dropped.                                                *)
(*                                                                         *)
(* The process starts with the files an earlier run of it left, either of  *)
(* them possibly older than the other or missing.                          *)
(*                                                                         *)
(* Abstracted: which nodes are due (any set may be checked), the order of  *)
(* lock acquisition (a step is taken when its locks are free), the limit   *)
(* of a batch (maxTargetedBatch), display renames, the number of attempts  *)
(* behind an outcome, and the repairs a start makes to monitor files of    *)
(* older builds (revisionVersion below 2, previousAddress = the current    *)
(* one: Restorable says that this build writes neither).                   *)
(***************************************************************************)
EXTENDS NodeState, Sequences

CONSTANTS
  Nodes,       \* logical node IDs
  Absent,      \* a node not in the current subscription
  NoResult,    \* a node without a stored result
  NoNode,      \* a node the monitor has never seen
  NoOne,       \* a free proxyCheckLock
  Past,        \* the clock when the process starts
  Saved,       \* repair states the monitor file may hold then
  MaxClock     \* bound: measurements and changes until then and after

(* The goroutines that run check sets. "cycle" is the scheduler, the sweep *)
(* and the TCP prober's run of it, "update" is CheckUpdatedProxies: these  *)
(* hold checkCycleMu.  "manual" holds manualPriorityMu instead, which a    *)
(* deep diagnosis shares for reading.                                      *)
CheckWorkers == {"cycle", "update", "manual"}
CycleLocked == {"cycle", "update"}
Workers == CheckWorkers \cup {"diagnosis"}

VARIABLES
  clock,     \* time: measurements taken, reloads and DNS moves so far
  cfg,       \* pc.proxies: node -> revision of its connection, or Absent
  results,   \* pc.results: node -> latest stored outcome
  monitor,   \* pc.monitor: node -> repair state
  job,       \* worker -> the check set it is running
  holder,    \* proxyCheckLocks: node -> worker measuring it
  evidence,  \* tunnels a running diagnosis found working, not yet applied
  refresh,   \* where the subscription updater is
  log        \* auxiliary: results recorded since the node's last reset

vars == <<clock, cfg, results, monitor, job, holder, evidence,
          refresh, log>>

Result == [kind : Kinds, at : Nat, rev : Revs]
Evidence == [kind : {"clean", "unstable"}, at : Nat]
Targets == [Nodes -> Revs \cup {Absent}]
Job == [phase   : {"idle", "queued", "checking"},
        targets : Targets,       \* what it was told to check, as captured
        pending : SUBSET Nodes]  \* what it has still to measure
NoTargets == [n \in Nodes |-> Absent]
Idle == [phase |-> "idle", targets |-> NoTargets, pending |-> {}]

(* Why a node's history starts where it does, the rounds its restored      *)
(* counters stand for, and every result counted since.                     *)
Log == [cause : {"start", "new", "reload", "dns"}, base : States,
        since : Nat, before : Seq(Kinds), obs : Seq(Result)]
EmptyLog(cause, state, now) ==
  [cause |-> cause, base |-> state, since |-> now, before |-> <<>>,
   obs |-> <<>>]

ASSUME NodeMonitorAssumption ==
  /\ Absent \notin Revs
  /\ NoResult \notin Result \cup Evidence
  /\ NoNode \notin Node
  /\ NoOne \notin Workers
  /\ Past \in Nat
  /\ MaxClock \in Nat
  /\ Past <= MaxClock

Named(targets) == {n \in Nodes : targets[n] # Absent}
Present == Named(cfg)
Capture(proxies, S) == [n \in Nodes |-> IF n \in S THEN proxies[n] ELSE Absent]
Queued(targets) == [phase |-> "queued", targets |-> targets, pending |-> {}]

TypeOK ==
  /\ clock \in Past..MaxClock
  /\ cfg \in Targets
  /\ results \in [Nodes -> Result \cup {NoResult}]
  /\ monitor \in [Nodes -> Node \cup {NoNode}]
  /\ job \in [Workers -> Job]
  /\ holder \in [Nodes -> CheckWorkers \cup {NoOne}]
  /\ evidence \in [Nodes -> Evidence \cup {NoResult}]
  /\ refresh \in {"idle", "prune"}
  /\ log \in [Nodes -> Log]

(* loadResults: an outcome of an earlier run is restored for the           *)
(* connection it was measured on.                                          *)
Restored(rev) == {r \in [kind : Kinds, at : 1..Past, rev : Revs] : r.rev = rev}

(* reconcileMonitorWithCurrentProxies, after the results were restored.    *)
StartNode(rev, saved, found) ==
  IF rev = Absent THEN saved
  ELSE IF saved # NoNode THEN Reconcile(saved, rev, found # NoResult, Past)
  ELSE IF found # NoResult THEN InitializeFromResult(NewNode(rev), found)
  ELSE NewNode(rev)

StartLog(node) ==
  IF node = NoNode THEN EmptyLog("start", "unknown", Past)
  ELSE [EmptyLog("start", node.state, Past) EXCEPT
          !.before = [i \in 1..(node.failures + node.successes) |->
                        IF node.failures > 0 THEN "fail" ELSE "clean"]]

Init ==
  /\ clock = Past
  /\ cfg \in Targets
  /\ results \in [Nodes -> {NoResult} \cup UNION {Restored(rev) : rev \in Revs}]
  /\ \A n \in Nodes : results[n] \in {NoResult} \cup Restored(cfg[n])
  /\ \E saved \in [Nodes -> Saved \cup {NoNode}] :
       monitor = [n \in Nodes |-> StartNode(cfg[n], saved[n], results[n])]
  /\ job = [w \in Workers |-> Idle]
  /\ holder = [n \in Nodes |-> NoOne]
  /\ evidence = [n \in Nodes |-> NoResult]
  /\ refresh = "idle"
  /\ log = [n \in Nodes |-> StartLog(monitor[n])]

-----------------------------------------------------------------------------
(* Check sets.                                                             *)

(* CheckDueProxies, a batch of CheckAllProxies, or a manual re-check: the  *)
(* targets are captured before the locks are held.                         *)
QueueChecks(w, S) ==
  /\ w \in {"cycle", "manual"}
  /\ job[w].phase = "idle"
  /\ S # {}
  /\ S \subseteq Present
  /\ job' = [job EXCEPT ![w] = Queued(Capture(cfg, S))]
  /\ UNCHANGED <<clock, cfg, results, monitor, holder, evidence,
                 refresh, log>>

LocksFree(w) ==
  /\ w \in CycleLocked => \A v \in CycleLocked : job[v].phase # "checking"
  /\ w = "manual" => job["diagnosis"].phase = "idle"

(* checkProxySetInRuntime: with runtimeMu read-locked the targets are      *)
(* resolved again, so one that was reloaded meanwhile is dropped.          *)
(* Mutant: the captured targets are checked as they are.                   *)
StillCurrentAsQueued(targets) == Named(targets)

StillCurrent(targets) == {n \in Named(targets) : cfg[n] = targets[n]}

EnterRuntime(w) ==
  /\ job[w].phase = "queued"
  /\ LocksFree(w)
  /\ LET current == StillCurrent(job[w].targets)
     IN job' = [job EXCEPT ![w] = [phase |-> "checking",
                  targets |-> Capture(job[w].targets, current),
                  pending |-> current]]
  /\ UNCHANGED <<clock, cfg, results, monitor, holder, evidence,
                 refresh, log>>

(* No route, or the direct address lookup of the ip method failed: the     *)
(* set is left due.                                                        *)
GiveUp(w) ==
  /\ job[w].phase = "queued"
  /\ job' = [job EXCEPT ![w] = Idle]
  /\ UNCHANGED <<clock, cfg, results, monitor, holder, evidence,
                 refresh, log>>

(* checkProxyInternalWithAttempts up to its request: the node's lock is    *)
(* taken, or, without a route, the node is left due.                       *)
BeginCheck(w, n) ==
  /\ job[w].phase = "checking"
  /\ n \in job[w].pending
  /\ holder[n] = NoOne
  /\ \/ holder' = [holder EXCEPT ![n] = w] /\ UNCHANGED job
     \/ job' = [job EXCEPT ![w].pending = @ \ {n}] /\ UNCHANGED holder
  /\ UNCHANGED <<clock, cfg, results, monitor, evidence, refresh, log>>

(* The request ends; its outcome is stored, or dropped when the route was  *)
(* lost meanwhile.  rev is the connection that was measured.               *)
FinishCheck(w, n, kind) ==
  /\ holder[n] = w
  /\ holder' = [holder EXCEPT ![n] = NoOne]
  /\ job' = [job EXCEPT ![w].pending = @ \ {n}]
  /\ \/ /\ clock < MaxClock
        /\ clock' = clock + 1
        /\ results' = [results EXCEPT ![n] =
             [kind |-> kind, at |-> clock + 1, rev |-> job[w].targets[n]]]
     \/ UNCHANGED <<clock, results>>
  /\ UNCHANGED <<cfg, monitor, evidence, refresh, log>>

(* recordMonitorResults, for every target of the set at once (monitorMu):  *)
(* only a result newer than the last one recorded counts.                  *)
(* Mutant: a result is counted by every set that holds the node.           *)
IsNewsOrSeen(n) ==
  /\ results[n] # NoResult
  /\ monitor[n].lastResultAt <= results[n].at

IsNews(n) ==
  /\ results[n] # NoResult
  /\ monitor[n].lastResultAt < results[n].at

RecordResults(w) ==
  /\ job[w].phase = "checking"
  /\ job[w].pending = {}
  /\ w = "diagnosis" => \A n \in Nodes : evidence[n] = NoResult
  /\ LET news == {n \in Named(job[w].targets) : IsNews(n)}
     IN /\ monitor' = [n \in Nodes |->
             IF n \in news THEN ApplyResult(monitor[n], results[n])
             ELSE monitor[n]]
        /\ log' = [n \in Nodes |->
             IF n \in news
             THEN [log[n] EXCEPT !.obs = Append(@, results[n])]
             ELSE log[n]]
  /\ job' = [job EXCEPT ![w] = Idle]
  /\ UNCHANGED <<clock, cfg, results, holder, evidence, refresh>>

-----------------------------------------------------------------------------
(* Deep diagnosis.  It holds runtimeMu read-locked throughout, measures    *)
(* the tunnels of its node's bindings, and when it completes promotes what *)
(* worked to the result store.                                             *)

StartDiagnosis(S) ==
  /\ job["diagnosis"].phase = "idle"
  /\ job["manual"].phase # "checking"
  /\ S # {}
  /\ S \subseteq Present
  /\ job' = [job EXCEPT !["diagnosis"] =
       [phase |-> "checking", targets |-> Capture(cfg, S), pending |-> S]]
  /\ UNCHANGED <<clock, cfg, results, monitor, holder, evidence,
                 refresh, log>>

(* probeBinding, under the binding's lock; a tunnel that carried nothing,  *)
(* or a run that was cancelled first, leaves no evidence.                  *)
ProbeBinding(n, kind) ==
  /\ n \in job["diagnosis"].pending
  /\ holder[n] = NoOne
  /\ IF kind = "fail"
     THEN /\ job' = [job EXCEPT !["diagnosis"].pending = @ \ {n},
                                !["diagnosis"].targets[n] = Absent]
          /\ UNCHANGED <<clock, evidence>>
     ELSE /\ clock < MaxClock
          /\ clock' = clock + 1
          /\ evidence' = [evidence EXCEPT ![n] =
                            [kind |-> kind, at |-> clock + 1]]
          /\ job' = [job EXCEPT !["diagnosis"].pending = @ \ {n}]
  /\ UNCHANGED <<cfg, results, monitor, holder, refresh, log>>

(* applyDiagnosisEvidence, one binding: a newer regular check wins.        *)
(* Mutant: the diagnosis always wins.                                      *)
SupersededNever(n) == FALSE

Superseded(n) == results[n] # NoResult /\ results[n].at > evidence[n].at

(* Mutant: what was promoted is not handed to recordMonitorResults.        *)
PromoteEvidenceUnrecorded(n) ==
  /\ job["diagnosis"].phase = "checking"
  /\ job["diagnosis"].pending = {}
  /\ evidence[n] # NoResult
  /\ holder[n] = NoOne
  /\ evidence' = [evidence EXCEPT ![n] = NoResult]
  /\ job' = [job EXCEPT !["diagnosis"].targets[n] = Absent]
  /\ results' = IF Superseded(n) THEN results
                ELSE [results EXCEPT ![n] =
                        [kind |-> evidence[n].kind, at |-> evidence[n].at,
                         rev |-> job["diagnosis"].targets[n]]]
  /\ UNCHANGED <<clock, cfg, monitor, holder, refresh, log>>

PromoteEvidence(n) ==
  /\ job["diagnosis"].phase = "checking"
  /\ job["diagnosis"].pending = {}
  /\ evidence[n] # NoResult
  /\ holder[n] = NoOne
  /\ evidence' = [evidence EXCEPT ![n] = NoResult]
  /\ IF Superseded(n)
     THEN /\ job' = [job EXCEPT !["diagnosis"].targets[n] = Absent]
          /\ UNCHANGED results
     ELSE /\ results' = [results EXCEPT ![n] =
               [kind |-> evidence[n].kind, at |-> evidence[n].at,
                rev |-> job["diagnosis"].targets[n]]]
          /\ UNCHANGED job
  /\ UNCHANGED <<clock, cfg, monitor, holder, refresh, log>>

-----------------------------------------------------------------------------
(* The subscription updater, one goroutine at a time (updater.mu).         *)

Added(n, new) == cfg[n] = Absent /\ new[n] # Absent
Changed(n, new) == cfg[n] # Absent /\ new[n] \notin {Absent, cfg[n]}

(* A node the monitor remembers comes back under another connection.       *)
ReturnedChanged(n, new) ==
  /\ Added(n, new)
  /\ monitor[n] # NoNode
  /\ monitor[n].revision # new[n]

UpdateNode(n, new) ==
  IF Added(n, new) /\ monitor[n] = NoNode THEN NewNode(new[n])
  ELSE IF Changed(n, new) \/ ReturnedChanged(n, new)
  THEN MarkRevisionChanged(monitor[n], new[n], clock + 1)
  ELSE IF Added(n, new) THEN Returned(monitor[n], new[n])
  ELSE monitor[n]

UpdateLog(n, new) ==
  IF Added(n, new) /\ monitor[n] = NoNode
  THEN EmptyLog("new", "unknown", clock + 1)
  ELSE IF Changed(n, new) \/ ReturnedChanged(n, new)
  THEN EmptyLog("reload", UpdateNode(n, new).state, clock + 1)
  ELSE log[n]

(* WithChecksPaused(Stop, Start, ApplyProxyUpdate): checkCycleMu is held   *)
(* and runtimeMu write-locked, so nothing is being measured.               *)
(* CheckUpdatedProxies then verifies what was added or changed.            *)
(* Mutant: only checkCycleMu is taken.                                     *)
CyclesPaused == \A w \in CycleLocked : job[w].phase # "checking"

ChecksPaused == \A w \in Workers : job[w].phase # "checking"

Reload(new) ==
  /\ refresh = "idle"
  /\ job["update"].phase = "idle"
  /\ ChecksPaused
  /\ new # cfg
  /\ clock < MaxClock
  /\ clock' = clock + 1
  /\ cfg' = new
  /\ results' = [n \in Nodes |-> IF Changed(n, new) THEN NoResult
                                 ELSE results[n]]
  /\ monitor' = [n \in Nodes |-> UpdateNode(n, new)]
  /\ log' = [n \in Nodes |-> UpdateLog(n, new)]
  /\ LET S == {n \in Nodes : Added(n, new) \/ Changed(n, new)}
     IN job' = IF S = {} THEN job
               ELSE [job EXCEPT !["update"] = Queued(Capture(new, S))]
  /\ refresh' = "prune"
  /\ UNCHANGED <<holder, evidence>>

(* CheckUpdatedProxies has returned.                                       *)
PruneStaleResults ==
  /\ refresh = "prune"
  /\ job["update"].phase = "idle"
  /\ results' = [n \in Nodes |-> IF cfg[n] = Absent THEN NoResult
                                 ELSE results[n]]
  /\ refresh' = "idle"
  /\ UNCHANGED <<clock, cfg, monitor, job, holder, evidence, log>>

(* The end of every refresh, or the whole of one that found the            *)
(* subscription as it was.  It takes monitorMu only, so it does not wait   *)
(* for the check sets in flight; then the moved nodes are checked.  A      *)
(* resolver that answers nothing leaves all as it is.                      *)
Answers == [Nodes -> IPs \cup {NoIPs}]
IPsOf(n, answer) ==
  LET literal == LiteralIPs[AddrOf[cfg[n]]]
  IN IF literal = NoIPs THEN answer[n] ELSE literal

RefreshResolvedIPs(answer) ==
  /\ refresh = "idle"
  /\ job["update"].phase = "idle"
  /\ LET moved == {n \in Present : DNSMoves(monitor[n], IPsOf(n, answer))}
     IN /\ \/ moved = {} /\ UNCHANGED clock
           \/ moved # {} /\ clock < MaxClock /\ clock' = clock + 1
        /\ monitor' = [n \in Nodes |->
             IF n \in Present
             THEN ResolveNode(monitor[n], IPsOf(n, answer), clock + 1)
             ELSE monitor[n]]
        /\ log' = [n \in Nodes |->
             IF n \in moved THEN EmptyLog("dns", "ip_changed", clock + 1)
             ELSE log[n]]
        /\ job' = IF moved = {} THEN job
                  ELSE [job EXCEPT !["update"] = Queued(Capture(cfg, moved))]
  /\ UNCHANGED <<cfg, results, holder, evidence, refresh>>

-----------------------------------------------------------------------------
(* queueEndpointValidation: the TCP prober found the endpoints of S shut.  *)
(* They were healthy, fixed or unstable when it looked, so a result had    *)
(* been counted for them; it holds no lock, so by now they may be in any   *)
(* state, or detached.  EndpointSuspectedAt only orders what is due.  The  *)
(* prober measures too, so MaxClock bounds it.                             *)
QueueEndpointValidation(S) ==
  /\ S # {}
  /\ clock < MaxClock
  /\ \A n \in S : monitor[n] # NoNode /\ monitor[n].lastResultAt > 0
  /\ monitor' = [n \in Nodes |-> IF n \in S THEN [monitor[n] EXCEPT !.wait = 0]
                                 ELSE monitor[n]]
  /\ UNCHANGED <<clock, cfg, results, job, holder, evidence, refresh, log>>

-----------------------------------------------------------------------------
RunCheckSet(w) ==
  \/ \E S \in SUBSET Nodes : QueueChecks(w, S)
  \/ EnterRuntime(w)
  \/ GiveUp(w)
  \/ \E n \in Nodes : BeginCheck(w, n)
  \/ \E n \in Nodes, kind \in Kinds : FinishCheck(w, n, kind)
  \/ RecordResults(w)

Diagnose ==
  \/ \E S \in SUBSET Nodes : StartDiagnosis(S)
  \/ \E n \in Nodes, kind \in Kinds : ProbeBinding(n, kind)
  \/ \E n \in Nodes : PromoteEvidence(n)
  \/ RecordResults("diagnosis")

Refresh ==
  \/ \E new \in Targets : Reload(new)
  \/ PruneStaleResults
  \/ \E answer \in Answers : RefreshResolvedIPs(answer)

Next ==
  \/ \E w \in CheckWorkers : RunCheckSet(w)
  \/ Diagnose
  \/ Refresh
  \/ \E S \in SUBSET Nodes : QueueEndpointValidation(S)

Spec == Init /\ [][Next]_vars

-----------------------------------------------------------------------------
(* Correctness.                                                            *)

Known(n) == monitor[n] # NoNode

(* The table of states in the README (Monitor states) read as a claim      *)
(* about the counters: what the dashboard calls a node agrees with how     *)
(* many rounds in a row it passed or failed, whichever of its writers      *)
(* wrote the state last, a start of the process included: that leaves a    *)
(* success with an unstable node, and its successes with a node it no      *)
(* longer calls healthy or fixed.                                          *)
CountersFit(node) ==
  LET up == node.successes
      down == node.failures
  IN /\ up = 0 \/ down = 0
     /\ CASE node.state = "healthy"           -> up >= 1
          [] node.state = "fixed"             -> up >= 2
          [] node.state = "suspected"         -> down \in 1..2
          [] node.state = "needs_replacement" -> down >= 3
          [] node.state = "new_ip_failed"     -> down >= 2
          [] node.state = "verifying_new_ip"  -> up <= 1 /\ down <= 1
          [] node.state = "unstable"          -> up <= 1 /\ down = 0
          [] node.state = "unknown"           -> down = 0
          [] OTHER                            -> up = 0 /\ down = 0

StateMatchesCounters == \A n \in Nodes : Known(n) => CountersFit(monitor[n])

(* The schedule table of the README (Targeted schedule): unless a check    *)
(* was asked for at once, the delay to the next one is the one the table   *)
(* gives for the node's state and count.                                   *)
Cadence(node) ==
  IF node.state \in {"healthy", "fixed"} THEN HealthyWait
  ELSE IF node.state = "unstable" THEN UnstableWait
  ELSE CASE node.failures = 0  -> IF node.successes = 1 THEN 45 ELSE 60
         [] node.failures = 1  -> 60
         [] node.failures = 2  -> 120
         [] node.failures = 3  -> 300
         [] node.failures >= 4 -> 600

CadenceMatchesState ==
  \A n \in Nodes : Known(n) => monitor[n].wait \in {0, Cadence(monitor[n])}

(* What the monitor file may hold when the process starts: what this build *)
(* has written, before and up to then.                                     *)
Restorable(node) ==
  /\ node \in Node
  /\ CountersFit(node)
  /\ node.wait \in {0, Cadence(node)}
  /\ node.address = AddrOf[node.revision]
  /\ node.prevAddress # node.address

ASSUME SavedAssumption ==
  \A node \in Saved : /\ Restorable(node)
                     /\ node.changedAt <= Past
                     /\ node.lastResultAt <= Past

(* The verdict a reader of the README would give a node after the results  *)
(* counted since its connection was last replaced: a replacement needs two *)
(* clean results in a row before it may be called anything but unverified  *)
(* or failed; otherwise only the trailing failures count.  Of the rounds   *)
(* before the process started only the state and the counters are known.   *)
Rounds(entry) ==
  entry.before \o [i \in DOMAIN entry.obs |-> entry.obs[i].kind]

Verdict(entry) ==
  LET round == Rounds(entry)
      n == Len(round)
      pairs == {i \in 2..n : round[i] = "clean" /\ round[i - 1] = "clean"}
      failing(k) == n >= k /\ \A i \in (n - k + 1)..n : round[i] = "fail"
  IN CASE entry.obs = <<>> -> entry.base
       [] entry.obs # <<>> /\ entry.base \in Replacing /\ pairs = {} ->
            IF failing(2) THEN "new_ip_failed" ELSE "verifying_new_ip"
       [] OTHER ->
            CASE round[n] = "clean" ->
                   IF entry.base \in Replacing /\ pairs = {n} THEN "fixed"
                   ELSE "healthy"
              [] round[n] = "unstable" -> "unstable"
              [] round[n] = "fail" ->
                   IF failing(3) THEN "needs_replacement" ELSE "suspected"

(* The state the monitor keeps incrementally is the verdict of its whole   *)
(* history, so no interleaving of check sets, diagnosis, probes and        *)
(* reloads loses or repeats a step of it.                                  *)
VerdictMatchesHistory ==
  \A n \in Nodes : Known(n) => monitor[n].state = Verdict(log[n])

(* recordMonitorResults counts a measurement once, and in the order the    *)
(* measurements were taken, although overlapping sets hold the same node   *)
(* and each of them records it.                                            *)
CountedOnce ==
  \A n \in Nodes : \A i, j \in DOMAIN log[n].obs :
    i < j => log[n].obs[i].at < log[n].obs[j].at

(* A stored outcome was measured on the connection the node has now:       *)
(* persistResults writes it under that revision and a restart restores it  *)
(* under that revision (README: "Saved Online results are restored only    *)
(* for the same private connection revision").                             *)
ResultsMatchRevision ==
  \A n \in Present : results[n] # NoResult => results[n].rev = cfg[n]

(* After a subscription replaced the connection, only measurements taken   *)
(* after the replacement count towards its confirmation, on any            *)
(* interleaving of check sets that were queued or running before it.       *)
FreshAfterReload ==
  \A n \in Nodes : log[n].cause = "reload" =>
    \A i \in DOMAIN log[n].obs : log[n].obs[i].at > log[n].since

(* When no set is being checked every outcome stored since the start has   *)
(* reached the repair history: nothing the dashboard shows is missing from *)
(* it.  (Of the two files the process starts with either may be older.)    *)
RecordedAtRest ==
  (\A w \in Workers : job[w].phase # "checking") =>
    \A n \in Present : results[n] # NoResult /\ results[n].at > Past =>
      monitor[n].lastResultAt = results[n].at

(* For every node the store and the history behave as a mailbox: no check  *)
(* or diagnosis puts back an older measurement (diagnosis.go: "A newer     *)
(* regular check always wins") and the monitor only takes newer ones.      *)
Mailbox == INSTANCE ResultMailbox WITH
  stored <- [n \in Nodes |->
               IF results[n] = NoResult THEN 0 ELSE results[n].at],
  taken  <- [n \in Nodes |->
               IF monitor[n] = NoNode THEN 0 ELSE monitor[n].lastResultAt]

StoreIsMailbox == Mailbox!Spec

-----------------------------------------------------------------------------
(* What the README says and the code does not do.                          *)

(* README, Manual Re-check: "A background check and a manual check cannot  *)
(* race and overwrite each other's result": an outcome stored by a regular *)
(* check is recorded before another regular check replaces it.             *)
NoResultOverwritten ==
  [][\A n \in Nodes :
       /\ holder[n] # NoOne
       /\ job["diagnosis"].phase = "idle"
       /\ results[n] # NoResult
       /\ results[n].at > Past
       /\ results'[n] \notin {NoResult, results[n]}
       => monitor[n].lastResultAt = results[n].at]_vars

(* README, Monitor states: Fixed means that "two clean successes followed  *)
(* a configuration change", a DNS change included.                         *)
FixedFollowsChange ==
  \A n \in Nodes :
    /\ Known(n)
    /\ monitor[n].state = "fixed"
    /\ log[n].cause # "start"
    => \E i, j \in DOMAIN log[n].obs :
      /\ i # j
      /\ {log[n].obs[i].kind, log[n].obs[j].kind} = {"clean"}
      /\ log[n].obs[i].at > monitor[n].changedAt
      /\ log[n].obs[j].at > monitor[n].changedAt

=============================================================================
