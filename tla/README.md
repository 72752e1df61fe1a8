# A formal model of xray-checker

TLA+ modules that model the concurrent core of the checker, the subscription
refresh, deep diagnosis, alerts and the control of the network source; TLC runs
that check them on small instances; and TLAPS proofs for every instance.
Paths below are relative to the root of the repository.

## 1. Inventory

### Components

| Component | Source | State | Operations |
| --- | --- | --- | --- |
| Check sets and results | `checker/checker.go`, `checker/monitor.go` | `pc.proxies`, `pc.results`, `proxyCheckLocks` | scheduled batch, sweep and its retry, changed nodes, manual re-check; store, record, prune |
| Node repair state | `checker/monitor.go` | `pc.monitor`: state, counters, addresses, revision, next check, history | apply a result, revision changed, returned, DNS moved, removed, delay, reconcile with the subscription at a start |
| Targeted schedule | `checker/monitor.go:593-693` | `NextCheck` of every node | pick due nodes by lane and subscription |
| TCP endpoint probes | `checker/endpoint_probe.go` | next probe per address | probe, confirm, pull checks forward |
| Probe budget | `checker/probe_budget.go` | two channels, a counter | acquire, release, cancel |
| Locks of the checker | all of `checker/`, `subscription_update.go`, `replacement_verifier.go` | `updater.mu`, `checkCycleMu`, `runtimeMu`, `manualPriorityMu`, `backgroundPaused`, the diagnosis context | pause, preempt, lock in order |
| Endpoint pool | `checker/endpoint_pool.go` | candidates with pending revision, pending replacement, missed polls | observe one poll |
| Subscription refresh | `subscription_update.go`, `main.go:331-376`, `checker/proxy_update.go` | current configurations, mass-diff confirmation | sample, merge, defer, reload Xray, apply, verify, prune, DNS |
| Deep diagnosis | `checker/diagnosis.go` | running flag and context, queue, history per node | start, queue, work, probe, classify, promote evidence, persist |
| Replacement verification | `replacement_verifier.go` | none | refresh, find the successor, check it |
| Access check | `checker/access_check.go` | one run at a time, history | direct, then through healthy nodes |
| Measurement route | `checker/network_status.go` | status file, source gate | ready?, wait, retry after an outage |
| Saved results | `checker/results_store.go` | snapshot file, completeness, resume flags | load, store, persist |
| Alerts | `alerts/` | observed nodes, pending batch, settings | evaluate, enqueue, flush, save, disconnect |
| Network source control | `network-source-control.py`, `web/network_*.go`, `iphone-supervisor.sh` | state, request and processing files, recovery files, epochs | request, switch, recover, restart |
| Xray process | `xray/runner.go` | running instance | start, stop |
| Identities | `models/proxy_config.go` | none | stable, logical, node and revision IDs |
| Reading, web, metrics, configuration, logging | the rest | none of their own | I/O and views |
| Documentation site, static assets | `docs/`, `web/static/` | none | not part of the program's logic |

### How they interact

The scheduler, the sweep, the TCP prober, the subscription refresh, the web
handlers (re-check, verification, diagnosis, access check) and the automatic
diagnosis worker are goroutines that share `pc.proxies`, `pc.results` and
`pc.monitor`. They meet in a hierarchy of locks:

    manualPriorityMu < updater.mu < checkCycleMu < runtimeMu
                     < proxyCheckLocks[binding] < connection slot

`checkCycleMu` serializes background check sets; `runtimeMu` is read-locked by
whoever sends requests through Xray and write-locked by a reload;
`manualPriorityMu` is write-locked by manual actions and read-locked by a
diagnosis for as long as it runs. `monitorMu`, `pc.mu` and `diagnosisMu` guard
short sections only. Results go into the store under the binding's lock, and
from there into the repair state when the whole set is done: the store is a
mailbox that several goroutines fill and empty.

### What is hard

* A measurement is stored, shown, recorded and saved at four different times,
  and reloads, DNS moves and other check sets come in between.
* One node's repair state has six writers: results, revisions, returns, DNS,
  TCP probes, and the start, which reconciles two files of different ages with a
  subscription that may have changed.
* Priority is done by preemption: raise a counter, cancel, then queue for locks.
* The pool of endpoints must tell rotation, replacement and change apart from
  random samples.
* Files are exchanged between the web server, a Python controller and a shell
  supervisor, any of which may die.
* A diagnosis is queued, decided on, run and believed at different times, while
  the failure it explains ends and another begins, or the checker restarts with
  files of different ages.
* A refresh may be put off, rejected or left half done with Xray stopped.
* Alerts are raised for one chat and delivered minutes later, when another may
  have been saved, or the environment may have put another in its place; they
  travel through the Xray that a reload stops.

`PROJECT.json` lists every hazard at its line with the properties that would
catch it, or a note saying why none does.

### What makes each component correct

* Check sets: a measurement counts at most once, in order, for the connection
  it was taken on, and none is left unrecorded.
* Repair state: it is the verdict of the measurements counted since the last
  change of the connection; the next check is due when the schedule says.
* Locks: no deadlock, no starvation, no request during a reload, no automatic
  work ahead of a priority action, one diagnosis at a time.
* Budget: nothing leaks, limits hold, room is left, who waits is served.
* Pool: nothing is added, changed or dropped without the evidence asked for.
* Refresh: a mass diff is confirmed twice; a failed reload is repaired; names
  and results follow the node.
* Diagnosis: queued once, never for ever; a fresh report describes the present
  failure; positive evidence reaches the results once.
* Alerts: one notification per transition, none lost, none after disconnecting.
* Source control: a request is carried out once or refused; a crash never
  leaves both kinds of request blocked.

## 2. Modules

| Module | Models | Correspondence |
| --- | --- | --- |
| `NodeState` | repair state of one node | one operator per writer: `ApplyResult` = `applyMonitorResult`, `MarkRevisionChanged` = `markNodeRevisionChanged`, `Returned` and `NewNode` = `ApplyProxyUpdate`, `ResolveNode` = the body of `RefreshResolvedIPs`, `Reconcile` and `InitializeFromResult` = the two ways of `reconcileMonitorWithCurrentProxies` |
| `NodeMonitor` | check sets, diagnosis, refresh, DNS, TCP prober around the results and the repair state | `job[w]` is a call of `checkProxySet`: queued (targets captured), checking (`checkProxySetInRuntime`), recorded; `holder` is `proxyCheckLocks`; `evidence` the measurements of a running diagnosis; `Init` is a start: `Restored` what `loadResults` takes over, `StartNode` what becomes of a node in the monitor file |
| `ResultMailbox` | abstract: a one-place mailbox of measurements per node | `NodeMonitor` implements it: stored is the time of the result, taken is `LastResultAt` |
| `MCNodeMonitor` | model values; a saved state of every kind | |
| `NodeMonitor_proofs` | proofs | |
| `ProbeBudget`, `ProbeBudget_proofs` | `probe_budget.go` | one action per channel operation |
| `CheckRuntime`, `MCCheckRuntime`, `CheckRuntime_proofs` | locks and programs | a goroutine (`Procs`) starts one kind of work after another (`Serves`); a function of the code is an operator on sequences of lock operations, so `WithManualPriority(CheckProxySetInRuntime)` is the program of a manual re-check |
| `EndpointPool`, `MCEndpointPool`, `EndpointPool_proofs` | `endpoint_pool.go` | one action, `Observe`; `Sighted` and `Missed` are its two loops |
| `Diagnosis`, `MCDiagnosis`, `Diagnosis_proofs` | `diagnosis.go`, with the parts of `monitor.go` and `results_store.go` it reads | `hand[g]` is a goroutine in `recordMonitorResults` and then `enqueueAutomaticDiagnoses`; `worker` and `exec` are `runAutomaticDiagnosisWorker` and `executeNodeDiagnosis`; `queue`, `marked` are `diagnosisQueue`, `diagnosisQueued`; `disk` is the results and monitor files |
| `SubscriptionUpdate`, `MCSubscriptionUpdate`, `SubscriptionUpdate_proofs` | `subscription_update.go`, `main.go:331-376`, `checker/proxy_update.go` | `Observe` is a poll up to the mass guard, `RejectConfig`, `FailStart`, `ReloadAll` and `ReloadPart` (any of the bindings rejected, even all) are the ways `updateConfiguration` ends, `Init` a start that validates what it read and restores results, `PlanProxyUpdate` is the function of that name, `Applied` what `ApplyProxyUpdate` does to the results |
| `Alerts`, `MCAlerts`, `Alerts_proofs` | `alerts/manager.go` | `CollectNodes` and `Judge` are `evaluate` before and under the lock, `StartFlush`, `SendMessage`, `FailMessage` and `FinishFlush` are `flush`, `BeginSave` and `CommitSave` are `Save`, `Restart` and `Managed` are `NewManager` |
| `NetworkControl`, `NetworkControl_proofs` | `network-source-control.py`, `iphone-supervisor.sh`, `start.sh`, `web/network_sources.go`, `web/network_recovery.go` | one variable for each file; `pc` is where the supervisor is, from `LeftOver` to `Unlink` inside the controller's tick and under its lock; `post`, `cli` and `start` are a request of the dashboard, of the command line and a `start.sh` by hand between their checks and their writes |

Time in `NodeMonitor` is the number of measurements, reloads and DNS moves so
far: what the code compares are the times of measurements (`lastCheck`,
`LastResultAt`, in nanoseconds) and nothing else depends on the clock there. A
delay is kept as the value it was set to, since the passing of time only decides
which nodes are due, and a set may hold any nodes. `GetNetworkStatus` may change
between any two readings; each is a choice.

`NodeMonitor` models one run of the process. It starts from any pair of files an
earlier run may have left, either of them older than the other or missing, and
with any subscription: `Past` is the clock then and `Saved` the states the monitor
file may hold, of which `SavedAssumption` asks no more than that this build may
have written them (`Restorable`). The theorem `RestartsAreStarts` closes the circle:
whatever a run holds at any moment is `Restorable`. The start also repairs files of
older builds (`monitor.go:171-211`: a revision version below 2, a previous address
equal to the present one); a `Restorable` state needs neither repair.

In `CheckRuntime` a writer that waits stops new readers, as in `sync.RWMutex`.
One binding and one slot stand for all: more of them only let more steps happen
at once, while what can block anybody is being the only one.

`Diagnosis` does count the clock, in half seconds, since there instants and whole
seconds are compared with one another. Its nodes have one binding each.

In `Alerts` a recipient is a chat of a bot; what is wanted is a part of each save,
so that preferences change without a reset, and `settings.env` is what the process
is given with its environment: nothing, a token, or a token and a chat.

In `SubscriptionUpdate` the pool returns any list: what it may return is the
matter of `EndpointPool`. In `NetworkControl` the bridge is whether `start.sh`
succeeds, and a session (epoch) is whether it is still the present one.

`log` in `NodeMonitor` and `lastRev`, `twice`, `unseen`, `successors`,
`replacement` in `EndpointPool`, `capturedAt` and `since` in `Diagnosis`,
`lastDiff` and `renamed` in `SubscriptionUpdate`, `torn`, `told`, `for` and
`missed` in `Alerts` are history variables: they are written from the same
inputs, never decide what an action does, and only the properties look at them.

## 3. Runs

| Run | Instance | Shows |
| --- | --- | --- |
| `node_monitor` | 1 node, 3 revisions (2 of a domain address, 1 literal), 2 address lists, 10 kinds of saved state for each revision, `Past` = 1, `MaxClock` = 4; 1.1 million states | types; `StateMatchesCounters` and `CadenceMatchesState` (the README's tables of states and delays); `VerdictMatchesHistory`; `CountedOnce`; `ResultsMatchRevision`; `FreshAfterReload`; `RecordedAtRest`; the refinement of `ResultMailbox` |
| `node_monitor_overwrite` | the same | violated: a stored result is replaced before it was recorded |
| `node_monitor_fixed` | the same | violated: a node becomes fixed with a result from before the DNS change |
| `probe_budget` | 1 ordinary client, 2 diagnostic ones, limits 0, 1, 2, 20 | `Accounting`, `WithinLimit`, `CapacityLeft`; whoever asks is served or gives up (`AcquireReturns`) |
| `check_runtime` | the updater, the scheduler, the automatic worker, the delivery of alerts, a web handler of any request; 0.8 million states | `SocksUndisturbed`, `AutomaticYields`, `NothingStartsAhead`, `OneDiagnosis`, no deadlock |
| `check_runtime_live` | the scheduler, the automatic worker, a web handler of re-checks, verifications (with their refresh) and access checks, another of diagnoses and test deliveries; 58 thousand states | `EverythingFinishes` |
| `endpoint_pool` | 3 ports of 1 server, 2 revisions, 1 or 2 reads of at most 2 entries, expiry after 4 polls | `ChangeConfirmed`, `DetachedWithCause`, `PoolIsRecent` |
| `endpoint_pool_replaced` | the same with 2 reads, expiry after 3 | violated: two polls report only the new port, and the old one stays |
| `diagnosis` | 2 nodes, 1 revision, 2 symptoms, 1 recorder, queue of 1, `MaxClock` = 6, 1 restart; 365 thousand states | `MarkedOnce` (no node is queued twice or shut out for ever), `FreshReportSameOutage`, `UnfinishedIsRunning`, `SavedNeverNewer`, `QueueDrains` |
| `subscription_update` | host A on two servers, host B on the first with either of two credentials, mass revision of 2; 99 thousand states | `ResultsFollowConnection`, `MassConfirmed`, `Settles` |
| `alerts` | 1 node, 2 chats, 3 kinds of save with different preferences, no environment or one with a chat, queue of 2, 1 restart; 259 thousand states | `OwnAlertsOnly`, `AgreesAtRest`, `Informed` |
| `network_control` | both sources, all three actions, 2 deaths or runs of `start.sh`; 135 thousand states | `RequestsServed`: the source changes only as asked (`ChangesAsAsked`) and nothing is left lying (`NothingBlocks`) |

### Bounds

* One node is enough for the properties of `NodeMonitor`: each speaks of one
  node, and nodes influence each other only by delaying the recording of a set,
  which the model delays at will (`RecordResults` and `FinishCheck` are separate
  steps, and any worker may pause between them). The proofs hold for any set of
  nodes. Two revisions of one address and one of another are the fewest with an
  edit that moves the address, one that does not, and a way back.
* With `Past` = 1 and `MaxClock` = 4 three measurements or changes follow the
  start: a change followed by two measurements, enough for two confirmations with
  one of them from before the change, or three measurements, enough for a
  failure to add to restored ones and for two overlapping sets that each measure
  and record. Three failures in a row are reached from none and from two. Without
  saved files four of them from an empty start were checked as well (1.4 million
  states, `Saved` = {} and `Past` = 0). Every mutant of the properties is
  found. `MCSaved` holds a state of every kind with counts at the edges of what
  `CountersFit` allows; the proofs hold for all.
* Three ports let one be replaced while a third rotates; two reads are the
  smallest number for which `count == len(reads)` can fail. `DetachAfterPolls`
  is 30 in the code; the steps between the first and the last missed poll are
  alike, so 4 has all cases.
* Limits 1, 2 and 20 have the allowances 1, 1 and 2; 0 is no limit.
* `diagnosis`: a queue of 1 and two nodes let it be full; one node comes and
  goes, the other stays dead with another symptom. One recorder, one restart and
  one revision keep liveness within reach; two recorders were checked for the
  invariants alone. With one revision a reload only drops a node and brings it
  back, and the symptom clause of `Superseded` is not exercised: each node has
  one symptom. `FreshReportSameOutage` failed only with one node and `MaxClock`
  = 10 in its first form (see 13 below); it now speaks of `since`. `MaxClock` =
  6 holds an outage, its report, a recovery and a second outage.
* `subscription_update`: three bindings at most at a time, with two equal ones
  told apart by a suffix, a rename, an edit and a mass revision of two.
  `MCSubscriptionUpdate` has TLC evaluate `PlanPairsOnce` and `NoMassOfItself`
  for every pair of lists of the run, the empty one included, both of which are
  proved for all lists.
  Five bindings (483 thousand states) were checked for the invariants alone.
* `alerts`: what is said of one node does not depend on the others but for the
  order within a digest; two alerts in the queue are an outage and its recovery.
  Two overlapping saves and `unstable` were checked for the invariants alone; in
  the run a save overlaps with `Disconnect` only. The second chat is the one that
  is asked for without recoveries and the one an environment names.
* `network_control`: two deaths let the supervisor die in a tick and again while
  it cleans up, or race with a `start.sh` by hand. Only one POST is under way at a
  time, since `networkControlMu` is held from its checks to its write.
* The two runs of `CheckRuntime` divide the goroutines; the proofs are for any.
  Liveness is checked with four goroutines: the updater's own loop beside a
  verification is in the other run only, which checks deadlock. A refresh with all
  its locks is what a verification begins with, so the live run has it too.

### Fairness

* `ProbeBudget`: a probe ends (every request has a timeout), a runnable goroutine
  runs, and Go wakes the senders blocked on a channel in the order they blocked:
  strong fairness of taking a token or slot, weak of the rest. A context need
  not ever be done, and a client need not ask.
* `CheckRuntime`: strong fairness of each goroutine's step, for the same reasons
  and because a `sync.Mutex` goes over to handing itself to the longest waiter
  (starvation mode) and a `sync.RWMutex` admits waiting readers when a writer
  leaves. Starting a program is not fair.
* `Diagnosis`: goroutines that can go on do so and every probe ends; strong
  fairness of `BeginAutomatic`, since the worker tries again every half second
  and priority work does not go on for ever. Checks, manual starts and restarts
  are not fair.
* `SubscriptionUpdate`: polls go on while the subscription stays as it is, a
  refresh that began goes on, and not every start of Xray fails (strong fairness
  of `ReloadAll`). Without the last one nothing is ever installed.
* `Alerts`: the ticker runs, and a message that is tried again and again gets
  through, at whatever place of the digest it stands.
* `NetworkControl`: launchd keeps the supervisor running and its loop goes round.
  Nobody who asks is fair: they may ask or not, and die half-way.
* `NodeMonitor` and `EndpointPool` state safety only and assume no fairness.

Deadlock is checked in every run; `CHECK_DEADLOCK` is never switched off.

### Where the code and its documentation differ

1. README: "A background check and a manual check cannot race and overwrite each
   other's result." Requests are serialized, but the background outcome is only
   recorded when its set is done, so a manual re-check can replace it before it
   was counted (`node_monitor_overwrite`). `StoreIsMailbox` says what remains
   true: whatever is stored is newer, and nothing is counted twice.
2. README: `Fixed` means "two clean successes followed a configuration change".
   A DNS change during a check set lets a success from before it count
   (`node_monitor_fixed`). For a subscription reload the claim holds:
   `FreshAfterReload`.
3. README: a replaced port is detached "if every sample in two consecutive
   refresh rounds reports the new port and not the old one". The code wants one
   revision of the new port in every sample (`endpoint_pool_replaced`).

Met while modelling, and stated without a run of their own:

4. `docs/network-source-switching.md:31-32`, `network-source-control.py:147-152`
   and `start.sh:130-132` say that the running supervisor never switches the
   source. A reconnect (`iphone-supervisor.sh:83`) runs `start.sh` without
   `NETWORK_SOURCE_ID`, which makes the choice of a startup: with the phone
   detached and the router configured it switches. `ChangesAsAsked` allows it.
5. A reconnect request left while the router is made the source is not taken, and
   its file blocks both kinds of request until the phone is the source again.
   `NothingBlocks` excepts it.
6. A tick that dies between publishing its result and removing `processing.json`
   has its finished job reported as interrupted; one that dies between the switch
   of the bridge and the saving of the configuration leaves the two different.
7. `README.md:214-218` asks for the same mass revision "in two consecutive refresh
   cycles": cycles without a difference and failed ones in between do not start
   the count again. `MassConfirmed` says what holds.
8. A start of Xray that fails leaves it stopped with the old list current; if the
   subscription then returns to the old list nothing is started again
   (`main.go:357-368`). `Settles` therefore speaks of the list.
9. A binding that Xray's validation rejects makes every poll differ from the list
   in use, so that Xray is restarted at every poll (`xray/config.go:98-143`);
   `Settles` assumes that it is accepted now and then.
10. Two bindings that swap their names lose one result (`monitor.go:269-275`), and
    so does an unchanged one whose `StableID` suffix shifts; a rename from an
    entry that was never measured keeps the result of the entry's last owner until
    the next check, which `ResultsFollowConnection` excepts.
11. `README.md:438-441` says that pending alerts survive a restart: they do when
    the checker restarts, but `start.sh` begins a session with a state file of its
    own (`NewSession`), as `docs/network-source-switching.md:95` says.
12. With overlapping saves, or a crash between the settings file and the state
    file, alerts raised for one chat may reach the other. A node that goes from
    critical by way of unclear to healthy gives no recovery. A digest of a
    recovery and a later outage of one node reads like an outage that is over.
    A chat that does not want recoveries, or no longer does, is left with a last
    word that no longer holds, as its owner asked for: `AgreesAtRest` excepts what
    was not asked for at the time. A token and a chat in the environment replace
    the saved recipient at every start, although a save of another is accepted
    (`alerts/manager.go:215-221`, `319-368`), and the queue stays: what was raised
    for the saved chat then goes to that of the environment. `OwnAlertsOnly`
    excepts these three cases: overlapping saves, a death within a save, and a
    restart with another chat in the environment than the saved one.
13. When the results file survives a restart and the file of node histories does
    not, a node's history is made anew from the saved result and its outages are
    numbered from the start. The number is all that a report remembers of its
    outage (`diagnosis.go:294-316`), so that a report of an earlier outage may be
    shown as a fresh one of the present. `FreshReportSameOutage` excepts the
    reports that are older than the history. The proof found it: the run is too
    short for it.
14. `checker/monitor.go:743-744` says that `WithChecksPaused` "prevents Xray from
    being restarted while requests are using its local SOCKS listeners". It does
    for those of the checker. Alerts go to Telegram through the same listeners and
    hold no lock of the checker, on purpose (`alerts/delivery.go:52-56`,
    `203-214`), so that a reload (`main.go:357-361`) may stop Xray under a
    delivery. `Deliver` in `CheckRuntime` is that delivery; `SocksUndisturbed`
    speaks of checks, diagnoses and access checks. For `Alerts` a delivery cut
    off is one that failed, and is tried again.
15. A start leaves states that the README's table does not describe: one clean
    round is enough for `healthy` (as ever), an unstable one counts as a success
    (`monitor.go:239-243`), and a healthy node whose result was not saved is
    `unknown` with the successes it had (`monitor.go:165-169`). `CountersFit` says
    so. What the first results after a start make of these counts is what they
    would have made of the rounds they stand for (`StateIsVerdict`). The results a
    start restores need not be in the histories it restores, since either file may
    be the older: `RecordedAtRest` and `NoResultOverwritten` speak of results
    measured since, and `FixedFollowsChange` of changes since.

## 4. Proofs

The proofs hold for all values of the constants under one named assumption per
module (`NodeStateAssumption`, `NodeMonitorAssumption`, `ProbeBudgetAssumption`,
`NetworkControlAssumption`, `EndpointPoolAssumption`, `DiagnosisAssumption`,
`CheckRuntimeAssumption`, `SubscriptionUpdateAssumption`, `AlertsAssumption`): the
special values are not ordinary ones, bounds are numbers, an address belongs to a
revision, sets of clients and nodes are finite. Four say more: `MaxClock` of
`Diagnosis` is at least 3 and that of `NodeMonitor` at least `Past`, the instants at
which their behaviours begin; a revision of `SubscriptionUpdate` has one server; and
in `CheckRuntime` the goroutines of the automatic worker do nothing else.
`SavedAssumption` of `NodeMonitor` says of the restored states what
`RestartsAreStarts` proves of every state. An invariant is proved by way of an
inductive one (`IInv`, conjunctions of named parts), with one lemma per action.

**`NodeMonitor`**

* `NodeMonitorTypes`: `Spec => []TypeOK`. `TypeOK` is not inductive: recording a
  result needs that the node is known, storing one needs the revision of the
  target. The invariant `TypeInv` adds `KnownPresent` (the monitor knows every
  node of the subscription), `JobsCurrent` (a set that is being checked aims at
  the connections its nodes have), `HoldersCheck` (a lock is held by a set that
  still has to measure the node) and `EvidenceHeld` (evidence exists only while
  its diagnosis runs, and for its targets).
* `StatesMatchCounters` and `CadenceMatches`: every writer of the repair state
  is one of six operators (lemma `MonitorWriters`), and each leaves counters and
  delay that fit. The former needs that results are applied to nodes that fit.
  Lemma `StartsRestorable` does the same for the two writers of the start.
* `RestartsAreStarts`: every state is `Restorable`. To the invariants above
  `NodesPlaced` adds that a node's address is that of its revision and never the
  address it had before, and that changes lie in the past.
* `ResultsKeepRevision`: with `TypeInv`, and `PrunedResults` (results of a node
  that left are gone before it can come back under another connection).
* `StoreImplementsMailbox`: `NodeMonitor` implements `ResultMailbox`, with the
  time of the stored result for `stored` and `LastResultAt` for `taken`. The
  invariant `TimesOrdered` says how the times of the stored result, of the last
  one counted and of a diagnosis' evidence may compare; lemma `EveryEffect` says
  what any step does to these three times of one node (six cases, one lemma per
  action), and the invariance of `TimesOrdered` and the mapping of each step to
  a put, take, clear or stutter are then arithmetic.
* `StateIsVerdict` (`VerdictMatchesHistory`): the state alone does not say what
  the next result makes of it, so the invariant `HistoryFollows` adds that the
  counters are the numbers of trailing successes and failures, restored rounds
  (`before`) included, and that no confirmation of a replacement is restored. Lemma `EveryHistory`: a step keeps a node's
  history, begins it or counts a result; `FollowsResult` is the third case, for
  histories of any length.
* `MeasurementsCountOnce` (`CountedOnce`) and `ConfirmationsAreFresh`
  (`FreshAfterReload`): `LogTimes` says that what was counted is in order and not
  newer than the last result counted, and that after a reload whatever is still
  stored or found, and so may yet be counted, was measured since. It follows from
  `EveryEffect`, `EveryHistory` and `PrunedResults`.
* `NothingIsForgotten` (`RecordedAtRest`): `OnTheWay` names the set that will
  count a stored result; for a diagnosis only a node whose evidence is promoted
  counts, since a failed or superseded tunnel leaves the set.

**`ProbeBudget`**

* `BudgetTypeOK`; `BudgetAccounting`: the counters are cardinalities of sets of
  clients, so a step changes both by one; `BudgetWithinLimit` and
  `BudgetLeavesCapacity` follow from it and the guards.

**`CheckRuntime`**: `CheckRuntimeTypeOK`, `SocksStayUndisturbed`,
`DiagnosesExclude`, `AutomaticAlwaysYields`, `NothingIsStartedAhead`,
`UnlocksItsOwn`, `NoPauseIsLeft`.

* The goroutines are any set, and each does any kinds of work, so nothing can be
  said of one of them by listing the places of its program. Instead, each program
  is a nest of locks and pauses (`Regular`, lemma `ProgramsRegular`), and what is
  left of such a nest after a step is one again: whoever is before a request
  holds `runtimeMu` for reading, before a reload for writing, before an unlock the
  lock (`Guarded`), and the pauses left to lift are those it has in force
  (`Nested`). A diagnosis is the exception, since its parts are skipped: it is the
  one program of eleven steps, and how many are left says what it holds and
  whether it runs (`DiagnosisAt`).
* `Pauses` ties these to `backgroundPaused`: it is the number of pauses in force,
  over all goroutines. `Exclusion`: a `runtimeMu` that is written is not read. One
  lemma per operation is then enough for all programs.

**`EndpointPool`**: `EndpointPoolTypeOK`, `PoolStaysRecent`, `ChangesAreConfirmed`,
`DetachesWithCause`.

* The invariant relates the counts the code keeps to the polls they stand for
  (`PendingIsRecent`: a half-confirmed change was reported in the poll before;
  `PoolIsRecent`). The action properties follow from it and from what the two
  loops of `Observe` do to one entry.

**`Diagnosis`**: `DiagnosisTypeOK`, `NodesAreMarkedOnce`,
`UnfinishedRunsAreRunning`, `SavedStaysNoNewer`, `FreshReportsAreOfThisOutage`.

* Six conjuncts: `Typed`; `Running` (a report without an end is that of `exec`);
  `Marks` (marked, and once in the channel, with the worker or on the way in);
  `Times` (nothing is from the future, and files are no newer than what was
  stored when they were written); `Shown` and `Outages` (numbers of outages grow
  within one history, and a report made since the history was made carries the
  number of the outage it was begun in).
* The attempt to prove `FreshReportSameOutage` without `since` failed for the
  reason given under 13 of section 3.

**`SubscriptionUpdate`**: `SubscriptionUpdateTypeOK`, `ResultsStayWithConnection`,
`MassIsConfirmed`, and of the plan alone `PlansPairOnce` and `NoListRevisesItself`.

* `ResultsFollowConnection` needs that results of bindings that left were pruned
  (`Pruned`) and what is known of the poll that waits for a confirmation
  (`Waits`). That the plan pairs every old binding at most once is what keeps two
  new bindings from one result. The plan is a recursive function over the places
  of the new list; instead of an induction over it, the least place for which a
  claim fails is shown not to exist.

**`Alerts`**: `AlertsTypeOK`, `AlertsReachTheirOwn`, `RecipientsAgreeAtRest`.

* `OwnAlertsOnly` speaks of the batch on its way; the invariant says of the
  queue too for whom its alerts are (`Owned`), and of a batch that it is a part
  of the queue (`Delivers`) unless a save has emptied or redirected that
  (`Dropped`).
* `AgreesAtRest` speaks of rest only. The invariant `Agreement` says it of all
  times, of what will have been said of a node once all that waits was read
  (`Outcome`): a failed message, a crash and a second delivery then change
  nothing. It holds for any preferences and any changes of them. `Digest` puts a batch in another order; that it loses no alert is
  shown of the places it assigns.

**`NetworkControl`**

* `NetworkTypes` and `SourceAsAsked` (the safety half of `RequestsServed`): the
  invariant adds `SwitchAsked` to `TypeOK`, since `Commit` itself checks nothing:
  only a request to activate of the present session gets past `Refuse` to
  start.sh, and nothing begins a new session before its tick ends. One lemma per
  process (askers, tick, choice of start.sh, rest of the supervisor) says that
  its steps keep the invariant and whether they change the source.

Only model-checked: liveness (`AcquireReturns`, `EverythingFinishes`,
`QueueDrains`, `Settles`, `Informed`, `NothingBlocks`) and freedom from deadlock,
which are outside the reach of the prover. Every invariant and every action
property of the passing runs has a theorem. The three properties of section 3
that are violated have none, of course.

## 5. Not modelled, and why

* HTTP and protocol details of a probe (an outcome is clean, unstable or fail);
  direct TCP and TLS probes of a diagnosis; parsing of subscriptions and
  generation of Xray configurations (pure translations); the hashes behind
  identities (values with the needed relations); wording, latency, metrics and
  pages (views).
* Which due nodes a scheduled batch takes (`dueProxies`) and when the TCP prober
  runs: `NodeMonitor` lets any set be checked and any probe happen, so its
  properties do not depend on it; that no due node waits for ever is not shown.
* The measurement route's file and its age: each reading is a free choice.
* Completeness flags and the resumed sweep of saved results; the bounded event
  history and the recoveries of a node, which are only shown.
* Address changes, the network's own alert and the choice of a route in the
  alerts: they share the queue that is modelled.
* The bridge (Colima, the network devices), the supervisor's failure counts and
  cooldown, `network-watch.sh`, `stop.sh` and the pruning of sessions.
* The documentation site and the static browser scripts: no logic of the program.

## 6. Plan

1. `dueProxies` against a reference definition (reserved places, borrowing, turns).
2. Refinements stated for one component only so far: a queue that holds each node
   at most once for `Diagnosis`, a confirmed list for `SubscriptionUpdate`.
