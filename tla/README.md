# AndroidStabilityLab in TLA+

A verification development kept beside AndroidStabilityLab, a laboratory that runs stability
scenarios (monkey, cold start loops, device cycles, ...) on Android devices, alone or unattended,
records what happened, and hands the results to reviewers and to other systems.

- [1. The system](#1-the-system): its parts, their state, how they interact, what is hard
- [2. The modules](#2-the-modules): what each models and how it corresponds to the code
- [3. What the runs show](#3-what-the-runs-show): properties, bounds, fairness
- [4. Outside the regimes](#4-outside-the-regimes): where the properties stop holding
- [5. What is proved](#5-what-is-proved)
- [6. What is not modelled](#6-what-is-not-modelled)
- [7. Plan](#7-plan)

`PROJECT.json` lists components, runs, mutants, the source lines of each definition, findings,
hazards and theorems. In this directory, `tlc -config RunRestart.cfg MCRunExecution` checks a run and
`tlapm RunExecutionProofs.tla` checks proofs. Source paths below are relative to
`src/stability/`.

## 1. The system

Everything is one Python package used by several **processes** at once: the command line, the web
portal (a thread per request), the unattended patrol runner, and the
outbox delivery daemon. They share no memory. They meet in a SQLite database (tasks, runs,
instances, devices) and in directories of JSON files (heartbeats, outbox, sessions, cases, rules,
baselines, submissions). Database reads give copies, saves overwrite whole rows; a JSON file is read
whole, edited in memory and written whole, without a lock and mostly without a rename. On the other
side is a device whose connection comes and goes. Nearly everything hard in this system comes from
these two.

| Part | State | Operations | Hard because | Correct when |
|---|---|---|---|---|
| **Run execution** (`app/run_execution_service.py`, `app/run_execution/`, `app/execution_service.py`, `execution/state_machine.py`) | rows of the run and its instances; per service object a lifecycle lock and the stop events | `create_run`, `execute_run` (serial or a thread pool), `stop_run` | workers, scheduler and stoppers on stale copies; retries; failing reports; death between two saves | the run status is what the instances amount to; nothing is left active; no scenario starts twice; a stop is obeyed; calls return |
| **Patrol runner** (`app/unattended_runner_service.py`) | `runner.lock`, `runner_status.json` | `run`, `show_status` | judging a lock stale is a guess about another process; three file operations to take over | a runner keeps its lock unless it was silent too long; a dead runner's lock expires; a live one is not called stale; no lock is left |
| **Unattended tasks and rounds** (`app/unattended/`, `app/device_service*.py`) | task row with rotation and next run time; device rows with failure streak, quarantine, probe | configure, enable, run a round, run due tasks; probe, synchronise, recover | rows saved back hours after they were read; a round that raises; failures reported by several rounds | devices are served in turn; only a streak quarantines and only evidence releases; an enabled task keeps running |
| **Integration outbox** (`app/integration_outbox_service.py`, `app/integration_outbox/`, `application/integration_outbox.py`) | `events.json`, webhooks, worker status | publish, worker round, daemon, replay | readers and writers of one file across HTTP posts; retries, backoff, dead letters, alerts | no published event is lost; attempts are bounded; one alert per event; everything is settled in the end |
| **Rule governance** (`app/rule_governance_*.py`) | rule file, candidates, approvals, versions, active version, bindings | propose, approve, reject, publish, roll back, bind | the candidate carries the whole file as it was at drafting; four writes to publish | what is published was approved, once; file and active version agree; undo restores |
| **Baselines and reports** (`app/rule_review_reports/`) | baselines with history, latest audit with versions and index | set, promote, roll back | rollbacks are history entries; four files | history tells the current report; rollback takes back one; promotion adds nothing bad |
| **Admission cases** (`app/admission_case_*.py`, `app/collaboration/admission_workflow.py`) | collaboration record, case file, index, announced contracts | look, override, assign, move | two stores that are to agree, the second may refuse | record, case and announcements agree; a case's history explains it |
| **Identity, sessions, issue workflow** (`app/collaboration/`) | sessions, issues with events and defect links | sign in, resolve, revoke, expire; move, link | one file rewritten whole | a revoked session stays revoked; an issue is resolved on acceptable defects |
| **Replay and golden suite** (`app/rule_replay_*.py`) | rule files, draft, suite | draft, edit, accept, promote | drafts age while rules change | the suite passes and is what was promoted |
| **Quality gate** (`app/quality_gate_service.py`) | overrides; baseline, audit and policy as inputs | decide, override | a decision on a report that may move | decides on its own report; worse is never better; the last override stands |
| **Release submissions** (`app/release_submission_service.py`) | `submissions.json`, runs, outbox events | hand in, execute at once, sync | one file, announced step by step | what was announced is kept, and the last word is the record |
| **Retention** (`app/runtime_lifecycle_service.py`, `app/evidence_retention.py`, `app/snapshot_service.py`) | files by kind, age, size; snapshots | sweep, clean up, retain | two limits together, plan before removal | limits hold, the oldest goes, the protected stays |
| **Scenarios** (`scenario/`) | process on the device, attempt, loop counters | Monkey with recoveries; cold start, reboot, standby, install, script loops | lost answers, late effects, stops, leftovers of earlier runs | one Monkey at a time; a counted loop was real; gives up only when spent |
| **Monitoring** (`infrastructure/monitoring_*`, the sampler of run execution) | sessions, trace, samples, files | start, sample, last snapshot, stop | two threads on one list, two files and one flag | the trace is whole, in the last snapshot, and ended |
| **Issues and evidence** (`issue/`, `artifact/`) | issues of an execution, artifacts, excuses | detect, capture | the device may go while evidence is gathered | no line hides an issue; what is wanted is captured or excused |
| **Analysis and regression** (`app/analysis_service.py`, `app/comparison_service.py`, `app/regression_service.py`, `app/issue_fingerprint_*`) | issues, aliases and suppressions | group, compare, judge, alias | rules edited while a verdict is made | same issues are no regression; more issues are no better |
| **ADB collector** (`infrastructure/adb_collector.py`) | kept texts, last network counters, kept reading, stamp | ask for readings, over and over | texts kept half a minute; three commands with different counters share one last value; sampler and last snapshot use it at once | readings are fresh, traffic told moved |
| Tasks, records, web, CLI, desktop, health, batch writer | | | | section 6 |

**Interactions.** The patrol runner calls `run_due_tasks`; a round creates a run and calls
`execute_run`, which calls a scenario, monitoring, detection and artifact capture; the round reports to
the device registry. Operators call `stop_run` from the portal: on the service object that executes
the run, or, for a run started by the command line or the patrol, in another process. Case, workflow
and submission changes publish events into the outbox; its workers post to webhooks. Reviews produce
reports, which feed baselines; a moved baseline moves gate, admission case and submission result.
Rules of governance group the issues that analysis and the golden suite compare.

## 2. The modules

| Module | Is |
|---|---|
| `RunExecution` | `execute_run` and `stop_run` over the database, one step per transaction or test of the stop event |
| `RunLifecycle` | abstract: what the state machine promises of the persisted statuses; `RunExecution` implements it |
| `PatrolRunner` | the patrol runner's lock, heartbeat and cycle, one step per file operation |
| `UnattendedRounds` | rounds of a task over the device registry, with patrols, operators, pages and the clock |
| `IntegrationOutbox` | `events.json`, its publishers, workers and operators, one step per read, post or write |
| `OutboxPromise` | abstract: the life of one item given to the outbox; `IntegrationOutbox` implements it |
| `DeliveryDaemon` | the commands that deliver the outbox, over `webhooks.json` and `worker_status.json`, one step per read or write of these and per delivery |
| `RuleGovernance`, `Baselines`, `AdmissionCases`, `Collaboration`, `GoldenSuite` | the file-backed services of a review: commands of several processes, one step per file |
| `QualityGate`, `ReleaseSubmissions`, `Retention` | gate, submissions and cleaning, likewise |
| `MonkeyScenario`, `ScenarioLoops` | one execution of a scenario against a device that may be lost |
| `MonitoringSession` | the executing thread and the sampler with their trace, list and files |
| `CollectorReadings` | what the collector keeps of the device and gives again, one step per command or access |
| `IssueEvidence`, `IssueAnalysis` | detection and capture for one execution; grouping, comparison and verdict |
| `Governance` | the five review modules in one specification; its variable `focus` says which one moves |
| `Services` | the remaining ten, likewise |
| `RunExecutionProofs`, `PatrolRunnerProofs`, `UnattendedRoundsProofs`, `IntegrationOutboxProofs`, `RuleGovernanceProofs`, `AdmissionCasesProofs` | theorems of one module each |
| `GovernanceProofs`, `ServicesProofs` | theorems of the parts of `Governance` and `Services` |
| `MCRunExecution`, `MCPatrolRunner`, `MCUnattendedRounds`, `MCIntegrationOutbox`, `MCGovernance`, `MCServices` | model values, circumstances and functions for TLC |

Definitions named "Mutant" in a comment are plausible mistakes of the code (an omitted guard, an
off-by-one, a swapped reset). `PROJECT.json` says which property finds which of them; no action uses
them.

In most modules a variable `circumstance` (`regime` in `UnattendedRounds`) is chosen at the start and
never changes: who runs, whether a process may die, how many commands there may be, and the
configuration. One run so checks every circumstance in the list of its MC module, and a property that
holds only without overlap or death says so in its first conjunct (`Orderly`: one process, no death).
In `Governance` and `Services` the state is the disjoint sum of the modules': `focus` is chosen at
the start, the others stay at one fixed initial state. These modules do not interact step by step
(they meet in files that the module reading them takes as inputs), so a product would show nothing
the sum does not.

### RunExecution

State: `dbInst` and `dbRun` are the persisted statuses. Each call (`Executors` call `execute_run`,
`Stoppers` call `stop_run`) has its own objects, `runCopy` and `instCopy`, because the SQLAlchemy
repositories build new objects on every read and write the whole row on every save. `lock` and
`stopEvent` belong to a service object (`ServiceOf`), not to the run. `pc` is the position of
`_execute_instance` per executor and instance; `todo`, `halted`, `limit`, `stopOnFailure` are the
locals of the scheduling loop.

| Action | Code |
|---|---|
| `BeginCall`, `ReadForExecute`, `ReadForStop` | `_get_run`, then the list of instances; an execution with nothing executable returns |
| `ClearStopRequest`, `RequestStop` | the stop event of the run on this service |
| `Submit`, `Reap`, `Raise`, `Return` | the loop over futures; a raising worker ends the run, but only after the workers in flight; `stop_on_failure` halts it |
| `CancelNext`, `CancelList`, `CancelPut` | `cancel_instance`: save under the lock, list, save the run |
| `Prepare`, `CheckBeforeStart`, `MarkRunning`, `MarkRunningSave`, `MarkRunningRefused` | the start; the run is saved first, the instance second |
| `CheckBeforeScenario`, `ScenarioReturns`, `ScenarioRetries`, `ScenarioRaises`, `CheckAfterScenario` | the scenario with its retries and the tests of the stop event around it |
| `Collect` | collecting and artifact capture, which may raise |
| `Handle`, `HandlerRaises` | `except Exception`, which asks the state machine and may itself raise |
| `FinishSave`, `FinishList`, `FinishPut` | `complete_`, `fail_` or `cancel_instance` with `sync_run_status` |
| `WriteReports`, `ReportFails` | the report, inside the try the first time, outside it in the handler |
| `Crash` | the process of a service dies: its lock, stop event and threads are gone, the rows stay |

Abstracted: device work to its outcome (success, failure, exception), monitoring and artifact
content, metadata, timestamps. Serial execution is the case `limit = 1`.

Which service object a call is made on matters. `bootstrap` gives every process one, and the portal
builds another for a start that names a monitoring backend (`_run_execution_service_for_backend`)
while its stop handler keeps using the first. So "same object" and "different objects" are both real;
`ServiceOf` says which.

### PatrolRunner

State: `lockOwner` (who created the `runner.lock` that is there), `heartbeat` (the last payload, or
`NoBeat` when there is no readable JSON), `pc` and `interval` per runner, `startedAt` and `beat`
(when a runner read its start time and when it last wrote). Two history variables say what went
wrong: `overdue` (a starter found a living runner silent for longer than the limit) and `robbed` (a
starter unlinked the lock of a living runner).

| Action | Code |
|---|---|
| `Start`, `Open`, `Judge`, `Unlink`, `Reopen` | `run` and `_acquire_lock`: `O_EXCL`, then `_is_stale_lock`, `unlink`, and a second, unguarded `O_EXCL` |
| `Truncate` | `write_text` empties the file before writing |
| `Hello`, `BeginCycle`, `Patrol`, `EndCycle`, `Wake` | the loop with its two heartbeats around `run_due_tasks` and the reports |
| `Interrupt` | `KeyboardInterrupt`: in the `try` the `finally` block follows; before it, or in the `finally` block, the runner ends and leaves the lock it may have created |
| `FinalHeartbeat`, `Release` | the `finally` block; the lock is removed by name |
| `Crash` | death without the `finally` block |
| `LockState` | `show_status` |

Time is counted in ticks. A patrol lasts up to `MaxPatrol` ticks, a sleep exactly the interval,
every other step takes any time. `MaxPatrol` may well exceed the stale limit, as patrols do in the
code: nothing is written while `run_due_tasks` executes its rounds. "Running" and "ended" stand for
the statuses: `_is_stale_lock` treats all that are not running alike.

### UnattendedRounds

State: `device` and `task` are the rows, `rows` and `call` the copies and locals of each actor,
`physical` what adb would say. Moments are kept as the time left until them.

| Action | Code |
|---|---|
| `Patrol`, `RunDueTask`, `RunRoundNow` | `run_due_tasks` (every listed task once), `run_task_round` by an operator, with or without force |
| `ProbeSkip`, `ProbeAsk`, `ProbeAnswer`, `Return`, `ProbesDone` | the throttled probe of quarantined devices |
| `Load`, `Select`, `Execute`, `ExecuteRaises`, `Record`, `SaveState` | a round: read the task, choose devices (pool, backup, rotation window), run, report each device, write rotation and next time back from the copy |
| `Configure` | an operator's configuration |
| `SyncRead`, `SyncAsk`, `SyncSave`, `SyncDone` | a page that synchronises the registry with adb: the rows are read, adb is asked, and the rows are saved one by one |
| `Change`, `Tick` | the world |

### The review modules

Each has `command`, what a process is doing with what it has read, and one variable per file. An
action is the code between two file accesses; a write is one step, or, where the file is written in
place and the process may die, a step that leaves it torn (`Crash`, `Die`).

| Module | Actions and their code |
|---|---|
| `RuleGovernance` | `Bind`, `Propose`, `ReviewRead`/`ReviewWrite`, `PublishRead`, `RollbackRead`, then `WriteFile`, `WriteVersion`, `WriteActive`, `WriteCandidate` in the order of the code |
| `Baselines` | `CreateReport`, `SetBaseline`, `PromoteCompare`/`PromoteSet`, `RollbackBaseline`, then `WriteLatest`, `WriteVersion`, `ReadIndex`, `Prune`, `WriteIndex`, `SaveRegistry`. Comparison of reports is defined from the families of their snapshots |
| `AdmissionCases` | `MoveBaseline`, `RecordOverride` from outside; `View`, `Collaborate` with `SaveRecord`, `LoadCase`, `Apply`/`Refuse`; `ReadGate`, `ReadPrevious`, `Number`, `WriteCase`, `WriteIndex`, `Publish` |
| `Collaboration` | `Renew`, `SignIn`, `Revoke`, `Resolve` of sessions; `Act` on issues; `Load` and `Write` of the file; `Tick` |
| `GoldenSuite` | `ChangeRules`, `DraftIssues`, `DraftRules`, `DraftLoad`, `EditId`, `EditExpected`, `PromoteLoad`, `PromoteMerge` (which merges and replays what was read, and touches no file), `Truncate`, `Write`. A case may expect the unchanged families itself, or has them in its summary |
| `QualityGate` | `SetBaseline`, `WriteAudit`, `SaveBaseline`, `RecordOverride`, `LoadOverrides`, `WriteOverrides`; the decision itself is an operator, `get_quality_gate` reads and writes nothing else |
| `ReleaseSubmissions` | `Create`, `Execute`, `FindEnded`, `Sync`, `Load`, `Save`, `Announce`; `RunEnds` and `Decide` from outside |
| `Retention` | `Write`, `MakeSnapshot`, `WriteSnapshot`; plans `SweepEvidence`, `Cleanup`, `SweepSnapshots`, then `DeleteEvidence`, `DeleteChild`, `DeleteSnapshot` one by one; `Day`. A kind without a rule has the configured or the built-in default |

### The device modules

| Module | Actions and their code |
|---|---|
| `MonkeyScenario` | `Start`, `Connect`, `Begin`, `Clear`, `Launch`: an attempt; `Finish`, `Lose`, `Drift`, `TimeOut`, `Stopped`: how the command ends; `Judge`, `Recover`, `Wait`, `Reconnect`: what `run` makes of it; `StopHost`, `StopDevice`: `stop_run` (which may come while the guard terminates an application that has drifted); `ComeOrGo`, `OrphanEnds`, `Tick`: the world |
| `ScenarioLoops` | a loop's commands one by one, each carried out or not and answered or not, retried once over the network, the waits and polls between them |
| `MonitoringSession` | `StartSession`; per thread `CollectMetrics`, `CollectTrace`, `AppendSample`, `WriteSnapshot`, `WriteSamples`; `SampleLoop`, `Sampled`, `SampleFailed`; `ScenarioEnds`, `AskToStop`, `Join`, `JoinTimesOut`, `MainFailed`, `Finally`. What ending and fetching the trace comes to is `Fetches`: the device may not take the stop, the file may not be pulled, and all of it may raise |
| `CollectorReadings` | `Ask` (and what is given again), `ReadText` per command with its kept text, `Garbled` and `ReadWhole` (the fallback), `Compute` and `Store` of the last counters, `Batch` of an app, `Keep`, `Stamp`; `Traffic`, `Reboot`, `Disconnect`, `Reconnect`, `Tick`: the device |
| `DeliveryDaemon` | `Begin`, `Select`: a command and its webhooks; `StartRound`, `ListTargets`, `Deliver`, `Finish`: `run_delivery_worker`; `Heartbeat`, `Judge`, `Wake`: the daemon and the loop of rounds around it; `TruncateStatus`, `SaveStatus`, `CountReplays`: `worker_status.json`; `Register`, `TruncateWebhooks`, `SaveWebhooks`: `webhooks.json`; `Ensure`: `_ensure_ci_webhook`; `Replay`; `Publish`, `Tick`, `Die` |
| `IssueEvidence` | `AddLine`, `Detect`, `DetectionRaises`; one capture step per kind (`CopyContext`, `Bugreport`, `Dump`, `Meminfo`, `Trace`, `Logcat`, `Remote`), each kept, excused or ended by a full disk; `Drop`, `Return` of the link |
| `IssueAnalysis` | `Record` an issue, `LoadRules`, `TruncateRules`, `WriteRules` of the fingerprint file; `StartAnalysis`, `ResolveNext` (the file is read again for every issue), `OtherSide`, `Judge` |

### IntegrationOutbox

State: `registry` is the list in the file, `buf` a process's copy, edited as it goes, `emitted` the
alerts a worker appends at its save; `hook`, `idx`, `tried`, `clock` are a worker's place in its
round. `published`, `accepted` and `reached` are history.

| Action | Code |
|---|---|
| `PublishLoad` | `publish_event`: read and append |
| `DeliverLoad`, `Post` | `run_delivery_worker`: per webhook, read the list, post what is due (`IsDue`), edit the copy (`AfterPost`), raise an alert (`NeedsAlert`) |
| `ReplaySelect`, `ReplayLoad` | `replay_dead_letter_events` turns a request into ids by one read, `replay_dead_lettered_events` resets them by another; an empty list of ids is no filter |
| `Truncate`, `Save` | `_save_registry` |
| `Crash` | death of a process at any step |

Receivers are external. A post comes to one of `ok`, `lost` (it arrived, the answer did not; the
worker sees a timeout and tries again), `retry` (5xx, no connection) and `reject` (not retryable).
`accepted` is what a worker was told was taken, `reached` how often an item has arrived, told or not.
A lost answer and `retry` are the same to the worker; which answers a run has is in its cfg. Not modelled: payloads, signatures;
webhook registration and worker status are in `DeliveryDaemon`. The replay's default limit of 20 exceeds the dead letters of every
instance. That `delivery_interval_seconds` has passed since the last attempt is implied by the retry
time, as no backoff is shorter than the interval.

## 3. What the runs show

| Run | Instance | Shows |
|---|---|---|
| `run_stop_one_service` | 2 instances, 1 execution with 1 or 2 workers, 1 stop, one service, a retry, failing reports | `QuiescentRunTruthful`: when every call has returned, the run status is what its instances amount to and nothing is left active |
| `run_restart` | 2 instances, 2 executions one after the other with 1 or 2 workers each, failing reports, a crash at any step, fair | `ScenarioAtMostOnce`, `ImplementsLifecycle`, `CallsReturn` |
| `run_stop_lost` | 1 instance, 1 execution, 1 stop | finding: `NoStartAfterStop` is violated |
| `patrol` | 3 runners; orderly starts with deaths, or any order with torn heartbeats and no death; patrols up to beyond the stale limit | `SingleRunner`: a patrolling runner's lock file is its own unless a starter removed it from a living runner, which in orderly starts takes a silence beyond the limit; `JudgedByHeartbeat` (until then the status page tells the truth of a patroller; only a runner heard of lately keeps another out); `NoLockLeft` |
| `patrol_takeover` | the same runners, orderly, no death | finding: `OnePatrolAtATime` is violated |
| `outbox_serial` | 2 events, 1 webhook, publisher, worker, operator with one replay, lost answers, one writer at a time, a death, fair | `NoEventLost`, `ImplementsPromise`, `EventuallySettled`, `RetriesAreBounded`: what was acknowledged is not posted again unless a worker died, and an item arrives no more often than threshold, replays and deaths allow |
| `outbox_overlap` | 1 event, publisher, 2 workers with 2 webhooks, operator, lost answers, overlapping | `FileTellsTruth`: delivered means acknowledged by one whose receipt is there, an event alerts once |
| `outbox_lost_update` | 2 events, publisher and worker overlapping | finding: `NoEventLost` is violated |
| `rounds` | 3 devices, one flaky, 3 settings; everybody in turn, a patrol beside pages, a patrol beside an operator; fair | `DevicesAreServed`, `QuarantineOnEvidence`, `QuarantineEnds`, `EnabledTaskRuns` |
| `governance` | the five review modules, 1 or 2 processes, deaths, up to 4 commands | the table below |
| `services` | the other ten | the table below |
| `cleanup_young` | a task of three days with a log of today | finding: `CleanupTakesOnlyOld` is violated |

Each run's type invariant is checked too. The parts of a property are definitions of their own in the
module, each with its statement.

| Property | Says |
|---|---|
| `PublishedAsReviewed` | a published candidate had its approvals, nobody's last word was against it, and it was published once |
| `FilesFollowVersions` | the rule file is the active version's, undo restores what was before, and a valid file is never followed by an invalid one |
| `HistoryIsSound` | the last history entry is the current report, a rollback takes back one move, audit and index agree with the registry |
| `PromotionAddsNothing` | a promotion under the policy brings no failure, finding or family |
| `StoresAgree` | between commands the collaboration record and the case say the same; revisions are announced in order and once; the last contract is the case's |
| `HistoryExplainsCase` | however commands overlap or die, events and role changes lead to the case as it is |
| `CollaborationSafe` | events tell an issue's state and links, it is resolved only on acceptable defects, a defect has one link; a person has one fresh session, a revoked one stays revoked |
| `GoldenSafe` | a draft passes as drafted, and what it calls unchanged is grouped the same; a suite written by promotions alone passes, is what was promoted and is replaced only as told |
| `RetentionSafe` | after a sweep each kind is within its limits, the oldest went first and no more than needed; the newest snapshots stay; the protected stays |
| `MonkeySafe` | an attempt that cleared its device runs alone; gives up on a recoverable failure only with the budget spent; no attempt after a stop that terminated one, unless what was printed held a mark the runner recovers from, or the device was away |
| `GateSafe` | the gate decides on its own report with the nearest policy, no better on a worse report; an override stands |
| `SubmissionsSafe` | whoever overlaps or dies, a record and an event tell how a run ended (but for a failure of `execute_run`'s own); what the platform was told of has its record, unless the file was written over what had not been read; the last thing told is what the record says, unless two were at work on it or one died before telling |
| `LoopsSafe` | a loop counts only what happened on the device; success leaves the device as commanded; a removal with a lost answer is forgiven |
| `TraceSafe` | no sample ends the trace early, the last snapshot has it and its files stay, unless a sampler outlived the wait; an ended execution has told its trace to end, and what records on did not take the stop |
| `AnalysisSafe` | aliases meet; the same issues are no regression; worse metrics and severe new issues show; one more issue gives no better verdict |
| `EvidenceSafe` | a further line hides no issue; what an issue wants is captured or excused; files are those listed; one bugreport |
| `ReadingsSafe` | a reading is no older than what may be kept, one time after the other; the traffic told is no more than moved, unless commands were mixed or calls overlapped |
| `DaemonSafe` | the status never tells of more than was done, of all of it with one writer, and shows a running daemon; a daemon that stops as idle leaves nothing that was pending; a failed entry is not posted twice in a round; a callback goes to its endpoint, Feishu messages to bots |

**The findings.**

1. `run_stop_lost`: `execute_run` clears the stop event after it has read the instances. A
   `stop_run` that completes in between is forgotten; the run it cancelled is executed from stale
   copies. `stop_run` is documented as terminating "a running or queued run".
2. `patrol_takeover`: no heartbeat is written while a patrol executes its rounds, and one that is
   older than three intervals (at least five minutes) counts as dead. A longer patrol loses its lock to the
   next start, and both patrol; the first to end then removes the other's lock by name. The
   README promises "single-runner lock and heartbeat files".
3. `outbox_lost_update`: publish and delivery both read, edit and rewrite `events.json`; delivery
   holds its copy across all its posts. An event published meanwhile is gone. The README promises
   "durable event files".
4. `cleanup_young`: a directory keeps the time of its creation while runs write further down, so a
   cleanup takes a task whose latest run is of today. The design says that only what is older than the
   retention period is a candidate.

**Bounds and why they are enough.**

- *Run execution.* Two instances are the fewest at which a run status aggregates, at which two
  workers race for the lock and at which one instance ends while another is pending; statuses of
  more instances are aggregated by the same quantifiers. Two executions show re-execution, and the
  theorem of section 5 covers any number. One retry distinguishes first, repeated and last attempt.
- *Patrol.* Three runners are a dead one, one that takes over and one that watches; with the stale
  limit at 3 (three intervals of 1, above the floor of 2), a clock to 7 lets a runner die, expire, be
  replaced and be judged again. `MaxPatrol = 5` makes patrols shorter than the limit, of its length, and taken for
  death. The regime without order ends at time 3 (`until`), just past the limit: what it adds are orders of steps, not
  more time.
  Runners are interchangeable (`SYMMETRY`); there is no liveness property in that run.
- *Outbox.* Two events show order and appending behind a held copy; two webhooks show that one is
  served before the other. Thresholds of 2 (dead) and 1 (alert) make retry, alert and dead letter
  distinct steps. The clock stops at `MaxTime` and a retry time beyond it is written as `MaxTime`, so
  nothing waits for a time that never comes. `MaxReplays` and `MaxCrashes` bound operator and deaths.
  `outbox_overlap` looks at states without the counts of arrivals (`VIEW WithoutCounts`): no guard reads them, and its
  property only what was acknowledged.
- *Rounds.* Three devices are two to rotate over and a backup, or a window of two of three; a
  threshold of two makes the first failure differ from the last; settings fix, rotate on every round,
  or rotate on failure.
- *Governance and services.* Two processes are the fewest that overlap; the number of commands of a
  circumstance is what the deepest of its properties needs (a publication, an undo and what it undid;
  a baseline that moves away and back; draft, edit, promotion, second promotion). The reports,
  families, policies, files, lines, issues and metrics of `MCGovernance` and `MCServices` are chosen so
  that each threshold is met, just missed and exceeded. Scenario circumstances vary the template, the
  connection (USB or network), the number of connection losses and the recoveries switched on. The
  daemons have up to three rounds and a clock to 2, so that a retry falls due between two rounds;
  webhooks that are registered twice, for all types, for bots, and for another endpoint.

**Fairness.** `RunExecution!FairSpec` is weakly fair for what a started call does next: Python
schedules its threads, and device commands have timeouts. Starting a call, a crash or a failing
report is never required. The lock needs no strong fairness: its holder is some fair call's next
step and calls are finite in number. `IntegrationOutbox!FairSpec` is weakly fair for rounds of the
workers (`run_delivery_daemon` loops until it is told to stop), for writing back what was read and
for the clock; publication, replay, deaths and particular answers of a receiver are not required.
`UnattendedRounds!FairSpec` is weakly fair for the patrol (the runner's loop calls `run_due_tasks`
again and again), for the steps of a patrol that was called and for the clock, and assumes that
configuring stops some day: each configuration starts the interval anew. The device is not required
to come back: the properties say "a device that stays online", "a task that stays enabled". All other
properties are safety.

**Where a system may stop.** `RunExecution`, `PatrolRunner` and `IntegrationOutbox` are checked for
deadlock; `Terminated` and `Stopped` allow stuttering exactly when every call has returned, when every
runner has ended, or when the clock has reached its bound. In `governance` and `services` commands,
attempts and time are bounded, so the system stops when they are used up, and deadlock is not checked.
That stops do not keep anybody waiting is what `run_stop_one_service` shows: there every execution is
finite, and without a deadlock it ends with all calls returned. `CallsReturn` adds executions that follow
one another, deaths among them.

## 4. Outside the regimes

The passing runs say in which regime a property holds; the same modules show how it fails in the
others, by changing the named constants or dropping `Orderly`.

| Change | What then happens |
|---|---|
| `RunExecution`: `AllowOverlap = TRUE` | two executions of one run both find an instance pending: `ScenarioAtMostOnce` fails; there is no claim on a run |
| `ServiceOf <- TwoServices`, `Services = {a, b}` | the lifecycle lock is per service object: a stopper in another process saves the run from a list that is old, `QuiescentRunTruthful` fails |
| a stop against a running execution | workers save their own copies over a cancelled row: "cancelled" is not final in the database, `ImplementsLifecycle` is claimed without stoppers |
| `stop_on_failure` after a crash | an instance left preparing is executable but is not cancelled by `_cancel_pending_instances`: it stays preparing in a run that has returned |
| `PatrolRunner`: regime `overlap` | a runner that has its lock and not yet a heartbeat is judged by its predecessor's and robbed of it: two starters both patrol, although nobody was overdue |
| regime `stopping` | a runner that has written its final heartbeat is judged stale and robbed, and then removes its successor's lock by name |
| regime `torn` | a reader of the truncated heartbeat takes the lock for stale and removes it |
| `Intervals = {1, 4}` | a runner with a short interval judges one with a long interval by its own: what is overdue to the one is not stale on the status page |
| a patrol beyond the limit | is taken over, in orderly starts as well: `overdue` and `robbed`, and run `patrol_takeover` |
| `IntegrationOutbox`: `Overlap = TRUE` | publishers, workers and operators overwrite each other: `NoEventLost` and `ImplementsPromise` fail; what the file says is still consistent (`outbox_overlap`) |
| a death in the write | leaves an empty file, in which nothing survives; `Crash` leaves it out |
| two webhooks | status, attempts and retry time are kept per event: the first webhook that accepts an event settles it for every other subscriber |
| a lost answer | the message is posted again although it arrived, at most as often as `RetriesAreBounded` says, with the same idempotency key; retry alerts are built with an empty key, so such a receiver cannot tell two of them apart |
| `DeliveryDaemon` | with two writers counts are lost; a round that raises loses its own, a daemon that raises or dies stays shown; an idle daemon without a webhook leaves everything pending, and one for some types goes on while events of others are pending; without interval it stops after one round; a worker for release or CI callbacks with `--max-rounds 0` does one round, although its help says that only time and idleness limit it; a Feishu worker without a bot, or any worker without names, serves all webhooks; a CI endpoint that is not local is never registered by a callback, which has no secret |
| a replay that matches nothing | the empty selection stands for no filter, and every dead letter is replayed |
| `UnattendedRounds`: not serial | the task row is saved whole at the end of a round: it undoes a disable, an archive or a configuration made meanwhile; device rows of pages and rounds overwrite each other |
| review modules: not `Orderly` | two readers of one file lose a decision, a candidate, an entry or a session; a death between two writes leaves the stores apart (a new file with the earlier index, version or audit) |
| `RuleGovernance` | a candidate is published as the whole file it previewed; what was published since its drafting is undone |
| `AdmissionCases` | the record is saved before the case refuses; a torn index resets a case to open and revision 1; a death before the announcement loses it for good; an override outlives its report |
| `GoldenSuite` | a case without an id is accepted unseen beside others; overlapping promotions lose cases; a draft without `--append` overwrites the draft before it, and the default id, of run and issue type, the case |
| `Retention` | what is written after the plan is deleted with it; a torn snapshot blocks the retention of all |
| `QualityGate` | after a death the golden suite of the latest audit may be another report's; an invalid scoped value falls to the class default |
| `ReleaseSubmissions` | two requesters that read the file before either writes it lose a record (`mishap.stale`), two on one submission may tell their words in another order than they save them (`mishap.crossed`); a request handed in twice becomes two; an execution that raises leaves "failed" over a queued or running run, whatever becomes of that |
| `MonkeyScenario` | a disconnect is looked for anywhere in the output: an application that prints "closed", on a working connection, makes the runner recover, and begin again after a stop; the same goes for INJECT_EVENTS |
| `ScenarioLoops` | silence of `pm`, `force-stop` and `getprop` is taken for success; `adb_script` passes a failing command |
| `MonitoringSession` | a sampler that outlives the two-second wait may hide the trace from the last snapshot and write an older snapshot over it; an unsupported trace backend means no monitoring at all; a trace whose stop the device does not take is marked final and records on; one that cannot be fetched is tried again and the end of the session only logs it; a trace fetched over the fallback is of the time after |
| `CollectorReadings` | a kept text gives a rate of nothing, and the next text all of the gain over the last interval; a change between the three commands, or two threads at once, tells traffic nobody sent |
| `IssueAnalysis` | the verdict is over the first groups only; the rules are read again for each issue; a torn file counts as no rules and the next edit makes that last; a metric worsened with too few groups masks a severe new issue to "suspected" |
| `IssueEvidence` | findings of different types share the key "unknown", so one hides the other; a line with a null recovery raises and loses all issues; an exception in a capture loses the records of all issues and leaves their files |

## 5. What is proved

TLAPS checks these for every value of the constants that satisfies the named assumptions
(`NAssumption`, `CallsAssumption`, `RetryAssumption`, `SwitchAssumption`; `RunnerAssumption`,
`TimeAssumption`, `RegimeAssumption`; `SettingAssumption`,
`ActorAssumption`, `RoundNumbers`; `RoleAssumption` and the others of `IntegrationOutbox`;
`ValueAssumption` and the others of `RuleGovernance`), which TLC evaluates on the runs, or, for the
other modules of `Governance` and `Services`, `ConstantsOK`, which is part of their checked type
invariants and says that circumstances are made of numbers, switches and names of the right kind. One of
these conditions is more than a type: `CollectorReadings` wants `Interval <= DataAge`, a reading kept
for at least as long as it is given again (the code asks every two or three seconds and keeps for
thirty). A further hypothesis is named in the table. Some are regimes, that is, what the callers do: without
them TLC finds the property violated (section 4).

| Theorem | Says | Further hypotheses |
|---|---|---|
| `RunExecutionProofs!TypeCorrect` | `Spec => []TypeOK` | |
| `ScenarioStartsOnce` | `Spec => []ScenarioAtMostOnce` | executions do not overlap |
| `RunAtRestIsTruthful` | `Spec => []QuiescentRunTruthful` | executions do not overlap, all calls on one service object, no death of the process |
| `RunKeepsLifecycle` | `Spec => ImplementsLifecycle`: `RunExecution` implements `RunLifecycle` | executions do not overlap, nobody stops them; deaths are allowed |
| `PatrolRunnerProofs!TypeCorrect` | `Spec => []TypeOK` | |
| `LockReleased` | `Spec => []NoLockLeft` | |
| `LockIsExclusive` | `Spec => []SingleRunner` | none: patrols of any length, deaths, interrupts; its parts name what they are said of: nobody robbed, or orderly starts |
| `LockJudgedTruly` | `Spec => []JudgedByHeartbeat` | none for refusals; the status page: orderly starts, until a living runner is found overdue |
| `UnattendedRoundsProofs!TypeCorrect` | `Spec => []TypeOK` | |
| `DevicesServed` | `Spec => []DevicesAreServed` | none for the selection; the rotation: one call at work at a time |
| `QuarantineJudged` | `Spec => QuarantineOnEvidence` | one call at work at a time |
| `IntegrationOutboxProofs!TypeCorrect` | `Spec => []TypeOK` | |
| `FileIsTrue` | `Spec => []FileTellsTruth` | none: overlaps, torn reads and deaths included |
| `AttemptsBounded` | `Spec => []AttemptBudget`, a part of `RetriesAreBounded` | none |
| `NothingIsLost` | `Spec => []NoEventLost` | one operation on the file at a time |
| `RetriesBounded` | `Spec => []RetriesAreBounded` | the same; answers may be lost and workers die |
| `OutboxKeepsPromise` | `Spec => ImplementsPromise`: `IntegrationOutbox` implements `OutboxPromise` | one operation on the file at a time |
| `RuleGovernanceProofs!TypeCorrect` | `Spec => []TypeOK` | |
| `PublishedOnlyAsReviewed` | `Spec => PublishedAsReviewed` | none for the approvals; the last word: one command at a time; once: and no death |
| `FilesFollow` | `Spec => FilesFollowVersions` | none for files that validate; the rest: one command at a time and no death |
| `AdmissionCasesProofs!TypeCorrect` | `Spec => []TypeOK` | |
| `HistoryKeptWhole` | `Spec => []HistoryExplainsCase` | none: overlaps and deaths included |
| `RecordCaseAndContractAgree` | `Spec => []StoresAgree` | one command at a time and no death |
| `GovernanceProofs!BaselineHistoriesAreSound` | `AllSpec => []HistoryIsSound` | none for history, baseline and rollbacks: overlaps, torn files and deaths included; the audit: one command at a time and no death |
| `PromotionsAddNothing` | `AllSpec => []PromotionAddsNothing` | one command at a time, deaths included; the policy in the repository |
| `CaseStoresAgree`, `CaseHistoriesExplain` | the two theorems about `AdmissionCases`, for `AllSpec` | as there |
| `CollaborationStaysSafe` | `AllSpec => CollaborationSafe` | none for the issues: overlaps, torn files and deaths included; the sessions: one command at a time and no death |
| `ServicesProofs!TypeCorrect`, `TraceKept` | of the monitoring: `Spec => []TypeOK`, `AllSpec => []TraceSafe` | |
| `MonkeyStaysSafe` | `AllSpec => []MonkeySafe` | |
| `SubmissionsStaySafe` | `AllSpec => []SubmissionsSafe` | none: any number of requesters and deaths; the parts but the first except what `mishap` names |
| `GateStaysSafe` | `AllSpec => GateSafe` | what a gate decides is said of commands nobody comes between |
| `LoopsStaySafe` | `AllSpec => []LoopsSafe` | |
| `ReadingsStaySafe` | `AllSpec => []ReadingsSafe` | none for freshness; the traffic: no overlap and one command |

In `UnattendedRounds` and the modules of `Governance` and `Services` the regime is part of the property: it is a
conjunct of each state it speaks of, not a hypothesis on the constants. A part of these two is proved of
its own specification, whatever its circumstances; `EveryRecordBehaves` and `EveryServiceBehaves` say
that every behaviour of the sum is one of each part, the others' steps being stutters, and so carry the
theorem to the specification the runs check.

`SingleRunner` does not say that two runners never patrol at a time: they do (`patrol_takeover`). It
says what stands between: the lock file is a patroller's own, hence one patrols at a time, unless a
starter has removed the lock of a living runner, and with starts one after the other that takes a runner that
was silent for longer than the starter's limit.

*ScenarioStartsOnce.* That no scenario was started twice is not inductive: a worker
about to start one must know that it was not started before, although the database may have changed
since its executor read it. `IInv` is `TypeOK` with `StartInv`, the conjunction of

- `OneExecutor`: at most one execution is in progress;
- `WorkersBelong`: only an execution in its loop has workers, on instances it no longer has to
  submit;
- `TodoNotStarted`: what an execution has still to submit, or is about to start, was not started;
- `StartIsPersisted`: a worker about to save "running" holds that status in its copy, and once it has
  saved it the row is not executable, whatever a stopper saves (it only ever saves "cancelled");
- `StartedNotExecutable`: the row of an instance that was started is never executable again.

The last one carries the fact across crashes: the next execution reads the database, and what was
started is not there to execute. The proof has a lemma per group of actions; `WorkerStepStart`
states once what a worker's step must satisfy, and `WorkerStart` applies it action by action.

*RunAtRestIsTruthful.* The run is derived from a list of the instances taken in one transaction and
saved in another; between the two, and between the save of an instance and both, the record is wrong. The
proof is in layers, each a conjunct of `RestInv`:

- `LockInv`: who is between these transactions, the call or one of its workers, holds the lock of
  its service, and is alone there;
- `ListedInv`: hence a run object that was listed and not yet saved is still what the instances
  amount to, as whoever saves an instance takes the lock or waits for it (this needs that the calls in
  progress share a service, `Together`);
- `SyncInv`: while the row of the run disagrees with the instances, somebody is still between a save and
  the synchronization it owes (`SyncDue`); an instance that is active has a worker that is still to
  finish it (`ActiveOwned`), whose copy is not terminal before (`CopyActive`);
- `PendingInv`: an instance that a call found pending is still on its list of things to do, until it is
  started or cancelled (`StopTodo`, `ExecuteTodo`); a call that returned left none (`DoneNonePending`).

`WorkerMoves` says once what a worker's step does at its own instance (nothing to the records, a save
of the instance, or a step at the run); the layers go through these three instead of sixteen actions. A
death would leave `SyncDue` without its somebody, and a second service has a lock of its own; for both
TLC shows the record wrong.

*RunKeepsLifecycle.* A step of the detailed model is a stutter of `RunLifecycle` or one of its steps if
it saves a transition the state machine allows from the status *in the database*, while the code tests
the one in its copy. `MirrorInv` says that, without a stopper, the copy a worker decides on is the row.
`RunInv` says which run statuses are possible while instances are active, so that `mark_running` and the
synchronization only make allowed transitions of the run as well. Deaths are steps like others: the next
execution reads what is there.

*LockReleased.* A lock file may be removed by anybody, so "the creator removes it"
is false. `CreatorThere` says less: while the lock of a runner is there, the runner is between its
creation and its release. A step that ends a runner either removes the lock, whoever created it,
or is taken where the runner cannot have created it.

*LockIsExclusive and LockJudgedTruly.* `LockInv` relates the lock, the heartbeat file and the clock, in three
layers. In any regime, a heartbeat is of a runner that has started and not of its future
(`HeartbeatIsOld`, `BeatsInTime`), whence whoever is refused was refused for somebody heard of. While nobody was
robbed, whoever is past the creation of its lock owns the file (`HeldIsOwned`): a release removes
one's own lock, and a creation needs that there is none. In orderly starts, as long as nobody was
found overdue, `Exclusive` holds: the heartbeat read by a starter is the holder's latest (`HolderHeardOf`),
so it finds it stale exactly if the holder is overdue, and who removes a lock meets nobody at work
(`RemoverMeetsNobody`), hence robs nobody.

*DevicesServed and QuarantineJudged.* That a selection serves the demand is a fact about `_select_devices`
alone, for any row of the task and any registry: `VisitsUntilEnough` says of a walk along an order of
devices, primary or pool, that it meets the wanted number of fit ones or all of them, and
`SelectionServes` puts the two walks together. The rotation needs an invariant, `SerialInv`: one call is at work
(`OneAtWork`), the copy of the task a round plans with and saves is still the row (`CopyCurrent`), and
for every primary device the places of the list its wait stands for, and those that are still before it,
are together less than once round (`Turns`). A round that is saved takes as many places from the
second as it adds to the first (`RoundMovesOn`), also where the step does not divide the list; a
configuration starts the count again. `JailInv` says of every registry row, and of every copy that will be saved,
that quarantine and a full streak go together, that copies agree with the rows, and that a round reports each
device once and success only of a device it was given: only then can a report release nobody. In other regimes a page saves rows that are
old, and `CopiesTrue` is false.

*FileIsTrue and AttemptsBounded.* `FileInv` is about every copy of the file at once: the file, and for each
operation what it has read and will write (`Draft`). In each, entries are unique, alerts belong to an
entry that had trouble, and what is told of a delivery was told by a receiver (`Sound`). Any copy may
be the next file, so overwriting another's copy loses entries but never makes one false. `BudgetInv`
counts the replays that were selected and not yet written against the budget.

*The serial outbox.* `SerialInv` adds `OneHolder` (one operation has a copy), `LaterVersion` (what it
will write continues the file: entries keep their place and move on from pending, or back from the dead,
and new ones are pending), `PublisherHolds` and `Kept` (what a publisher was given is in its draft;
what it has published is in the file). `ReceiptsKept`: without a death, every accepted post has its
receipt in the copy that is worked on, hence nobody posts again what was acknowledged. `CountsKept`: what
arrived is accounted for by the attempts of the list that is worked on, and by the deaths; the file is behind
that list by one attempt of each entry at most, because a worker tries an entry once in a round, and
that one is what a death forgets (`Behind`). The refinement reads `LaterVersion`
at the moment of the write: each item then makes one step of `OutboxPromise`, and an alert is
new only while its origin is in the file undelivered (`Scanned`).

*TraceKept.* The two threads share a flag that tells the sampler's snapshots to leave
the trace alone. `IInv` adds to three of the parts of `TraceSafe`: `FlagTells` (the flag is up exactly while the
sampler is in a sample), `SamplerWaitedFor` (once the main thread is past its wait, the sampler is dead
or it is `late`), `FinalIsLast` (the last snapshot is taken once, after the wait), `MainWrites`
(unless late, both files are the main thread's after its writes; this gives `FilesAreFinal`) and
`EndedIsOver` (a finalized trace that records, or one taken in its place, has a stop that failed). Without `FlagTells` a sample that failed
between two assignments could be any state; with it a sampler's snapshot skips the trace, and the
main thread's does not, unless late.

*PublishedOnlyAsReviewed and FilesFollow.* Commands decide on copies, so every invariant is about the files
and about what each command holds. `GateInv` (any regime): a candidate, a candidate about to be
written and the copy a publication took all have their approvals, and what a command is about to write
to the rule file validates; another command's copy may be written over a later one, and still has
passed. `WordInv` (one command at a time, deaths included): an approved candidate, and the one under
publication, were approved last; a death leaves the candidate torn, never approved. `OrderInv` (no deaths either)
says what the only command knows, `Knows(c)`, at each step: which candidates versions have
(`KnowsCandidates`: until the last write the candidate of the newest version is not yet marked), that nothing
written is empty (`KnowsContents`, as an empty file would stand for the defaults) and which of rule file,
newest version and active version agree (`KnowsFiles`).

*HistoryKeptWhole.* `HistoryInv`: every case in a file or carried by a command is explained by its own
history. A reader may take it from either file and an older one may replace a newer; each is whole, as
`Updated` only appends what `Updated` permits from the status before, and `Rebuild` takes the history
with the state it explains. This is why no overlap and no death can break it.

*RecordCaseAndContractAgree.* `AgreeInv` says, as `OrderInv` does, what the only command knows at each step:
of the record (`KnowsRecord`: it may be ahead of the case from its save until the case is written or
refuses), of the files (`KnowsFiles`: what it has written is there) and of the contracts
(`KnowsContracts`: the last one is that of the case it read, and the case it is to write has the same
contract or a later revision).

*BaselineHistoriesAreSound.* `BaselinesSound` (any regime) is about every copy of the registry, the file and
what each command read and will write: in each a baseline has the report its history ends with, revisions
grow, no entry repeats the report before it, and an undo takes one entry back. Any copy may become the file, and is
sound. `AuditsFollow` (one command at a time, no death) says which of the audit's files the only
command has written at each of its steps, the others being those of the history it read. The retention of the audit
keeps the last entries and those a person made: `RetainedLines` says that of the index with the new
line exactly the lines of these remain.

*PromotionsAddNothing.* `PromotionsCompared` carries a comparison from where it is made to the entry it permits:
`AcceptableAddsNothing` reads off what an acceptable comparison under this policy says of the two reports, and
`AllShown` that a report with no more families than are shown shows them all. A command at a time keeps
the baseline it was compared with the last one; a death leaves the entry unwritten.

*MonkeyStaysSafe.* `MonkeyPaid` relates the number of the attempt to what was spent: each attempt after the
first was paid for by one recovery or reconnection. `MonkeyAlone`: after a clearing that reached the
device no monkey is left, and while an attempt runs none but its own. `MonkeyHalted` follows the attempt a stop
terminated to its judgement: its result has the marks that were seen of it, and without any of them, on a device that was
there all the time, it is a plain failure, which none of the recoveries takes (`MonkeyExcused` is the rest).

*SubmissionsStaySafe.* `SubmissionTruth` (any regime): every copy of a record, in the file, read, to be written
or announced, tells the truth of its run, as runs that have ended stay so; whichever is written, the file is
true. `SubmissionOrder`, while no file was written over what had not been read: what was
announced has a record, who is about to announce has its record in the file, and every record that
was not crossed is what was last said of it (`SubmissionTold`) or is about to be said. `SubmissionCrossing`
keeps the count of who crosses: two that are at work on one submission have made it one of `crossed`.

*LoopsStaySafe.* That a step was real is judged after the device has changed again, so it is carried from command to
verdict. `LoopFinds` says what a step finds (a killed application does not run; of an installation's
first step the application is gone exactly if the step removed it), `LoopAnswers` what an answer tells of
the device ("unknown" only when the removal was done; success only of a command carried out, or with an excuse),
`LoopPlace` that a reboot polled for is under way or was made, and `LoopLeaves` how the last step of a loop
leaves the device, which the next loop or the success relies on. The excuses are part of the
theorem: they are the places where the runner does not look (section 4).

*ReadingsStaySafe.* `ReadingTimes` bounds how far a text, a reading in a call and the reading that is kept lag
behind; `ReadingStamped` says that, unless calls overlap, what is kept is what was stamped, but between
the two writes. With an overlap the stamp of one call may cover the reading of another, and only
the longer bound holds. For the traffic, `ReadingCounts` is a balance: what was told, plus what the call in progress
is still to tell, plus what the counter has moved since it was read, is at most what moved since the start. A reboot
sets the counter back and only loses; another command would count from another origin, which is why it is excluded.

*GateStaysSafe.* Three facts carry it. `GateResolved`: the recursion of `resolve` over the overrides ends
with what the last one that speaks of a threshold says; a recursive function here, a value for each place
of the list, is unfolded once and compared with that answer by the least place where they would differ.
`GateJudged`: the worst consequence is a case distinction over the thresholds, from which it follows
that a report at least as bad is judged no better by one policy (`GateMonotone`), and a policy depends
on the package of a report alone (`GatePolicy`). `GateInv`, of this module: with nobody else at work the latest audit
is that of the baseline but between the two writes of `set_baseline`, and who writes the overrides holds the file as
it is. A death between the writes leaves the two apart, which is why it is excluded.

*CollaborationStaysSafe.* Issues and sessions are apart. `IssueSound` says of a record that its events lead to its
state and links, that each resolution was acceptable when it was made, and that its links are
numbered in order, one for a defect; `FilesSound` holds it of every issue, of the copy a command
read and of what it will save. Any of these may become the file, so no overlap and no death breaks it.
`AfterAnother`, that following one more event is one more step, is about a function that recurs over the
events: two such functions, of a history and of a longer one, agree, for there is no least place where
they differ (`LeastNumber`, `FollowsOnce`). For the sessions, `OrderSound` says what the only command may
be about to write (`Replaces`): the entry is revoked, or of SSO, or the first of its static token, or newly made for a
person who has no other fresh one. It rests on `NoneLeft`: all issued sessions last equally long, so when
the newest live one of a person is about to end none of theirs is fresh.

**Only model-checked.** The types of `Governance` and `Services` as a whole (`AllTypesOK`; those of the
parts named above are proved with their invariants); `DaemonSafe`; `GoldenSafe`, `RetentionSafe`,
`AnalysisSafe` and `EvidenceSafe`, whose operators fold or sort sequences, so that most of what they
say is by induction over data; of the rounds, that quarantine ends and that a task runs
(`QuarantineEnds`, `EnabledTaskRuns`), of the outbox `EventuallySettled` and of the runs `CallsReturn`. Liveness under fairness
and `ENABLED` are out of the prover's reach and stay with TLC, and so do facts by induction over
data, except where a least place of difference in a function over numbers does its work, as above. None of the modules declares a recursive operator.

## 6. What is not modelled

Content: what device commands print beyond what the code looks for, metrics and their parsing, text
patterns, payloads, signatures, wording and layout of reports. Portal, command line and desktop render
and dispatch; what matters of them, that calls run concurrently, on one service object or several, is
in the constants. The patrol runner's history and report files are
written and shown, never decided on. The in-memory repositories, which share objects instead of
copying, are used by tests. The batch writer and the connection pool have no caller in the product.

Of modelled parts: SSO organisation checks, role claims, `identities.json`, what a process knows of
SSO actors (external people have no other sessions, so an identity never meets another's session), and user profiles (work without a token uses one person that may do it); archiving a task and
task templates; the acceptance summary of the outbox; the listing and diff of suites, package filters and expectations
of single families; keys of baselines whose slugs collide; export, doctor and usage summaries;
trends, attribution and run history, which are read-only averages; `external_script`. In time: a scan
or the removal of a tree is one step and days are the unit of retention; clearing a device is one step
of the Monkey; a stop of an execution that has registered no process, and leftovers on the device
after it, are its inputs; an `adb connect` is the return of the link before the question for it; of
commands that timed out only those the code repeats take effect late.

Of run execution: an execution log that cannot be written, before the `try` of a worker or in its
handler, which ends the worker where it is, as its death does; `precheck_failed`, a status that is
read and that nothing assigns.

Of the ADB collector: an app's own traffic, the tuning of intervals, the eviction of the cache from a
hundred readings on, and the parsing of the other metrics. `MonitoringSession` takes a sample as an
input that may fail.

## 7. Plan

Done: run execution and its proofs, patrol, outbox, rounds with devices, the review services,
submissions, retention, scenarios, monitoring, evidence, analysis, golden suite, the collector's readings,
the delivery daemons; the proofs of patrol, rounds, outbox, rule governance, baselines, admission
cases, collaboration, monitoring, Monkey, loops, submissions, gate and readings.

Theorems to come: `DaemonSafe` and the types of the remaining parts. Modules to come: the portal's
identity resolution.
