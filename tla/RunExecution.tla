---------------------------- MODULE RunExecution ----------------------------
(***************************************************************************)
(* Execution of one task run: ExecutionService, RunExecutionService and    *)
(* their state machine, over the persistent (SQLAlchemy) repositories.     *)
(*                                                                         *)
(* A run has N execution instances.  execute_run and stop_run are CALLS,   *)
(* made by threads and processes that share nothing but the database,      *)
(* except that calls on one RunExecutionService object (a "service") share *)
(* its _lifecycle_lock and its _stop_events.  A repository read returns a  *)
(* fresh copy of a record and a save overwrites the whole row, so every    *)
(* call works on copies that may be stale: that is the heart of the model. *)
(*                                                                         *)
(* One step is one database transaction, one test of the stop event, or    *)
(* one scheduling decision of execute_run.                                 *)
(***************************************************************************)
EXTENDS Integers, FiniteSets

CONSTANTS
  N,               \* number of execution instances of the run
  Executors,       \* execute_run calls
  Stoppers,        \* stop_run calls
  Services,        \* RunExecutionService objects
  ServiceOf,       \* the service each call is made on
  RetryCount,      \* retry_count argument of execute_run
  AllowOverlap,    \* may two execute_run calls be in progress together?
  AllowCrash,      \* may a process die?
  AllowReportError \* may writing a report raise?

Calls == Executors \cup Stoppers

ASSUME NAssumption == N \in Nat \ {0}
ASSUME CallsAssumption ==
  /\ Executors \cap Stoppers = {}
  /\ ServiceOf \in [Calls -> Services]
ASSUME RetryAssumption == RetryCount \in Nat
ASSUME SwitchAssumption ==
  AllowOverlap \in BOOLEAN /\ AllowCrash \in BOOLEAN /\ AllowReportError \in BOOLEAN

Instances == 1..N

VARIABLES
  dbInst,        \* persisted status of each instance
  dbRun,         \* persisted status of the run
  stopEvent,     \* per service: is the run's stop event set?
  lock,          \* per service: is _lifecycle_lock held?
  phase,         \* where each call is
  runCopy,       \* the run object each call works on (its status)
  instCopy,      \* the instance objects each call works on (their statuses)
  todo,          \* instances a call has still to submit, or to cancel
  limit,         \* max_concurrency of an execute_run call
  stopOnFailure, \* stop_on_failure of an execute_run call
  halted,        \* stop_scheduling of an execute_run call
  pc,            \* where _execute_instance is, per executor and instance
  goal,          \* the status _execute_instance is about to persist
  handling,      \* is it in its "except Exception" handler?
  attempt,       \* scenario attempt number
  started        \* history: how many times an instance's scenario was started

db == <<dbInst, dbRun>>
copies == <<runCopy, instCopy>>
arguments == <<limit, stopOnFailure>>
schedule == <<phase, todo, arguments, halted>>
work == <<pc, goal, handling, attempt, started>>
vars == <<db, stopEvent, lock, copies, schedule, work>>

-----------------------------------------------------------------------------
(* Statuses and the transition tables of ExecutionStateMachine.            *)

InstStatus == {"pending", "preparing", "running", "stopping", "collecting",
               "success", "failed", "cancelled"}
TerminalInst == {"success", "failed", "cancelled"}
ActiveInst == {"preparing", "running", "stopping", "collecting"}

RunStatus == {"queued", "running", "success", "partial_failed", "failed", "cancelled"}
TerminalRun == {"success", "partial_failed", "failed", "cancelled"}

InstanceTransitions ==
  [s \in InstStatus |->
     CASE s = "pending"    -> {"preparing", "running", "stopping", "failed", "cancelled"}
       [] s = "preparing"  -> {"running", "stopping", "failed", "cancelled"}
       [] s = "running"    -> {"stopping", "collecting", "success", "failed", "cancelled"}
       [] s = "stopping"   -> {"cancelled", "failed"}
       [] s = "collecting" -> {"stopping", "success", "failed", "cancelled"}
       [] OTHER            -> {}]

RunTransitions ==
  [s \in RunStatus |->
     CASE s = "queued"  -> {"running"} \cup TerminalRun
       [] s = "running" -> TerminalRun
       [] OTHER         -> {}]

\* transition_instance and transition_run raise unless one of these holds.
InstanceMay(from, to) == from = to \/ to \in InstanceTransitions[from]
RunMay(from, to)      == from = to \/ to \in RunTransitions[from]

\* TaskRun.sync_from_instances: the run status a set of instances amounts to.
DerivedRun(inst) ==
  LET All(s) == \A i \in Instances : inst[i] = s
  IN  IF \E i \in Instances : inst[i] \in ActiveInst THEN "running"
      ELSE IF All("pending") THEN "queued"
      ELSE IF \E i \in Instances : inst[i] \notin TerminalInst THEN "running"
      ELSE IF All("success") THEN "success"
      ELSE IF All("failed") THEN "failed"
      ELSE IF All("cancelled") THEN "cancelled"
      ELSE "partial_failed"

\* Mutant: a running instance is executable again.
ExecutableRunning(inst) == {i \in Instances : inst[i] \in {"pending", "preparing", "running"}}

Executable(inst) == {i \in Instances : inst[i] \in {"pending", "preparing"}}

-----------------------------------------------------------------------------
(* Call phases and worker program counters.                                *)

Returned == {"done", "raised", "crashed"}
Phases == {"idle", "read", "clear", "event", "loop", "list", "put", "raising"}
            \cup Returned

Pcs == {"none", "prepare", "check1", "start", "startSave", "check2", "scenario",
        "check3", "collect", "save", "list", "put", "report", "handler",
        "done", "raised"}

InProgress(c) == phase[c] \notin Returned \cup {"idle"}
InFlight(e) == {i \in Instances : pc[e][i] # "none"}
Stopping(c) == stopEvent[ServiceOf[c]]
FirstOf(i, S) == i \in S /\ \A j \in S : i <= j

TypeOK ==
  /\ dbInst \in [Instances -> InstStatus]
  /\ dbRun \in RunStatus
  /\ stopEvent \in [Services -> BOOLEAN]
  /\ lock \in [Services -> BOOLEAN]
  /\ phase \in [Calls -> Phases]
  /\ runCopy \in [Calls -> RunStatus]
  /\ instCopy \in [Calls -> [Instances -> InstStatus]]
  /\ todo \in [Calls -> SUBSET Instances]
  /\ limit \in [Executors -> Instances]
  /\ stopOnFailure \in [Executors -> BOOLEAN]
  /\ halted \in [Executors -> BOOLEAN]
  /\ pc \in [Executors -> [Instances -> Pcs]]
  /\ goal \in [Executors -> [Instances -> TerminalInst]]
  /\ handling \in [Executors -> [Instances -> BOOLEAN]]
  /\ attempt \in [Executors -> [Instances -> 1..(RetryCount + 1)]]
  /\ started \in [Instances -> Nat]

\* create_run has just returned: a queued run whose instances are all pending.
Init ==
  /\ dbInst = [i \in Instances |-> "pending"]
  /\ dbRun = "queued"
  /\ stopEvent = [s \in Services |-> FALSE]
  /\ lock = [s \in Services |-> FALSE]
  /\ phase = [c \in Calls |-> "idle"]
  /\ runCopy = [c \in Calls |-> "queued"]
  /\ instCopy = [c \in Calls |-> [i \in Instances |-> "pending"]]
  /\ todo = [c \in Calls |-> {}]
  /\ limit = [e \in Executors |-> 1]
  /\ stopOnFailure = [e \in Executors |-> FALSE]
  /\ halted = [e \in Executors |-> FALSE]
  /\ pc = [e \in Executors |-> [i \in Instances |-> "none"]]
  /\ goal = [e \in Executors |-> [i \in Instances |-> "success"]]
  /\ handling = [e \in Executors |-> [i \in Instances |-> FALSE]]
  /\ attempt = [e \in Executors |-> [i \in Instances |-> 1]]
  /\ started = [i \in Instances |-> 0]

-----------------------------------------------------------------------------
(* The _lifecycle_lock of the service a call is made on.                   *)

Free(c)    == ~lock[ServiceOf[c]]
\* Mutant: the saves of the lifecycle are not serialized.
AcquireNothing(c) == lock' = [lock EXCEPT ![ServiceOf[c]] = FALSE]
Acquire(c) == Free(c) /\ lock' = [lock EXCEPT ![ServiceOf[c]] = TRUE]
Release(c) == lock' = [lock EXCEPT ![ServiceOf[c]] = FALSE]

\* InstanceRepository.save of instance i with status s, through the copy of call c.
SaveInstance(c, i, s) ==
  /\ instCopy' = [instCopy EXCEPT ![c][i] = s]
  /\ dbInst' = [dbInst EXCEPT ![i] = s]

\* sync_run_status in two transactions: list the instances, then save the run.
ListForSync(c) ==
  /\ runCopy' = [runCopy EXCEPT ![c] = DerivedRun(dbInst)]
  /\ UNCHANGED <<db, stopEvent, lock, instCopy>>
SaveSyncedRun(c) ==
  /\ dbRun' = runCopy[c]
  /\ Release(c)
  /\ UNCHANGED <<dbInst, stopEvent, copies>>

-----------------------------------------------------------------------------
(* execute_run and stop_run: reading the records.                          *)

GoTo(c, p) == phase' = [phase EXCEPT ![c] = p]

\* _get_run.  Without AllowOverlap no two execute_run calls are in progress at once.
BeginCall(c) ==
  /\ phase[c] = "idle"
  /\ c \in Executors /\ ~AllowOverlap => \A e \in Executors : ~InProgress(e)
  /\ runCopy' = [runCopy EXCEPT ![c] = dbRun]
  /\ GoTo(c, "read")
  /\ UNCHANGED <<db, stopEvent, lock, instCopy, todo, arguments, halted, work>>

ReadInstances(c) ==
  /\ phase[c] = "read"
  /\ instCopy' = [instCopy EXCEPT ![c] = dbInst]

\* With nothing executable execute_run returns its "skipped" result.
ReadForExecute(e) ==
  LET executable == Executable(dbInst) IN
  /\ ReadInstances(e)
  /\ todo' = [todo EXCEPT ![e] = executable]
  /\ GoTo(e, IF executable = {} THEN "done" ELSE "clear")
  /\ \E n \in Instances, b \in BOOLEAN :
       /\ n <= Cardinality(executable) \/ n = 1
       /\ limit' = [limit EXCEPT ![e] = n]
       /\ stopOnFailure' = [stopOnFailure EXCEPT ![e] = b]
  /\ UNCHANGED <<db, stopEvent, lock, runCopy, halted, work>>

ReadForStop(c) ==
  /\ ReadInstances(c)
  /\ todo' = [todo EXCEPT ![c] = {i \in Instances : dbInst[i] \notin TerminalInst}]
  /\ GoTo(c, "event")
  /\ UNCHANGED <<db, stopEvent, lock, runCopy, arguments, halted, work>>

\* _clear_stop_request and _request_stop.
SetStopEvent(c, from, value) ==
  /\ phase[c] = from
  /\ stopEvent' = [stopEvent EXCEPT ![ServiceOf[c]] = value]
  /\ GoTo(c, "loop")
  /\ UNCHANGED <<db, lock, copies, todo, arguments, halted, work>>

ClearStopRequest(e) == SetStopEvent(e, "clear", FALSE)
RequestStop(c)      == SetStopEvent(c, "event", TRUE)

-----------------------------------------------------------------------------
(* The scheduling loop of execute_run; serial execution is the case limit 1. *)

Submit(e, i) ==
  /\ phase[e] = "loop"
  /\ FirstOf(i, todo[e])
  /\ ~halted[e]
  /\ Cardinality(InFlight(e)) < limit[e]
  /\ todo' = [todo EXCEPT ![e] = @ \ {i}]
  /\ pc' = [pc EXCEPT ![e][i] = "prepare"]
  /\ UNCHANGED <<db, stopEvent, lock, copies, phase, arguments, halted, goal, handling,
                 attempt, started>>

\* The workers in gone are gone, and their local variables with them.
Reset(f, gone, x) ==
  [e \in Executors |-> [i \in Instances |-> IF <<e, i>> \in gone THEN x ELSE f[e][i]]]
EndWorkers(gone) ==
  /\ pc' = Reset(pc, gone, "none")
  /\ goal' = Reset(goal, gone, "success")
  /\ handling' = Reset(handling, gone, FALSE)
  /\ attempt' = Reset(attempt, gone, 1)
  /\ UNCHANGED started

\* One batch of completed futures.  future.result() raises what the worker raised;
\* leaving the "with ThreadPoolExecutor" block then waits for the workers in flight.
\* A failure under stop_on_failure keeps only what _cancel_pending_instances cancels.
Reap(e, batch) ==
  LET failed == stopOnFailure[e] /\ \E i \in batch : instCopy[e][i] = "failed"
      stop   == halted[e] \/ failed
  IN
  /\ phase[e] = "loop"
  /\ batch # {}
  /\ halted[e] => todo[e] = {}
  /\ \A i \in batch : pc[e][i] \in {"done", "raised"}
  /\ EndWorkers({e} \X batch)
  /\ IF \E i \in batch : pc[e][i] = "raised"
       THEN GoTo(e, "raising") /\ UNCHANGED <<todo, halted>>
       ELSE /\ halted' = [halted EXCEPT ![e] = stop]
            /\ todo' = [todo EXCEPT ![e] =
                          IF stop THEN {i \in @ : instCopy[e][i] = "pending"} ELSE @]
            /\ UNCHANGED phase
  /\ UNCHANGED <<db, stopEvent, lock, copies, arguments>>

Raise(e) ==
  /\ phase[e] = "raising"
  /\ \A i \in InFlight(e) : pc[e][i] \in {"done", "raised"}
  /\ EndWorkers({e} \X Instances)
  /\ todo' = [todo EXCEPT ![e] = {}]
  /\ GoTo(e, "raised")
  /\ UNCHANGED <<db, stopEvent, lock, copies, arguments, halted>>

Return(c) ==
  /\ phase[c] = "loop"
  /\ todo[c] = {}
  /\ c \in Executors => InFlight(c) = {}
  /\ GoTo(c, "done")
  /\ UNCHANGED <<db, stopEvent, lock, copies, todo, arguments, halted, work>>

-----------------------------------------------------------------------------
(* cancel_instance, called by stop_run for every instance that was not     *)
(* terminal and by _cancel_pending_instances once scheduling is halted.    *)

CancelNext(c, i) ==
  /\ phase[c] = "loop"
  /\ FirstOf(i, todo[c])
  /\ c \in Executors => halted[c]
  /\ Acquire(c)
  /\ SaveInstance(c, i, "cancelled")
  /\ todo' = [todo EXCEPT ![c] = @ \ {i}]
  /\ GoTo(c, "list")
  /\ UNCHANGED <<dbRun, stopEvent, runCopy, arguments, halted, work>>

CancelList(c) ==
  /\ phase[c] = "list"
  /\ ListForSync(c)
  /\ GoTo(c, "put")
  /\ UNCHANGED <<todo, arguments, halted, work>>

CancelPut(c) ==
  /\ phase[c] = "put"
  /\ SaveSyncedRun(c)
  /\ GoTo(c, "loop")
  /\ UNCHANGED <<todo, arguments, halted, work>>

-----------------------------------------------------------------------------
(* _execute_instance, one step per transaction or check.                   *)

Step(e, i, from, to) ==
  /\ pc[e][i] = from
  /\ pc' = [pc EXCEPT ![e][i] = to]

\* Steps that neither choose a final status nor start a scenario attempt.
Plain == UNCHANGED <<schedule, goal, handling, attempt, started>>

Prepare(e, i) ==
  /\ Step(e, i, "prepare", "check1")
  /\ Free(e)
  /\ SaveInstance(e, i, "preparing")
  /\ UNCHANGED <<dbRun, stopEvent, lock, runCopy>> /\ Plain

\* The three checks of the stop event; a set event leads to _cancel_instance_due_to_stop.
Check(e, i, from, to) ==
  /\ Step(e, i, from, IF Stopping(e) THEN "save" ELSE to)
  /\ goal' = [goal EXCEPT ![e][i] = IF Stopping(e) THEN "cancelled" ELSE @]
  /\ UNCHANGED <<db, stopEvent, lock, copies, schedule, handling, attempt>>

CheckBeforeStart(e, i) ==
  Check(e, i, "check1", "start") /\ UNCHANGED started
CheckAfterScenario(e, i) ==
  Check(e, i, "check3", "collect") /\ UNCHANGED started

\* Past the second check the scenario's first attempt starts on the device.
CheckBeforeScenario(e, i) ==
  /\ Check(e, i, "check2", "scenario")
  /\ started' = [started EXCEPT ![i] = IF Stopping(e) THEN @ ELSE @ + 1]

\* mark_instance_running saves the run first and the instance after it.
MarkRunning(e, i) ==
  /\ Step(e, i, "start", "startSave")
  /\ RunMay(runCopy[e], "running")
  /\ Acquire(e)
  /\ instCopy' = [instCopy EXCEPT ![e][i] = "running"]
  /\ runCopy' = [runCopy EXCEPT ![e] = "running"]
  /\ dbRun' = "running"
  /\ UNCHANGED <<dbInst, stopEvent>> /\ Plain

MarkRunningSave(e, i) ==
  /\ Step(e, i, "startSave", "check2")
  /\ SaveInstance(e, i, instCopy[e][i])
  /\ Release(e)
  /\ UNCHANGED <<dbRun, stopEvent, runCopy>> /\ Plain

\* transition_run raises when the shared run object is already terminal.
MarkRunningRefused(e, i) ==
  /\ Step(e, i, "start", "handler")
  /\ ~RunMay(runCopy[e], "running")
  /\ Free(e)
  /\ instCopy' = [instCopy EXCEPT ![e][i] = "running"]
  /\ UNCHANGED <<db, stopEvent, lock, runCopy>> /\ Plain

\* _execute_scenario_with_retries: the last attempt's result decides the final status.
ScenarioReturns(e, i) ==
  /\ Step(e, i, "scenario", "check3")
  /\ \E result \in {"success", "failed"} : goal' = [goal EXCEPT ![e][i] = result]
  /\ UNCHANGED <<db, stopEvent, lock, copies, schedule, handling, attempt, started>>

\* Mutant: one attempt too many.
RetryOffByOne(e, i) ==
  /\ pc[e][i] = "scenario"
  /\ attempt[e][i] <= RetryCount + 1
  /\ attempt' = [attempt EXCEPT ![e][i] = @ + 1]
  /\ UNCHANGED <<db, stopEvent, lock, copies, schedule, pc, goal, handling, started>>

\* A retryable failure or exception; no attempt looks at the stop event.
ScenarioRetries(e, i) ==
  /\ pc[e][i] = "scenario"
  /\ attempt[e][i] <= RetryCount
  /\ attempt' = [attempt EXCEPT ![e][i] = @ + 1]
  /\ UNCHANGED <<db, stopEvent, lock, copies, schedule, pc, goal, handling, started>>

ScenarioRaises(e, i) ==
  /\ Step(e, i, "scenario", "handler")
  /\ UNCHANGED <<db, stopEvent, lock, copies>> /\ Plain

\* mark_instance_collecting, then artifact capture, which may raise.
Collect(e, i) ==
  /\ \E to \in {"save", "handler"} : Step(e, i, "collect", to)
  /\ Free(e)
  /\ SaveInstance(e, i, "collecting")
  /\ UNCHANGED <<dbRun, stopEvent, lock, runCopy>> /\ Plain

\* "except Exception": cancel when a stop was requested, otherwise fail the instance.
HandlerGoal(e) == IF Stopping(e) THEN "cancelled" ELSE "failed"

\* Mutant: the handler does not ask the state machine.
HandleUnchecked(e, i) ==
  /\ Step(e, i, "handler", "save")
  /\ goal' = [goal EXCEPT ![e][i] = HandlerGoal(e)]
  /\ handling' = [handling EXCEPT ![e][i] = TRUE]
  /\ UNCHANGED <<db, stopEvent, lock, copies, schedule, attempt, started>>

Handle(e, i) ==
  /\ Step(e, i, "handler", "save")
  /\ InstanceMay(instCopy[e][i], HandlerGoal(e))
  /\ goal' = [goal EXCEPT ![e][i] = HandlerGoal(e)]
  /\ handling' = [handling EXCEPT ![e][i] = TRUE]
  /\ UNCHANGED <<db, stopEvent, lock, copies, schedule, attempt, started>>

\* transition_instance raises out of the handler when the instance is already terminal.
HandlerRaises(e, i) ==
  /\ Step(e, i, "handler", "raised")
  /\ ~InstanceMay(instCopy[e][i], HandlerGoal(e))
  /\ UNCHANGED <<db, stopEvent, lock, copies>> /\ Plain

\* complete_instance, fail_instance or cancel_instance: save, list, save the run.
FinishSave(e, i) ==
  /\ Step(e, i, "save", "list")
  /\ Acquire(e)
  /\ SaveInstance(e, i, goal[e][i])
  /\ UNCHANGED <<dbRun, stopEvent, runCopy>> /\ Plain

FinishList(e, i) ==
  /\ Step(e, i, "list", "put")
  /\ ListForSync(e)
  /\ Plain

FinishPut(e, i) ==
  /\ Step(e, i, "put", "report")
  /\ SaveSyncedRun(e)
  /\ Plain

WriteReports(e, i) ==
  /\ Step(e, i, "report", "done")
  /\ UNCHANGED <<db, stopEvent, lock, copies>> /\ Plain

\* Mutant: for a report that failed the instance is saved, and reported, once more.
ReportFailsAgain(e, i) ==
  /\ AllowReportError
  /\ Step(e, i, "report", "save")
  /\ UNCHANGED <<db, stopEvent, lock, copies>> /\ Plain

\* The first report of an instance is written inside the try, the handler's is not.
ReportFails(e, i) ==
  /\ AllowReportError
  /\ Step(e, i, "report", IF handling[e][i] THEN "raised" ELSE "handler")
  /\ UNCHANGED <<db, stopEvent, lock, copies>> /\ Plain

-----------------------------------------------------------------------------
(* The death of the process a service lives in; a new process starts with  *)
(* a fresh service, and nothing resumes the calls that were in progress.   *)

Crash(s) ==
  LET lost(c) == ServiceOf[c] = s /\ InProgress(c) IN
  /\ AllowCrash
  /\ \E c \in Calls : lost(c)
  /\ phase' = [c \in Calls |-> IF lost(c) THEN "crashed" ELSE phase[c]]
  /\ todo' = [c \in Calls |-> IF lost(c) THEN {} ELSE todo[c]]
  /\ EndWorkers({e \in Executors : lost(e)} \X Instances)
  /\ lock' = [lock EXCEPT ![s] = FALSE]
  /\ stopEvent' = [stopEvent EXCEPT ![s] = FALSE]
  /\ UNCHANGED <<db, copies, arguments, halted>>

\* Every call has returned: the system may stop here, and nowhere else.
AllReturned == \A c \in Calls : phase[c] \in Returned
Terminated == AllReturned /\ UNCHANGED vars

Worker(e, i) ==
  \/ Prepare(e, i) \/ CheckBeforeStart(e, i)
  \/ MarkRunning(e, i) \/ MarkRunningSave(e, i) \/ MarkRunningRefused(e, i)
  \/ CheckBeforeScenario(e, i)
  \/ ScenarioReturns(e, i) \/ ScenarioRetries(e, i) \/ ScenarioRaises(e, i)
  \/ CheckAfterScenario(e, i) \/ Collect(e, i)
  \/ Handle(e, i) \/ HandlerRaises(e, i)
  \/ FinishSave(e, i) \/ FinishList(e, i) \/ FinishPut(e, i)
  \/ WriteReports(e, i)

Cancel(c) == (\E i \in Instances : CancelNext(c, i)) \/ CancelList(c) \/ CancelPut(c)

Execute(e) ==
  \/ ReadForExecute(e) \/ ClearStopRequest(e)
  \/ \E i \in Instances : Submit(e, i)
  \/ Raise(e)
  \/ \E batch \in SUBSET InFlight(e) : Reap(e, batch)

Stop(c) == ReadForStop(c) \/ RequestStop(c)

Next ==
  \/ \E c \in Calls : BeginCall(c) \/ Cancel(c) \/ Return(c)
  \/ \E e \in Executors : Execute(e)
  \/ \E c \in Stoppers : Stop(c)
  \/ \E e \in Executors, i \in Instances : Worker(e, i) \/ ReportFails(e, i)
  \/ \E s \in Services : Crash(s)
  \/ Terminated

Spec == Init /\ [][Next]_vars

\* A started call keeps running: its threads are scheduled and its commands return.
\* Nobody has to start a call, no process has to die and no report has to fail.
Fairness ==
  /\ \A c \in Calls : WF_vars(Cancel(c) \/ Return(c))
  /\ \A e \in Executors : WF_vars(Execute(e))
  /\ \A c \in Stoppers : WF_vars(Stop(c))
  /\ \A e \in Executors, i \in Instances : WF_vars(Worker(e, i))

FairSpec == Spec /\ Fairness

-----------------------------------------------------------------------------
(* Properties.                                                             *)

NoneInProgress == \A c \in Calls : ~InProgress(c)

\* Whenever no call is in progress the persisted run status is the one its persisted
\* instances amount to: saves and syncs of concurrent calls leave no stale aggregate
\* (sync_run_status under _lifecycle_lock).  And once one has returned normally every
\* instance is terminal: execute_run and stop_run leave none behind, active or pending.
QuiescentRunTruthful ==
  NoneInProgress =>
    /\ dbRun = DerivedRun(dbInst)
    /\ (\E c \in Calls : phase[c] = "done") => \A i \in Instances : dbInst[i] \in TerminalInst

\* The scenario of an instance is never started by two executions of the run
\* (_is_executable_instance is the only protection execute_run has).
ScenarioAtMostOnce == \A i \in Instances : started[i] <= 1

\* After a stop_run has returned, no execution that was in progress or queued before it
\* starts a scenario.
NoStartAfterStop ==
  [][(\E c \in Stoppers : phase[c] = "done") => started' = started]_vars

\* The persisted statuses behave as RunLifecycle says.
Lifecycle ==
  INSTANCE RunLifecycle WITH inst <- dbInst, run <- dbRun,
                             InstMay <- InstanceMay, Derived <- DerivedRun
ImplementsLifecycle == Lifecycle!Spec

\* Every call that was started returns: no caller waits for ever for _lifecycle_lock or
\* for a worker of its thread pool.
CallsReturn == \A c \in Calls : InProgress(c) ~> phase[c] \in Returned
=============================================================================
