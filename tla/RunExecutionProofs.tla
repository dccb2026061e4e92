------------------------- MODULE RunExecutionProofs -------------------------
(***************************************************************************)
(* Proofs about RunExecution, for any number of instances, calls and       *)
(* services: type correctness, and that no two executions that do not      *)
(* overlap ever start the scenario of the same instance, whatever crashes, *)
(* stops and report errors come between, what the record of a run at rest  *)
(* says, and that the records keep the lifecycle.                          *)
(***************************************************************************)
EXTENDS RunExecution, TLAPS

USE DEF Calls

-----------------------------------------------------------------------------
(* Types.                                                                  *)

\* The status sync_from_instances derives is a run status.
LEMMA DerivedRunType == \A inst : DerivedRun(inst) \in RunStatus
BY DEF DerivedRun, RunStatus

\* create_run's records and fresh calls are well typed.
LEMMA InitType == Init => TypeOK
BY NAssumption, RetryAssumption, CallsAssumption, SMT
   DEF Init, TypeOK, Instances, InstStatus, RunStatus, TerminalInst, Phases, Returned, Pcs

\* Resetting a local variable of the workers keeps its type.
LEMMA ResetType ==
  ASSUME NEW T, NEW f \in [Executors -> [Instances -> T]], NEW gone, NEW x \in T
  PROVE  Reset(f, gone, x) \in [Executors -> [Instances -> T]]
BY DEF Reset

\* Ending workers leaves their program counters and locals well typed.
LEMMA EndWorkersType ==
  ASSUME NEW gone, TypeOK, EndWorkers(gone)
  PROVE  /\ pc' \in [Executors -> [Instances -> Pcs]]
         /\ goal' \in [Executors -> [Instances -> TerminalInst]]
         /\ handling' \in [Executors -> [Instances -> BOOLEAN]]
         /\ attempt' \in [Executors -> [Instances -> 1..(RetryCount + 1)]]
         /\ started' = started
<1>1. "none" \in Pcs /\ "success" \in TerminalInst /\ 1 \in 1..(RetryCount + 1)
  BY RetryAssumption DEF Pcs, TerminalInst
<1>2. pc' \in [Executors -> [Instances -> Pcs]]
  <2>1. pc \in [Executors -> [Instances -> Pcs]] /\ pc' = Reset(pc, gone, "none")
    BY DEF EndWorkers, TypeOK
  <2> QED BY <1>1, <2>1, ResetType, Zenon
<1>3. goal' \in [Executors -> [Instances -> TerminalInst]]
  <2>1. goal \in [Executors -> [Instances -> TerminalInst]] /\ goal' = Reset(goal, gone, "success")
    BY DEF EndWorkers, TypeOK
  <2> QED BY <1>1, <2>1, ResetType, Zenon
<1>4. handling' \in [Executors -> [Instances -> BOOLEAN]]
  <2>1. handling \in [Executors -> [Instances -> BOOLEAN]] /\ handling' = Reset(handling, gone, FALSE)
    BY DEF EndWorkers, TypeOK
  <2> QED BY <2>1, ResetType, Zenon
<1>5. attempt' \in [Executors -> [Instances -> 1..(RetryCount + 1)]]
  <2>1. attempt \in [Executors -> [Instances -> 1..(RetryCount + 1)]] /\ attempt' = Reset(attempt, gone, 1)
    BY DEF EndWorkers, TypeOK
  <2> QED BY <1>1, <2>1, ResetType, Zenon
<1> QED BY <1>2, <1>3, <1>4, <1>5 DEF EndWorkers

\* Every step of a call outside its workers keeps the types.
LEMMA CallType ==
  ASSUME TypeOK, NEW c \in Calls, BeginCall(c) \/ Cancel(c) \/ Return(c)
  PROVE  TypeOK'
<1> USE DEF TypeOK, GoTo
<1>1. CASE BeginCall(c)
  BY <1>1 DEF BeginCall, work, arguments, db, Phases
<1>2. CASE Return(c)
  BY <1>2 DEF Return, work, arguments, db, copies, Phases, Returned
<1>3. ASSUME NEW i \in Instances, CancelNext(c, i) PROVE TypeOK'
  BY <1>3, CallsAssumption
     DEF CancelNext, Acquire, SaveInstance, work, arguments, db, Phases, InstStatus
<1>4. CASE CancelList(c)
  BY <1>4, DerivedRunType DEF CancelList, ListForSync, work, arguments, db, Phases
<1>5. CASE CancelPut(c)
  BY <1>5, CallsAssumption
     DEF CancelPut, SaveSyncedRun, Release, work, arguments, copies, Phases
<1> QED BY <1>1, <1>2, <1>3, <1>4, <1>5 DEF Cancel

\* Every scheduling step of execute_run keeps the types.
LEMMA ExecuteType ==
  ASSUME TypeOK, NEW e \in Executors, Execute(e)
  PROVE  TypeOK'
<1>1. CASE ReadForExecute(e)
  <2>1. Executable(dbInst) \in SUBSET Instances
    BY DEF Executable
  <2>2. (IF Executable(dbInst) = {} THEN "done" ELSE "clear") \in Phases
    BY DEF Phases, Returned
  <2> QED BY <1>1, <2>1, <2>2 DEF ReadForExecute, ReadInstances, GoTo, TypeOK, work, db
<1>2. CASE ClearStopRequest(e)
  BY <1>2, CallsAssumption
     DEF ClearStopRequest, SetStopEvent, GoTo, TypeOK, work, db, copies, arguments, Phases
<1>3. ASSUME NEW i \in Instances, Submit(e, i) PROVE TypeOK'
  BY <1>3 DEF Submit, TypeOK, db, copies, arguments, Pcs
<1>4. CASE Raise(e)
  <2>1. EndWorkers({e} \X Instances)
    BY <1>4 DEF Raise
  <2> QED BY <1>4, <2>1, EndWorkersType
          DEF Raise, GoTo, TypeOK, db, copies, arguments, Phases, Returned
<1>5. ASSUME NEW batch \in SUBSET InFlight(e), Reap(e, batch) PROVE TypeOK'
  <2>1. EndWorkers({e} \X batch)
    BY <1>5 DEF Reap
  <2>2. /\ phase' \in [Calls -> Phases]
        /\ todo' \in [Calls -> SUBSET Instances]
        /\ halted' \in [Executors -> BOOLEAN]
    <3>1. CASE \E i \in batch : pc[e][i] = "raised"
      BY <1>5, <3>1 DEF Reap, GoTo, TypeOK, Phases
    <3>2. CASE ~ \E i \in batch : pc[e][i] = "raised"
      <4>1. {i \in todo[e] : instCopy[e][i] = "pending"} \in SUBSET Instances
        BY DEF TypeOK
      <4>2. todo' \in [Calls -> SUBSET Instances] /\ phase' = phase
        BY ZenonT(30), <1>5, <3>2, <4>1 DEF Reap, TypeOK
      <4>3. PICK b \in BOOLEAN : halted' = [halted EXCEPT ![e] = b]
        BY <1>5, <3>2 DEF Reap, TypeOK
      <4> QED BY <4>2, <4>3 DEF TypeOK
    <3> QED BY <3>1, <3>2
  <2> QED BY <1>5, <2>1, <2>2, EndWorkersType
          DEF Reap, TypeOK, db, copies, arguments
<1> QED BY <1>1, <1>2, <1>3, <1>4, <1>5 DEF Execute

\* Reading the records for stop_run and setting the event keep the types.
LEMMA StopType ==
  ASSUME TypeOK, NEW c \in Stoppers, Stop(c)
  PROVE  TypeOK'
<1>1. CASE ReadForStop(c)
  BY <1>1 DEF ReadForStop, ReadInstances, GoTo, TypeOK, work, db, arguments, Phases
<1>2. CASE RequestStop(c)
  BY <1>2, CallsAssumption
     DEF RequestStop, SetStopEvent, GoTo, TypeOK, work, db, copies, arguments, Phases
<1> QED BY <1>1, <1>2 DEF Stop

\* Every step of a worker, and a failing report, keeps the types.
LEMMA WorkerType ==
  ASSUME TypeOK, NEW e \in Executors, NEW i \in Instances,
         Worker(e, i) \/ ReportFails(e, i)
  PROVE  TypeOK'
<1> USE DEF TypeOK, Step, Plain, schedule, arguments, copies, db
<1>1. CASE Prepare(e, i)
  BY <1>1 DEF Prepare, SaveInstance, InstStatus, Pcs
<1>2. CASE CheckBeforeStart(e, i)
  BY <1>2 DEF CheckBeforeStart, Check, Pcs, TerminalInst
<1>3. CASE CheckBeforeScenario(e, i)
  BY <1>3 DEF CheckBeforeScenario, Check, Pcs, TerminalInst
<1>4. CASE CheckAfterScenario(e, i)
  BY <1>4 DEF CheckAfterScenario, Check, Pcs, TerminalInst
<1>5. CASE MarkRunning(e, i)
  BY <1>5, CallsAssumption DEF MarkRunning, Acquire, Pcs, InstStatus, RunStatus
<1>6. CASE MarkRunningSave(e, i)
  <2>1. instCopy[e][i] \in InstStatus
    OBVIOUS
  <2>2. instCopy' \in [Calls -> [Instances -> InstStatus]] /\ dbInst' \in [Instances -> InstStatus]
    BY <1>6, <2>1 DEF MarkRunningSave, SaveInstance
  <2> QED BY <1>6, <2>2, CallsAssumption DEF MarkRunningSave, Release, Pcs
<1>7. CASE MarkRunningRefused(e, i)
  BY <1>7 DEF MarkRunningRefused, Pcs, InstStatus
<1>8. CASE ScenarioReturns(e, i)
  BY <1>8 DEF ScenarioReturns, Pcs, TerminalInst
<1>9. CASE ScenarioRetries(e, i)
  <2>1. attempt[e][i] + 1 \in 1..(RetryCount + 1)
    BY <1>9, RetryAssumption DEF ScenarioRetries
  <2> QED BY <1>9, <2>1 DEF ScenarioRetries
<1>10. CASE ScenarioRaises(e, i)
  BY <1>10 DEF ScenarioRaises, Pcs
<1>11. CASE Collect(e, i)
  BY <1>11 DEF Collect, SaveInstance, InstStatus, Pcs
<1>12. CASE Handle(e, i)
  BY <1>12 DEF Handle, HandlerGoal, Pcs, TerminalInst
<1>13. CASE HandlerRaises(e, i)
  BY <1>13 DEF HandlerRaises, Pcs
<1>14. CASE FinishSave(e, i)
  <2>1. goal[e][i] \in InstStatus
    BY DEF InstStatus, TerminalInst
  <2>2. instCopy' \in [Calls -> [Instances -> InstStatus]] /\ dbInst' \in [Instances -> InstStatus]
    BY <1>14, <2>1 DEF FinishSave, SaveInstance
  <2> QED BY <1>14, <2>2, CallsAssumption DEF FinishSave, Acquire, Pcs
<1>15. CASE FinishList(e, i)
  BY <1>15, DerivedRunType DEF FinishList, ListForSync, Pcs
<1>16. CASE FinishPut(e, i)
  BY <1>16, CallsAssumption DEF FinishPut, SaveSyncedRun, Release, Pcs
<1>17. CASE WriteReports(e, i)
  BY <1>17 DEF WriteReports, Pcs
<1>18. CASE ReportFails(e, i)
  BY <1>18 DEF ReportFails, Pcs
<1> QED BY <1>1, <1>2, <1>3, <1>4, <1>5, <1>6, <1>7, <1>8, <1>9, <1>10, <1>11, <1>12,
           <1>13, <1>14, <1>15, <1>16, <1>17, <1>18 DEF Worker

\* The death of a process keeps the types.
LEMMA CrashType ==
  ASSUME TypeOK, NEW s \in Services, Crash(s)
  PROVE  TypeOK'
<1>1. PICK gone : EndWorkers(gone)
  BY DEF Crash
<1>2. phase' \in [Calls -> Phases] /\ todo' \in [Calls -> SUBSET Instances]
  BY DEF Crash, TypeOK, Phases, Returned
<1> QED BY <1>1, <1>2, EndWorkersType DEF Crash, TypeOK, db, copies, arguments

\* Every step keeps the types.
LEMMA TypeStep ==
  ASSUME TypeOK, [Next]_vars
  PROVE  TypeOK'
<1>1. ASSUME NEW c \in Calls, BeginCall(c) \/ Cancel(c) \/ Return(c) PROVE TypeOK'
  BY <1>1, CallType
<1>2. ASSUME NEW e \in Executors, Execute(e) PROVE TypeOK'
  BY <1>2, ExecuteType
<1>3. ASSUME NEW c \in Stoppers, Stop(c) PROVE TypeOK'
  BY <1>3, StopType
<1>4. ASSUME NEW e \in Executors, NEW i \in Instances, Worker(e, i) \/ ReportFails(e, i)
      PROVE  TypeOK'
  BY <1>4, WorkerType
<1>5. ASSUME NEW s \in Services, Crash(s) PROVE TypeOK'
  BY <1>5, CrashType
<1>6. CASE UNCHANGED vars \/ Terminated
  BY <1>6 DEF Terminated, vars, TypeOK, db, copies, schedule, arguments, work
<1> QED BY <1>1, <1>2, <1>3, <1>4, <1>5, <1>6 DEF Next

\* Statuses, program counters and local variables of every call stay in their sets:
\* no step of execute_run, stop_run or a crash produces a value the code has no case for.
THEOREM TypeCorrect == Spec => []TypeOK
BY InitType, TypeStep, PTL DEF Spec

-----------------------------------------------------------------------------
(* One scenario start per instance, when execute_run calls do not overlap. *)

\* An executor past its reads, whose todo set is meaningful.
Scheduling(e) == phase[e] \in {"clear", "loop", "list", "put", "raising"}
NotYetStarted == {"prepare", "check1", "start", "startSave", "check2"}
Executables == {"pending", "preparing"}

OneExecutor == \A e, f \in Executors : InProgress(e) /\ InProgress(f) => e = f

\* Workers only exist under a scheduling executor, and never for an instance in todo.
WorkersBelong ==
  \A e \in Executors, i \in Instances :
    pc[e][i] # "none" => Scheduling(e) /\ i \notin todo[e]

\* What an executor is still to start has not been started by anyone.
TodoNotStarted ==
  \A e \in Executors, i \in Instances :
    (Scheduling(e) /\ i \in todo[e]) \/ pc[e][i] \in NotYetStarted => started[i] = 0

\* By the time a worker starts its scenario the database says so.
StartIsPersisted ==
  \A e \in Executors, i \in Instances :
    /\ pc[e][i] = "startSave" => instCopy[e][i] = "running"
    /\ pc[e][i] = "check2" => dbInst[i] \notin Executables

\* A started instance is never executable again.
StartedNotExecutable ==
  \A i \in Instances : started[i] # 0 => dbInst[i] \notin Executables

StartInv ==
  /\ OneExecutor
  /\ WorkersBelong
  /\ TodoNotStarted
  /\ StartIsPersisted
  /\ StartedNotExecutable
  /\ ScenarioAtMostOnce

IInv == TypeOK /\ StartInv

\* create_run's records satisfy the invariant: nothing is started, no call is in progress.
LEMMA InitStart == Init => StartInv
BY DEF Init, StartInv, OneExecutor, WorkersBelong, TodoNotStarted, StartIsPersisted,
       StartedNotExecutable, ScenarioAtMostOnce, InProgress, Scheduling, Returned,
       NotYetStarted

\* Calls and workers that only end, over unchanged records, keep the invariant.
LEMMA EndingStart ==
  ASSUME IInv, UNCHANGED <<dbInst, instCopy, started>>,
         \A e \in Executors :
           /\ todo'[e] \subseteq todo[e]
           /\ (InProgress(e))' => InProgress(e)
           /\ (Scheduling(e))' => Scheduling(e),
         \A e \in Executors, i \in Instances :
           pc'[e][i] = "none" \/ (pc'[e][i] = pc[e][i] /\ (Scheduling(e))')
  PROVE  StartInv'
<1> USE DEF IInv, StartInv
<1>1. OneExecutor' /\ ScenarioAtMostOnce' /\ StartedNotExecutable'
  BY DEF OneExecutor, ScenarioAtMostOnce, StartedNotExecutable
<1>2. WorkersBelong'
  BY DEF WorkersBelong
<1>3. TodoNotStarted' /\ StartIsPersisted'
  BY DEF TodoNotStarted, StartIsPersisted, NotYetStarted
<1> QED BY <1>1, <1>2, <1>3

\* Steps of a call outside its workers keep the invariant: a call begins only while no
\* execute_run is in progress, and cancelling writes a terminal status.
LEMMA CallStart ==
  ASSUME ~AllowOverlap, IInv, TypeOK', NEW c \in Calls, BeginCall(c) \/ Cancel(c) \/ Return(c)
  PROVE  StartInv'
<1> USE DEF IInv, StartInv, OneExecutor, WorkersBelong, TodoNotStarted, StartIsPersisted,
            StartedNotExecutable, ScenarioAtMostOnce, InProgress, Scheduling, Returned,
            NotYetStarted, Executables, TypeOK, GoTo
<1>1. CASE BeginCall(c)
  <2>1. /\ phase[c] = "idle" /\ phase' = [phase EXCEPT ![c] = "read"]
        /\ UNCHANGED <<dbInst, instCopy, todo, pc, started>>
    BY <1>1 DEF BeginCall, work, db
  <2>2. c \in Executors => \A e \in Executors : ~InProgress(e)
    BY <1>1 DEF BeginCall
  <2>3. OneExecutor'
    BY <2>1, <2>2
  <2>4. WorkersBelong' /\ TodoNotStarted'
    BY <2>1
  <2>5. StartIsPersisted' /\ StartedNotExecutable' /\ ScenarioAtMostOnce'
    BY <2>1
  <2> QED BY <2>3, <2>4, <2>5
<1>2. CASE Return(c)
  <2>1. /\ phase[c] = "loop" /\ phase' = [phase EXCEPT ![c] = "done"]
        /\ UNCHANGED <<dbInst, instCopy, todo, pc, started>>
    BY <1>2 DEF Return, work, db, copies
  <2>2. \A i \in Instances : c \in Executors => pc[c][i] = "none"
    BY <1>2 DEF Return, InFlight
  <2>3. \A e \in Executors : e # c => phase'[e] = phase[e]
    BY <2>1
  <2>4. OneExecutor' /\ WorkersBelong' /\ TodoNotStarted'
    BY <2>1, <2>2, <2>3
  <2>5. StartIsPersisted' /\ StartedNotExecutable' /\ ScenarioAtMostOnce'
    BY <2>1
  <2> QED BY <2>4, <2>5
<1>3. ASSUME NEW i \in Instances, CancelNext(c, i) PROVE StartInv'
  <2>1. /\ phase[c] = "loop" /\ phase' = [phase EXCEPT ![c] = "list"]
        /\ i \in todo[c] /\ todo' = [todo EXCEPT ![c] = @ \ {i}]
        /\ pc' = pc /\ started' = started
        /\ dbInst' = [dbInst EXCEPT ![i] = "cancelled"]
        /\ instCopy' = [instCopy EXCEPT ![c][i] = "cancelled"]
    BY <1>3 DEF CancelNext, FirstOf, SaveInstance, work
  <2>2. \A e \in Executors : (InProgress(e))' = InProgress(e) /\ (Scheduling(e))' = Scheduling(e)
    BY <2>1
  <2>3. \A e \in Executors : todo'[e] \subseteq todo[e]
    BY <2>1
  <2>4. \A e \in Executors, j \in Instances :
           pc[e][j] # "none" => instCopy'[e][j] = instCopy[e][j]
    BY <2>1
  <2>5. \A j \in Instances : dbInst'[j] = dbInst[j] \/ dbInst'[j] \notin Executables
    BY <2>1
  <2>6. WorkersBelong' /\ TodoNotStarted' /\ OneExecutor'
    BY <2>1, <2>2, <2>3
  <2>7. StartIsPersisted' /\ StartedNotExecutable' /\ ScenarioAtMostOnce'
    BY <2>1, <2>4, <2>5
  <2> QED BY <2>6, <2>7
<1>4. CASE CancelList(c)
  BY <1>4 DEF CancelList, ListForSync, work, arguments, db
<1>5. CASE CancelPut(c)
  BY <1>5 DEF CancelPut, SaveSyncedRun, work, arguments, copies
<1> QED BY <1>1, <1>2, <1>3, <1>4, <1>5 DEF Cancel

\* Reading the records for stop_run and setting the event keep the invariant.
LEMMA StopStart ==
  ASSUME IInv, TypeOK', NEW c \in Stoppers, Stop(c)
  PROVE  StartInv'
<1> USE DEF IInv, StartInv, OneExecutor, WorkersBelong, TodoNotStarted, StartIsPersisted,
            StartedNotExecutable, ScenarioAtMostOnce, InProgress, Scheduling, Returned,
            NotYetStarted, Executables, TypeOK, GoTo
<1>1. CASE ReadForStop(c)
  BY <1>1, CallsAssumption DEF ReadForStop, ReadInstances, work, db, arguments
<1>2. CASE RequestStop(c)
  BY <1>2, CallsAssumption DEF RequestStop, SetStopEvent, work, db, copies, arguments
<1> QED BY <1>1, <1>2 DEF Stop

\* Scheduling keeps the invariant: what is read as executable has never been started.
LEMMA ExecuteStart ==
  ASSUME IInv, TypeOK', NEW e \in Executors, Execute(e)
  PROVE  StartInv'
<1> USE DEF IInv, StartInv, OneExecutor, WorkersBelong, TodoNotStarted, StartIsPersisted,
            StartedNotExecutable, ScenarioAtMostOnce, InProgress, Scheduling, Returned,
            NotYetStarted, Executables, TypeOK, GoTo
<1>1. CASE ReadForExecute(e)
  <2>1. todo'[e] = {i \in Instances : dbInst[i] \in Executables}
    BY <1>1 DEF ReadForExecute, Executable
  <2>2. \A i \in todo'[e] : started[i] = 0
    BY <2>1
  <2>3. \A i \in Instances : pc[e][i] = "none"
    BY <1>1 DEF ReadForExecute, ReadInstances
  <2> QED BY <1>1, <2>2, <2>3 DEF ReadForExecute, ReadInstances, work, db
<1>2. CASE ClearStopRequest(e)
  BY <1>2 DEF ClearStopRequest, SetStopEvent, work, db, copies, arguments
<1>3. ASSUME NEW i \in Instances, Submit(e, i) PROVE StartInv'
  BY <1>3 DEF Submit, FirstOf, db, copies, arguments
<1>4. CASE Raise(e)
  BY <1>4 DEF Raise, EndWorkers, Reset, db, copies, arguments
<1>5. ASSUME NEW batch \in SUBSET InFlight(e), Reap(e, batch) PROVE StartInv'
  <2>1. phase[e] = "loop" /\ (phase' = phase \/ phase' = [phase EXCEPT ![e] = "raising"])
    BY <1>5 DEF Reap
  <2>2. todo' = todo \/ todo' = [todo EXCEPT ![e] = {i \in @ : instCopy[e][i] = "pending"}]
    BY <1>5 DEF Reap
  <2>3. \A f \in Executors : todo'[f] \subseteq todo[f]
    <3>1. CASE todo' = todo
      BY <3>1
    <3>2. CASE todo' = [todo EXCEPT ![e] = {i \in @ : instCopy[e][i] = "pending"}]
      <4>1. todo'[e] = {i \in todo[e] : instCopy[e][i] = "pending"}
        BY <3>2
      <4>2. \A f \in Executors : f # e => todo'[f] = todo[f]
        BY <3>2
      <4> QED BY <4>1, <4>2
    <3> QED BY <2>2, <3>1, <3>2
  <2>4. \A f \in Executors : (InProgress(f))' = InProgress(f) /\ (Scheduling(f))' = Scheduling(f)
    BY <2>1
  <2>5. \A f \in Executors, i \in Instances : pc'[f][i] = pc[f][i] \/ pc'[f][i] = "none"
    BY <1>5 DEF Reap, EndWorkers, Reset
  <2>6. UNCHANGED <<dbInst, instCopy, started>>
    BY <1>5 DEF Reap, EndWorkers, db, copies
  <2>7. \A f \in Executors, i \in Instances :
           pc'[f][i] = "none" \/ (pc'[f][i] = pc[f][i] /\ (Scheduling(f))')
    BY <2>4, <2>5
  <2> HIDE DEF IInv, StartInv, InProgress, Scheduling
  <2> QED BY <2>3, <2>4, <2>6, <2>7, EndingStart
<1> QED BY <1>1, <1>2, <1>3, <1>4, <1>5 DEF Execute

\* A crash keeps the invariant: the workers of a lost executor are gone.
LEMMA CrashStart ==
  ASSUME IInv, TypeOK', NEW s \in Services, Crash(s)
  PROVE  StartInv'
<1> USE DEF IInv, StartInv, OneExecutor, WorkersBelong, TodoNotStarted, StartIsPersisted,
            StartedNotExecutable, ScenarioAtMostOnce, InProgress, Scheduling, Returned,
            NotYetStarted, Executables, TypeOK
<1>1. UNCHANGED <<dbInst, instCopy, started>>
  BY DEF Crash, EndWorkers, db, copies
<1>2. \A e \in Executors :
        \/ phase'[e] = phase[e] /\ todo'[e] = todo[e] /\ pc'[e] = pc[e]
        \/ phase'[e] = "crashed" /\ todo'[e] = {} /\ \A i \in Instances : pc'[e][i] = "none"
  <2> SUFFICES ASSUME NEW e \in Executors
               PROVE  \/ phase'[e] = phase[e] /\ todo'[e] = todo[e] /\ pc'[e] = pc[e]
                      \/ /\ phase'[e] = "crashed" /\ todo'[e] = {}
                         /\ \A i \in Instances : pc'[e][i] = "none"
    OBVIOUS
  <2>1. CASE ServiceOf[e] = s /\ InProgress(e)
    BY <2>1 DEF Crash, EndWorkers, Reset
  <2>2. CASE ~(ServiceOf[e] = s /\ InProgress(e))
    <3>1. \A i \in Instances : pc'[e][i] = pc[e][i]
      BY <2>2 DEF Crash, EndWorkers, Reset
    <3> QED BY <2>2, <3>1 DEF Crash
  <2> QED BY <2>1, <2>2
<1>3. \A e \in Executors :
        /\ todo'[e] \subseteq todo[e]
        /\ (InProgress(e))' => InProgress(e)
        /\ (Scheduling(e))' => Scheduling(e)
  BY <1>2
<1>4. \A e \in Executors, i \in Instances :
        pc'[e][i] = "none" \/ (pc'[e][i] = pc[e][i] /\ (Scheduling(e))')
  <2> SUFFICES ASSUME NEW e \in Executors, NEW i \in Instances, pc'[e][i] # "none"
               PROVE  pc'[e][i] = pc[e][i] /\ (Scheduling(e))'
    OBVIOUS
  <2>1. phase'[e] = phase[e] /\ pc'[e][i] = pc[e][i]
    BY <1>2
  <2>2. Scheduling(e)
    BY <2>1
  <2> QED BY <2>1, <2>2
<1> HIDE DEF IInv, StartInv, InProgress, Scheduling
<1> QED BY <1>1, <1>3, <1>4, EndingStart

\* Only one executor has workers, and it is the only one that schedules.
LEMMA OnlyExecutor ==
  ASSUME IInv, NEW e \in Executors, NEW i \in Instances, pc[e][i] # "none"
  PROVE  /\ Scheduling(e) /\ i \notin todo[e]
         /\ \A f \in Executors : f # e =>
              ~Scheduling(f) /\ \A j \in Instances : pc[f][j] = "none"
<1>1. \A f \in Executors : Scheduling(f) => InProgress(f)
  BY DEF Scheduling, InProgress, Returned
<1> QED BY <1>1 DEF IInv, StartInv, WorkersBelong, OneExecutor

\* A worker's step that starts nothing keeps the invariant, if it says in the database
\* what it must.
LEMMA WorkerStepStart ==
  ASSUME IInv, NEW e \in Executors, NEW i \in Instances, NEW to,
         pc[e][i] # "none", pc' = [pc EXCEPT ![e][i] = to],
         UNCHANGED <<phase, todo, started>>,
         \A j \in Instances : j # i => instCopy'[e][j] = instCopy[e][j] /\ dbInst'[j] = dbInst[j],
         to \in NotYetStarted => pc[e][i] \in NotYetStarted,
         to = "startSave" => instCopy'[e][i] = "running",
         to = "check2" => dbInst'[i] \notin Executables,
         dbInst'[i] = dbInst[i] \/ dbInst'[i] \notin Executables \/ pc[e][i] \in NotYetStarted
  PROVE  StartInv'
<1> USE DEF IInv, StartInv
<1>1. /\ Scheduling(e) /\ i \notin todo[e]
      /\ \A f \in Executors : f # e =>
           ~Scheduling(f) /\ \A j \in Instances : pc[f][j] = "none"
  BY OnlyExecutor
<1>2. \A f \in Executors : (InProgress(f))' = InProgress(f) /\ (Scheduling(f))' = Scheduling(f)
  BY DEF InProgress, Scheduling
<1>3. /\ pc'[e][i] = to
      /\ \A j \in Instances : j # i => pc'[e][j] = pc[e][j]
      /\ \A f \in Executors : f # e => pc'[f] = pc[f]
  BY DEF TypeOK
<1>4. OneExecutor' /\ ScenarioAtMostOnce'
  BY <1>2 DEF OneExecutor, ScenarioAtMostOnce
<1>5. WorkersBelong'
  BY <1>1, <1>2, <1>3 DEF WorkersBelong
<1>6. TodoNotStarted'
  BY <1>1, <1>2, <1>3 DEF TodoNotStarted, NotYetStarted
<1>7. StartIsPersisted'
  BY <1>1, <1>3 DEF StartIsPersisted
<1>8. StartedNotExecutable'
  BY DEF StartedNotExecutable, TodoNotStarted
<1> QED BY <1>4, <1>5, <1>6, <1>7, <1>8

\* The step that starts the scenario keeps the invariant: the instance had not been
\* started, and its persisted status is "running" or terminal.
LEMMA ScenarioStart ==
  ASSUME IInv, TypeOK', NEW e \in Executors, NEW i \in Instances, CheckBeforeScenario(e, i)
  PROVE  StartInv'
<1>1. /\ pc[e][i] = "check2" /\ started[i] = 0 /\ dbInst[i] \notin Executables
      /\ UNCHANGED <<phase, todo, dbInst, instCopy>>
  BY DEF CheckBeforeScenario, Check, Step, IInv, StartInv, TodoNotStarted, NotYetStarted,
         StartIsPersisted, schedule, db, copies
<1>2. /\ Scheduling(e) /\ i \notin todo[e]
      /\ \A f \in Executors : f # e =>
           ~Scheduling(f) /\ \A j \in Instances : pc[f][j] = "none"
  BY <1>1, OnlyExecutor
<1>3. /\ pc'[e][i] \in {"save", "scenario"}
      /\ \A j \in Instances : j # i => pc'[e][j] = pc[e][j]
      /\ \A f \in Executors : f # e => pc'[f] = pc[f]
  BY DEF CheckBeforeScenario, Check, Step, IInv, TypeOK
<1>4. started'[i] \in {0, 1} /\ \A j \in Instances : j # i => started'[j] = started[j]
  BY <1>1 DEF CheckBeforeScenario, IInv, TypeOK
<1>5. \A f \in Executors : (InProgress(f))' = InProgress(f) /\ (Scheduling(f))' = Scheduling(f)
  BY <1>1 DEF InProgress, Scheduling
<1> USE DEF IInv, StartInv
<1>6. OneExecutor' /\ ScenarioAtMostOnce'
  BY <1>4, <1>5 DEF OneExecutor, ScenarioAtMostOnce
<1>7. WorkersBelong'
  BY <1>1, <1>2, <1>3, <1>5 DEF WorkersBelong
<1>8. TodoNotStarted'
  BY <1>1, <1>2, <1>3, <1>4, <1>5 DEF TodoNotStarted, NotYetStarted
<1>9. StartIsPersisted' /\ StartedNotExecutable'
  BY <1>1, <1>2, <1>3, <1>4 DEF StartIsPersisted, StartedNotExecutable
<1> QED BY <1>6, <1>7, <1>8, <1>9

\* Every step of a worker keeps the invariant.  Only Prepare writes an executable status,
\* before the start; MarkRunningSave is what makes the start visible.
LEMMA WorkerStart ==
  ASSUME IInv, TypeOK', NEW e \in Executors, NEW i \in Instances,
         Worker(e, i) \/ ReportFails(e, i)
  PROVE  StartInv'
<1>0. TypeOK /\ StartIsPersisted /\ pc[e] \in [Instances -> Pcs]
  BY DEF IInv, StartInv, TypeOK
<1> USE DEF Step, Plain, schedule, arguments, copies, db, NotYetStarted, Executables
<1>1. CASE Prepare(e, i)
  <2>1. \A j \in Instances : j # i => instCopy'[e][j] = instCopy[e][j] /\ dbInst'[j] = dbInst[j]
    BY <1>0, <1>1 DEF Prepare, SaveInstance, TypeOK
  <2> QED BY <1>1, <2>1, WorkerStepStart DEF Prepare
<1>2. CASE CheckBeforeStart(e, i)
  <2>1. PICK to \in {"save", "start"} : pc' = [pc EXCEPT ![e][i] = to]
    BY <1>2 DEF CheckBeforeStart, Check
  <2> QED BY ZenonT(30), <1>2, <2>1, WorkerStepStart DEF CheckBeforeStart, Check
<1>3. CASE CheckBeforeScenario(e, i)
  BY <1>3, ScenarioStart
<1>4. CASE CheckAfterScenario(e, i)
  <2>1. PICK to \in {"save", "collect"} : pc' = [pc EXCEPT ![e][i] = to]
    BY <1>4 DEF CheckAfterScenario, Check
  <2> QED BY ZenonT(30), <1>4, <2>1, WorkerStepStart DEF CheckAfterScenario, Check
<1>5. CASE MarkRunning(e, i)
  <2>1. /\ instCopy'[e][i] = "running"
        /\ \A j \in Instances : j # i => instCopy'[e][j] = instCopy[e][j]
    BY <1>0, <1>5 DEF MarkRunning, TypeOK
  <2> QED BY <1>5, <2>1, WorkerStepStart DEF MarkRunning
<1>6. CASE MarkRunningSave(e, i)
  <2>1. /\ dbInst'[i] = "running"
        /\ \A j \in Instances : j # i => instCopy'[e][j] = instCopy[e][j] /\ dbInst'[j] = dbInst[j]
    BY <1>0, <1>6 DEF MarkRunningSave, SaveInstance, TypeOK, StartIsPersisted
  <2> QED BY <1>6, <2>1, WorkerStepStart DEF MarkRunningSave
<1>7. CASE MarkRunningRefused(e, i)
  <2>1. \A j \in Instances : j # i => instCopy'[e][j] = instCopy[e][j]
    BY <1>0, <1>7 DEF MarkRunningRefused, TypeOK
  <2> QED BY <1>7, <2>1, WorkerStepStart DEF MarkRunningRefused
<1>8. CASE ScenarioReturns(e, i)
  BY <1>8, WorkerStepStart DEF ScenarioReturns
<1>9. CASE ScenarioRetries(e, i)
  <2>1. pc' = [pc EXCEPT ![e][i] = "scenario"]
    BY <1>0, <1>9 DEF ScenarioRetries, TypeOK
  <2> QED BY <1>9, <2>1, WorkerStepStart DEF ScenarioRetries
<1>10. CASE ScenarioRaises(e, i)
  BY <1>10, WorkerStepStart DEF ScenarioRaises
<1>11. CASE Collect(e, i)
  <2>1. /\ dbInst'[i] = "collecting"
        /\ \A j \in Instances : j # i => instCopy'[e][j] = instCopy[e][j] /\ dbInst'[j] = dbInst[j]
    BY <1>0, <1>11 DEF Collect, SaveInstance, TypeOK
  <2>2. PICK to \in {"save", "handler"} : pc[e][i] = "collect" /\ pc' = [pc EXCEPT ![e][i] = to]
    BY <1>11 DEF Collect
  <2> QED BY <1>11, <2>1, <2>2, WorkerStepStart DEF Collect
<1>12. CASE Handle(e, i)
  BY <1>12, WorkerStepStart DEF Handle
<1>13. CASE HandlerRaises(e, i)
  BY <1>13, WorkerStepStart DEF HandlerRaises
<1>14. CASE FinishSave(e, i)
  <2>1. /\ dbInst'[i] \in TerminalInst
        /\ \A j \in Instances : j # i => instCopy'[e][j] = instCopy[e][j] /\ dbInst'[j] = dbInst[j]
    BY <1>0, <1>14 DEF FinishSave, SaveInstance, TypeOK
  <2> QED BY <1>14, <2>1, WorkerStepStart DEF FinishSave, TerminalInst
<1>15. CASE FinishList(e, i)
  BY <1>15, WorkerStepStart DEF FinishList, ListForSync
<1>16. CASE FinishPut(e, i)
  BY <1>16, WorkerStepStart DEF FinishPut, SaveSyncedRun
<1>17. CASE WriteReports(e, i)
  BY <1>17, WorkerStepStart DEF WriteReports
<1>18. CASE ReportFails(e, i)
  <2>1. PICK to \in {"raised", "handler"} : pc' = [pc EXCEPT ![e][i] = to]
    BY <1>18 DEF ReportFails
  <2>2. pc[e][i] = "report" /\ UNCHANGED <<phase, todo, started, dbInst, instCopy>>
    BY <1>18 DEF ReportFails
  <2> QED BY <2>1, <2>2, WorkerStepStart
<1> QED BY <1>1, <1>2, <1>3, <1>4, <1>5, <1>6, <1>7, <1>8, <1>9, <1>10, <1>11, <1>12,
           <1>13, <1>14, <1>15, <1>16, <1>17, <1>18 DEF Worker

\* The invariant is inductive.
LEMMA StartStep ==
  ASSUME ~AllowOverlap, IInv, [Next]_vars
  PROVE  IInv'
<1>1. TypeOK'
  BY TypeStep DEF IInv
<1>2. ASSUME NEW c \in Calls, BeginCall(c) \/ Cancel(c) \/ Return(c) PROVE StartInv'
  BY <1>1, <1>2, CallStart
<1>3. ASSUME NEW e \in Executors, Execute(e) PROVE StartInv'
  BY <1>1, <1>3, ExecuteStart
<1>4. ASSUME NEW c \in Stoppers, Stop(c) PROVE StartInv'
  BY <1>1, <1>4, StopStart
<1>5. ASSUME NEW e \in Executors, NEW i \in Instances, Worker(e, i) \/ ReportFails(e, i)
      PROVE  StartInv'
  BY <1>1, <1>5, WorkerStart
<1>6. ASSUME NEW s \in Services, Crash(s) PROVE StartInv'
  BY <1>1, <1>6, CrashStart
<1>7. CASE UNCHANGED vars \/ Terminated
  BY <1>1, <1>7 DEF Terminated, vars, db, copies, schedule, arguments, work, IInv, StartInv,
     OneExecutor, WorkersBelong, TodoNotStarted, StartIsPersisted, StartedNotExecutable,
     ScenarioAtMostOnce, InProgress, Scheduling
<1> QED BY <1>1, <1>2, <1>3, <1>4, <1>5, <1>6, <1>7 DEF Next, IInv

\* As long as execute_run calls do not overlap, no scenario is started twice: not by a
\* second execution after a crash at any step, nor after stops and failed reports.
THEOREM ScenarioStartsOnce ==
  ASSUME ~AllowOverlap
  PROVE  Spec => []ScenarioAtMostOnce
<1>1. Init => IInv
  BY InitType, InitStart DEF IInv
<1>2. IInv /\ [Next]_vars => IInv'
  BY StartStep
<1>3. IInv => ScenarioAtMostOnce
  BY DEF IInv, StartInv
<1> QED BY <1>1, <1>2, <1>3, PTL DEF Spec

-----------------------------------------------------------------------------
(***************************************************************************)
(* What the persisted records of a run say: the lifecycle lock keeps the   *)
(* two transactions of a status synchronization together, so that a run at *)
(* rest has the status its instances amount to (QuiescentRunTruthful), and *)
(* without stop_run the records behave as RunLifecycle says.               *)
(***************************************************************************)

(* Frames: what the steps of one worker, and of one call, leave alone.     *)

LEMMA WorkerFrame ==
  ASSUME TypeOK, NEW e \in Executors, NEW i \in Instances,
         Worker(e, i) \/ ReportFails(e, i)
  PROVE  /\ UNCHANGED <<phase, todo, stopEvent>> /\ pc[e][i] # "none"
         /\ \A f \in Executors, j \in Instances : f # e \/ j # i => pc'[f][j] = pc[f][j]
         /\ \A c \in Calls, j \in Instances : c # e \/ j # i => instCopy'[c][j] = instCopy[c][j]
         /\ \A j \in Instances : j # i => dbInst'[j] = dbInst[j]
         /\ \A c \in Calls : c # e => runCopy'[c] = runCopy[c]
<1> USE DEF TypeOK, Step, Plain, schedule, arguments, copies, db
<1>1. CASE Prepare(e, i)
  BY <1>1 DEF Prepare, SaveInstance
<1>2. CASE CheckBeforeStart(e, i)
  BY <1>2 DEF CheckBeforeStart, Check
<1>3. CASE CheckBeforeScenario(e, i)
  BY <1>3 DEF CheckBeforeScenario, Check
<1>4. CASE CheckAfterScenario(e, i)
  BY <1>4 DEF CheckAfterScenario, Check
<1>5. CASE MarkRunning(e, i)
  BY <1>5 DEF MarkRunning
<1>6. CASE MarkRunningSave(e, i)
  BY <1>6 DEF MarkRunningSave, SaveInstance
<1>7. CASE MarkRunningRefused(e, i)
  BY <1>7 DEF MarkRunningRefused
<1>8. CASE ScenarioReturns(e, i)
  BY <1>8 DEF ScenarioReturns
<1>9. CASE ScenarioRetries(e, i)
  BY <1>9 DEF ScenarioRetries
<1>10. CASE ScenarioRaises(e, i)
  BY <1>10 DEF ScenarioRaises
<1>11. CASE Collect(e, i)
  BY <1>11 DEF Collect, SaveInstance
<1>12. CASE Handle(e, i) \/ HandlerRaises(e, i)
  BY <1>12 DEF Handle, HandlerRaises
<1>13. CASE FinishSave(e, i)
  BY <1>13 DEF FinishSave, SaveInstance
<1>14. CASE FinishList(e, i)
  BY <1>14 DEF FinishList, ListForSync
<1>15. CASE FinishPut(e, i)
  BY <1>15 DEF FinishPut, SaveSyncedRun
<1>16. CASE WriteReports(e, i) \/ ReportFails(e, i)
  BY <1>16 DEF WriteReports, ReportFails
<1> QED BY <1>1, <1>2, <1>3, <1>4, <1>5, <1>6, <1>7, <1>8, <1>9, <1>10, <1>11, <1>12,
           <1>13, <1>14, <1>15, <1>16 DEF Worker

\* A batch of workers that are done goes away.
LEMMA ReapFrame ==
  ASSUME TypeOK, NEW e \in Executors, NEW batch \in SUBSET InFlight(e), Reap(e, batch)
  PROVE  /\ UNCHANGED <<db, stopEvent, lock, copies>>
         /\ phase[e] = "loop" /\ phase' \in {phase, [phase EXCEPT ![e] = "raising"]}
         /\ \A c \in Calls : todo'[c] \subseteq todo[c]
         /\ \A c \in Calls : \A i \in todo[c] : i \in todo'[c] \/ (c = e /\ instCopy[e][i] # "pending")
         /\ \A f \in Executors, i \in Instances :
              \/ pc'[f][i] = pc[f][i]
              \/ pc[f][i] \in {"done", "raised"} /\ pc'[f][i] = "none"
<1>1. /\ UNCHANGED <<db, stopEvent, lock, copies>>
      /\ phase[e] = "loop" /\ phase' \in {phase, [phase EXCEPT ![e] = "raising"]}
  BY DEF Reap, GoTo
<1>2. todo' = todo \/ todo' = [todo EXCEPT ![e] = {i \in @ : instCopy[e][i] = "pending"}]
  BY DEF Reap, TypeOK
<1>3. /\ \A c \in Calls : todo'[c] \subseteq todo[c]
      /\ \A c \in Calls : \A i \in todo[c] : i \in todo'[c] \/ (c = e /\ instCopy[e][i] # "pending")
  <2>1. CASE todo' = todo
    BY <2>1
  <2>2. CASE todo' = [todo EXCEPT ![e] = {i \in @ : instCopy[e][i] = "pending"}]
    <3>1. todo'[e] = {i \in todo[e] : instCopy[e][i] = "pending"}
      BY <2>2 DEF TypeOK
    <3>2. \A c \in Calls : c # e => todo'[c] = todo[c]
      BY <2>2 DEF TypeOK
    <3> QED BY <3>1, <3>2
  <2> QED BY <1>2, <2>1, <2>2
<1>4. \A f \in Executors, i \in Instances :
        \/ pc'[f][i] = pc[f][i]
        \/ pc[f][i] \in {"done", "raised"} /\ pc'[f][i] = "none"
  BY DEF Reap, EndWorkers, Reset
<1> QED BY <1>1, <1>3, <1>4

LEMMA RaiseFrame ==
  ASSUME TypeOK, NEW e \in Executors, Raise(e)
  PROVE  /\ UNCHANGED <<db, stopEvent, lock, copies>>
         /\ phase[e] = "raising" /\ phase' = [phase EXCEPT ![e] = "raised"]
         /\ \A c \in Calls : c # e => todo'[c] = todo[c]
         /\ \A f \in Executors, i \in Instances :
              \/ pc'[f][i] = pc[f][i]
              \/ pc[f][i] \in {"done", "raised"} /\ pc'[f][i] = "none"
BY DEF Raise, GoTo, EndWorkers, Reset, InFlight, TypeOK

-----------------------------------------------------------------------------
(* The lifecycle lock: who is between the transactions of mark_running,    *)
(* finish or cancel holds the lock of its service, alone.                  *)

LockedPcs == {"startSave", "list", "put"}

\* Place 0 is the call itself, place i its worker for instance i.
HoldsLock(c, i) ==
  IF i = 0 THEN phase[c] \in {"list", "put"} ELSE c \in Executors /\ pc[c][i] \in LockedPcs
Places == {0} \cup Instances

LockInv ==
  \A c \in Calls, i \in Places : HoldsLock(c, i) =>
    /\ lock[ServiceOf[c]]
    /\ \A d \in Calls, j \in Places :
         HoldsLock(d, j) /\ ServiceOf[d] = ServiceOf[c] => d = c /\ j = i

\* Steps that change the lock, and steps that leave it.
LEMMA LockTaken ==
  ASSUME LockInv, TypeOK, NEW c \in Calls, NEW i \in Places, Acquire(c),
         \A d \in Calls, j \in Places : d # c \/ j # i => (HoldsLock(d, j)' => HoldsLock(d, j))
  PROVE  LockInv'
<1>1. ~lock[ServiceOf[c]] /\ lock' = [lock EXCEPT ![ServiceOf[c]] = TRUE] /\ ServiceOf[c] \in Services
  BY CallsAssumption DEF Acquire, Free
<1>2. \A d \in Calls, j \in Places : ServiceOf[d] = ServiceOf[c] => ~HoldsLock(d, j)
  BY <1>1 DEF LockInv
<1>3. lock'[ServiceOf[c]] /\ \A s \in Services : lock[s] => lock'[s]
  BY <1>1 DEF TypeOK
<1>4. \A d \in Calls : ServiceOf[d] \in Services
  BY CallsAssumption
<1>5. \A d \in Calls, j \in Places : HoldsLock(d, j)' => HoldsLock(d, j) \/ (d = c /\ j = i)
  OBVIOUS
<1> HIDE DEF HoldsLock
<1> QED BY <1>2, <1>3, <1>4, <1>5 DEF LockInv

LEMMA LockReleased ==
  ASSUME LockInv, TypeOK, NEW c \in Calls, NEW i \in Places, Release(c), HoldsLock(c, i),
         \A d \in Calls, j \in Places : HoldsLock(d, j)' => HoldsLock(d, j) /\ (d # c \/ j # i)
  PROVE  LockInv'
<1>1. lock' = [lock EXCEPT ![ServiceOf[c]] = FALSE] /\ \A d \in Calls : ServiceOf[d] \in Services
  BY CallsAssumption DEF Release
<1>2. \A d \in Calls, j \in Places : HoldsLock(d, j)' => ServiceOf[d] # ServiceOf[c]
  BY DEF LockInv
<1>3. \A s \in Services : s # ServiceOf[c] => lock'[s] = lock[s]
  BY <1>1 DEF TypeOK
<1> QED BY <1>1, <1>2, <1>3 DEF LockInv

LEMMA LockKept ==
  ASSUME LockInv, TypeOK, lock' = lock,
         \A d \in Calls, j \in Places : HoldsLock(d, j)' => HoldsLock(d, j)
  PROVE  LockInv'
BY DEF LockInv

LEMMA LockCall ==
  ASSUME LockInv, TypeOK, NEW c \in Calls, BeginCall(c) \/ Cancel(c) \/ Return(c)
  PROVE  LockInv'
<1> USE DEF TypeOK, GoTo, HoldsLock, LockedPcs, Places, Instances
<1>1. CASE BeginCall(c)
  BY <1>1, LockKept DEF BeginCall, work
<1>2. CASE Return(c)
  BY <1>2, LockKept DEF Return, work
<1>3. ASSUME NEW i \in Instances, CancelNext(c, i) PROVE LockInv'
  <2>1. Acquire(c) /\ \A d \in Calls, j \in Places : d # c \/ j # 0 => (HoldsLock(d, j)' => HoldsLock(d, j))
    BY <1>3 DEF CancelNext, work
  <2> HIDE DEF HoldsLock
  <2> QED BY <2>1, LockTaken
<1>4. CASE CancelList(c)
  BY <1>4, LockKept DEF CancelList, ListForSync, work
<1>5. CASE CancelPut(c)
  <2>1. /\ Release(c) /\ HoldsLock(c, 0)
        /\ \A d \in Calls, j \in Places : HoldsLock(d, j)' => HoldsLock(d, j) /\ (d # c \/ j # 0)
    BY <1>5 DEF CancelPut, SaveSyncedRun, work
  <2> HIDE DEF HoldsLock
  <2> QED BY <2>1, LockReleased
<1> QED BY <1>1, <1>2, <1>3, <1>4, <1>5 DEF Cancel

LEMMA LockSchedule ==
  ASSUME LockInv, TypeOK
  PROVE  /\ \A e \in Executors : Execute(e) => LockInv'
         /\ \A c \in Stoppers : Stop(c) => LockInv'
<1> USE DEF HoldsLock, LockedPcs, Places
<1>1. ASSUME NEW e \in Executors, ReadForExecute(e) \/ ClearStopRequest(e) PROVE LockInv'
  BY <1>1, LockKept
  DEF ReadForExecute, ReadInstances, ClearStopRequest, SetStopEvent, GoTo, work, TypeOK
<1>2. ASSUME NEW e \in Executors, NEW i \in Instances, Submit(e, i) PROVE LockInv'
  BY <1>2, LockKept DEF Submit, TypeOK
<1>3. ASSUME NEW e \in Executors, NEW batch \in SUBSET InFlight(e), Reap(e, batch) PROVE LockInv'
  <2>1. lock' = lock
    BY <1>3, ReapFrame
  <2>2. \A d \in Calls, j \in Places : HoldsLock(d, j)' => HoldsLock(d, j)
    BY <1>3, ReapFrame DEF TypeOK
  <2> QED BY <2>1, <2>2, LockKept
<1>4. ASSUME NEW e \in Executors, Raise(e) PROVE LockInv'
  <2>1. lock' = lock
    BY <1>4, RaiseFrame
  <2>2. \A d \in Calls, j \in Places : HoldsLock(d, j)' => HoldsLock(d, j)
    BY ZenonT(30), <1>4, RaiseFrame DEF TypeOK
  <2> QED BY <2>1, <2>2, LockKept
<1>5. ASSUME NEW c \in Stoppers, Stop(c) PROVE LockInv'
  BY <1>5, LockKept
  DEF Stop, ReadForStop, ReadInstances, RequestStop, SetStopEvent, GoTo, work, TypeOK
<1> QED BY <1>1, <1>2, <1>3, <1>4, <1>5 DEF Execute

LEMMA LockWorker ==
  ASSUME LockInv, TypeOK, NEW e \in Executors, NEW i \in Instances,
         Worker(e, i) \/ ReportFails(e, i)
  PROVE  LockInv'
<1>0. /\ i \in Places /\ i # 0
      /\ \A d \in Calls, j \in Places : d # e \/ j # i => (HoldsLock(d, j)' => HoldsLock(d, j))
  BY WorkerFrame DEF HoldsLock, Places, Instances
<1>0a. HoldsLock(e, i) = (pc[e][i] \in LockedPcs) /\ HoldsLock(e, i)' = (pc'[e][i] \in LockedPcs)
  BY <1>0 DEF HoldsLock
<1>1. CASE MarkRunning(e, i) \/ FinishSave(e, i)
  <2>1. Acquire(e)
    BY <1>1 DEF MarkRunning, FinishSave
  <2> QED BY <1>0, <2>1, LockTaken
<1>2. ASSUME NEW from, NEW to, Step(e, i, from, to) PROVE pc[e][i] = from /\ pc'[e][i] = to
  BY <1>2 DEF Step, TypeOK
<1>4. CASE MarkRunningSave(e, i) \/ FinishPut(e, i)
  <2>1. /\ Release(e)
        /\ \E from, to : from \in LockedPcs /\ to \notin LockedPcs /\ Step(e, i, from, to)
    BY <1>4 DEF MarkRunningSave, FinishPut, SaveSyncedRun, LockedPcs
  <2>2. HoldsLock(e, i) /\ ~HoldsLock(e, i)'
    BY <1>0a, <1>2, <2>1
  <2>3. \A d \in Calls, j \in Places : HoldsLock(d, j)' => HoldsLock(d, j) /\ (d # e \/ j # i)
    BY <1>0, <2>2
  <2> QED BY <1>0, <2>1, <2>2, <2>3, LockReleased
<1>3. ASSUME lock' = lock, pc'[e][i] \in LockedPcs => pc[e][i] \in LockedPcs PROVE LockInv'
  <2>1. \A d \in Calls, j \in Places : HoldsLock(d, j)' => HoldsLock(d, j)
    BY <1>0, <1>0a, <1>3
  <2> QED BY <1>3, <2>1, LockKept
<1>5. CASE Prepare(e, i) \/ MarkRunningRefused(e, i) \/ ScenarioReturns(e, i) \/ ScenarioRaises(e, i)
             \/ Handle(e, i) \/ HandlerRaises(e, i) \/ WriteReports(e, i)
  <2>1. lock' = lock /\ \E from, to : Step(e, i, from, to) /\ to \notin LockedPcs
    BY <1>5 DEF Prepare, MarkRunningRefused, ScenarioReturns, ScenarioRaises, Handle, HandlerRaises,
       WriteReports, LockedPcs
  <2> QED BY <1>2, <1>3, <2>1
<1>6. CASE CheckBeforeStart(e, i) \/ CheckBeforeScenario(e, i) \/ CheckAfterScenario(e, i)
  <2>1. lock' = lock /\ \E from, to : Step(e, i, from, to) /\ to \notin LockedPcs
    BY <1>6 DEF CheckBeforeStart, CheckBeforeScenario, CheckAfterScenario, Check, LockedPcs
  <2> QED BY <1>2, <1>3, <2>1
<1>7. CASE Collect(e, i) \/ ReportFails(e, i)
  <2>1. lock' = lock /\ \E from, to : Step(e, i, from, to) /\ to \notin LockedPcs
    BY <1>7 DEF Collect, ReportFails, LockedPcs
  <2> QED BY <1>2, <1>3, <2>1
<1>8. CASE ScenarioRetries(e, i)
  BY <1>3, <1>8 DEF ScenarioRetries
<1>9. CASE FinishList(e, i)
  <2>1. lock' = lock /\ pc[e][i] = "list"
    BY <1>9 DEF FinishList, ListForSync, Step
  <2> QED BY <1>3, <2>1 DEF LockedPcs
<1> QED BY <1>1, <1>4, <1>5, <1>6, <1>7, <1>8, <1>9 DEF Worker

LEMMA LockCrash ==
  ASSUME LockInv, TypeOK, WorkersBelong, NEW s \in Services, Crash(s)
  PROVE  LockInv'
<1>1. lock' = [lock EXCEPT ![s] = FALSE]
  BY DEF Crash
<1>2. ASSUME NEW d \in Calls, NEW j \in Places, HoldsLock(d, j)'
      PROVE  HoldsLock(d, j) /\ ServiceOf[d] # s
  <2>1. CASE j = 0
    <3>1. phase'[d] \in {"list", "put"}
      BY <1>2, <2>1 DEF HoldsLock
    <3>2. phase'[d] = phase[d] /\ ~(ServiceOf[d] = s /\ InProgress(d))
      BY <3>1 DEF Crash
    <3> QED BY <2>1, <3>1, <3>2 DEF HoldsLock, InProgress, Returned
  <2>2. CASE j # 0
    <3>1. j \in Instances /\ d \in Executors /\ pc'[d][j] \in LockedPcs
      BY <1>2, <2>2 DEF HoldsLock, Places
    <3>2. pc'[d][j] = pc[d][j] /\ ~(ServiceOf[d] = s /\ InProgress(d))
      BY <3>1 DEF Crash, EndWorkers, Reset, LockedPcs
    <3>3. InProgress(d)
      BY <3>1, <3>2 DEF WorkersBelong, LockedPcs, Scheduling, InProgress, Returned
    <3> QED BY <2>2, <3>1, <3>2, <3>3 DEF HoldsLock
  <2> QED BY <2>1, <2>2
<1>3. \A d \in Calls : ServiceOf[d] \in Services
  BY CallsAssumption
<1>4. \A t \in Services : t # s => lock'[t] = lock[t]
  BY <1>1 DEF TypeOK
<1> HIDE DEF HoldsLock
<1> QED BY <1>2, <1>3, <1>4 DEF LockInv

LEMMA LockStep ==
  ASSUME LockInv, TypeOK, WorkersBelong, [Next]_vars
  PROVE  LockInv'
<1>1. CASE UNCHANGED vars \/ Terminated
  BY <1>1, LockKept DEF vars, Terminated, schedule, work, HoldsLock
<1> QED BY <1>1, LockCall, LockSchedule, LockWorker, LockCrash DEF Next

LEMMA LockInit == Init => LockInv
BY DEF Init, LockInv, HoldsLock, LockedPcs, Places

-----------------------------------------------------------------------------
(* What one step of a worker does, read at its own instance.               *)

\* Steps that write no record and no copy.
Silent(e, i) ==
  /\ UNCHANGED <<dbInst, dbRun, lock, runCopy, instCopy>>
  /\ \/ pc[e][i] = "check1" /\ (pc'[e][i] = "start" \/ (pc'[e][i] = "save" /\ Stopping(e)))
     \/ pc[e][i] = "check2" /\ (pc'[e][i] = "scenario" \/ (pc'[e][i] = "save" /\ Stopping(e)))
     \/ /\ pc[e][i] = "check3"
        /\ \/ pc'[e][i] = "collect" /\ (goal'[e][i] = goal[e][i] \/ Stopping(e))
           \/ pc'[e][i] = "save" /\ Stopping(e)
     \/ pc[e][i] = "scenario" /\ pc'[e][i] = "check3" /\ goal'[e][i] \in {"success", "failed"}
     \/ pc[e][i] = "scenario" /\ pc'[e][i] \in {"scenario", "handler"}
     \/ pc[e][i] = "handler" /\ pc'[e][i] = "save" /\ InstanceMay(instCopy[e][i], goal'[e][i])
     \/ pc[e][i] = "handler" /\ pc'[e][i] = "raised" /\ instCopy[e][i] \in TerminalInst
     \/ pc[e][i] = "report" /\ pc'[e][i] \in {"done", "raised", "handler"}

\* Steps that save the instance record with status s: Prepare, MarkRunningSave, Collect
\* and FinishSave.
Saves(e, i, s) ==
  /\ UNCHANGED <<dbRun, runCopy>> /\ dbInst'[i] = s /\ instCopy'[e][i] = s
  /\ \/ pc[e][i] = "prepare" /\ pc'[e][i] = "check1" /\ s = "preparing" /\ Free(e)
     \/ pc[e][i] = "startSave" /\ pc'[e][i] = "check2" /\ s = instCopy[e][i]
     \/ /\ pc[e][i] = "collect" /\ pc'[e][i] \in {"save", "handler"} /\ s = "collecting" /\ Free(e)
        /\ goal'[e][i] = goal[e][i]
     \/ pc[e][i] = "save" /\ pc'[e][i] = "list" /\ s = goal[e][i] /\ Free(e)

\* Steps that touch the run object or its record, and not the instance record.
Runs(e, i) ==
  /\ dbInst' = dbInst
  /\ \/ /\ pc[e][i] = "start" /\ pc'[e][i] = "startSave" /\ instCopy'[e][i] = "running" /\ Free(e)
        /\ RunMay(runCopy[e], "running") /\ runCopy'[e] = "running" /\ dbRun' = "running"
     \/ /\ pc[e][i] = "start" /\ pc'[e][i] = "handler" /\ instCopy'[e][i] = "running"
        /\ ~RunMay(runCopy[e], "running") /\ UNCHANGED <<dbRun, runCopy>>
     \/ /\ pc[e][i] = "list" /\ pc'[e][i] = "put" /\ runCopy'[e] = DerivedRun(dbInst)
        /\ UNCHANGED <<dbRun, instCopy>>
     \/ /\ pc[e][i] = "put" /\ pc'[e][i] = "report" /\ dbRun' = runCopy[e]
        /\ UNCHANGED <<runCopy, instCopy>>

\* Moving a worker moves its program counter and nobody else's.
LEMMA StepMoves ==
  \A from, to : \A e \in Executors, i \in Instances :
    TypeOK /\ Step(e, i, from, to) => pc[e][i] = from /\ pc'[e][i] = to
BY DEF Step, TypeOK

LEMMA SaveMoves ==
  \A s : \A e \in Executors, i \in Instances :
    TypeOK /\ SaveInstance(e, i, s) => dbInst'[i] = s /\ instCopy'[e][i] = s
BY DEF SaveInstance, TypeOK

\* A status the handler may not leave is terminal.
LEMMA HandlerMay ==
  \A e : \A s \in InstStatus : ~InstanceMay(s, HandlerGoal(e)) => s \in TerminalInst
BY DEF InstStatus, InstanceMay, InstanceTransitions, HandlerGoal, TerminalInst

LEMMA WorkerMoves ==
  ASSUME TypeOK, NEW e \in Executors, NEW i \in Instances,
         Worker(e, i) \/ ReportFails(e, i)
  PROVE  Silent(e, i) \/ Runs(e, i) \/ \E s \in InstStatus : Saves(e, i, s)
<1> USE DEF db, copies
<1>1. CASE Prepare(e, i)
  <2>1. pc[e][i] = "prepare" /\ pc'[e][i] = "check1" /\ dbInst'[i] = "preparing" /\ instCopy'[e][i] = "preparing"
    BY <1>1, StepMoves, SaveMoves DEF Prepare
  <2> QED BY <1>1, <2>1 DEF Prepare, Saves, InstStatus
<1>2. CASE CheckBeforeStart(e, i)
  <2>1. pc[e][i] = "check1" /\ pc'[e][i] = (IF Stopping(e) THEN "save" ELSE "start")
    BY <1>2, StepMoves DEF CheckBeforeStart, Check
  <2> QED BY <1>2, <2>1 DEF CheckBeforeStart, Check, Silent
<1>3. CASE CheckBeforeScenario(e, i)
  <2>1. pc[e][i] = "check2" /\ pc'[e][i] = (IF Stopping(e) THEN "save" ELSE "scenario")
    BY <1>3, StepMoves DEF CheckBeforeScenario, Check
  <2> QED BY <1>3, <2>1 DEF CheckBeforeScenario, Check, Silent
<1>4. CASE CheckAfterScenario(e, i)
  <2>1. pc[e][i] = "check3" /\ pc'[e][i] = (IF Stopping(e) THEN "save" ELSE "collect")
    BY <1>4, StepMoves DEF CheckAfterScenario, Check
  <2>2. ~Stopping(e) => goal'[e][i] = goal[e][i]
    BY <1>4 DEF CheckAfterScenario, Check, TypeOK
  <2> QED BY <1>4, <2>1, <2>2 DEF CheckAfterScenario, Check, Silent
<1>5. CASE MarkRunning(e, i)
  <2>1. pc[e][i] = "start" /\ pc'[e][i] = "startSave"
    BY <1>5, StepMoves DEF MarkRunning
  <2>2. instCopy'[e][i] = "running" /\ runCopy'[e] = "running"
    BY <1>5 DEF MarkRunning, TypeOK
  <2> QED BY <1>5, <2>1, <2>2 DEF MarkRunning, Acquire, Runs
<1>6. CASE MarkRunningSave(e, i)
  <2>1. pc[e][i] = "startSave" /\ pc'[e][i] = "check2"
    BY <1>6, StepMoves DEF MarkRunningSave
  <2>2. dbInst'[i] = instCopy[e][i] /\ instCopy'[e][i] = instCopy[e][i]
    BY <1>6, SaveMoves DEF MarkRunningSave
  <2>3. instCopy[e][i] \in InstStatus
    BY DEF TypeOK
  <2> QED BY <1>6, <2>1, <2>2, <2>3 DEF MarkRunningSave, Saves
<1>7. CASE MarkRunningRefused(e, i)
  <2>1. pc[e][i] = "start" /\ pc'[e][i] = "handler"
    BY <1>7, StepMoves DEF MarkRunningRefused
  <2>2. instCopy'[e][i] = "running"
    BY <1>7 DEF MarkRunningRefused, TypeOK
  <2> QED BY <1>7, <2>1, <2>2 DEF MarkRunningRefused, Runs
<1>8. CASE ScenarioReturns(e, i)
  <2>1. pc[e][i] = "scenario" /\ pc'[e][i] = "check3"
    BY <1>8, StepMoves DEF ScenarioReturns
  <2>2. goal'[e][i] \in {"success", "failed"}
    BY <1>8 DEF ScenarioReturns, TypeOK
  <2> QED BY <1>8, <2>1, <2>2 DEF ScenarioReturns, Silent
<1>9. CASE ScenarioRetries(e, i)
  BY <1>9 DEF ScenarioRetries, Silent
<1>10. CASE ScenarioRaises(e, i)
  <2>1. pc[e][i] = "scenario" /\ pc'[e][i] = "handler"
    BY <1>10, StepMoves DEF ScenarioRaises
  <2> QED BY <1>10, <2>1 DEF ScenarioRaises, Silent
<1>11. CASE Collect(e, i)
  <2>1. pc[e][i] = "collect" /\ pc'[e][i] \in {"save", "handler"}
    BY <1>11, StepMoves DEF Collect
  <2>2. dbInst'[i] = "collecting" /\ instCopy'[e][i] = "collecting"
    BY <1>11, SaveMoves DEF Collect
  <2> QED BY <1>11, <2>1, <2>2 DEF Collect, Plain, Saves, InstStatus
<1>12. CASE Handle(e, i)
  <2>1. pc[e][i] = "handler" /\ pc'[e][i] = "save"
    BY <1>12, StepMoves DEF Handle
  <2>2. goal'[e][i] = HandlerGoal(e)
    BY <1>12 DEF Handle, TypeOK
  <2> QED BY <1>12, <2>1, <2>2 DEF Handle, Silent
<1>13. CASE HandlerRaises(e, i)
  <2>1. pc[e][i] = "handler" /\ pc'[e][i] = "raised"
    BY <1>13, StepMoves DEF HandlerRaises
  <2>2. instCopy[e][i] \in TerminalInst
    BY <1>13, HandlerMay DEF HandlerRaises, TypeOK
  <2> QED BY <1>13, <2>1, <2>2 DEF HandlerRaises, Silent
<1>14. CASE FinishSave(e, i)
  <2>1. pc[e][i] = "save" /\ pc'[e][i] = "list"
    BY <1>14, StepMoves DEF FinishSave
  <2>2. dbInst'[i] = goal[e][i] /\ instCopy'[e][i] = goal[e][i]
    BY <1>14, SaveMoves DEF FinishSave
  <2>3. goal[e][i] \in InstStatus
    BY DEF TypeOK, InstStatus, TerminalInst
  <2> QED BY <1>14, <2>1, <2>2, <2>3 DEF FinishSave, Acquire, Saves
<1>15. CASE FinishList(e, i)
  <2>1. pc[e][i] = "list" /\ pc'[e][i] = "put"
    BY <1>15, StepMoves DEF FinishList
  <2>2. runCopy'[e] = DerivedRun(dbInst)
    BY <1>15 DEF FinishList, ListForSync, TypeOK
  <2> QED BY <1>15, <2>1, <2>2 DEF FinishList, ListForSync, Runs
<1>16. CASE FinishPut(e, i)
  <2>1. pc[e][i] = "put" /\ pc'[e][i] = "report"
    BY <1>16, StepMoves DEF FinishPut
  <2> QED BY <1>16, <2>1 DEF FinishPut, SaveSyncedRun, Runs
<1>17. CASE WriteReports(e, i)
  <2>1. pc[e][i] = "report" /\ pc'[e][i] = "done"
    BY <1>17, StepMoves DEF WriteReports
  <2> QED BY <1>17, <2>1 DEF WriteReports, Silent
<1>18. CASE ReportFails(e, i)
  <2>1. pc[e][i] = "report" /\ pc'[e][i] \in {"raised", "handler"}
    BY <1>18, StepMoves DEF ReportFails
  <2> QED BY <1>18, <2>1 DEF ReportFails, Silent
<1> QED BY <1>1, <1>2, <1>3, <1>4, <1>5, <1>6, <1>7, <1>8, <1>9, <1>10, <1>11, <1>12,
           <1>13, <1>14, <1>15, <1>16, <1>17, <1>18 DEF Worker

-----------------------------------------------------------------------------
(* A run object that is about to be saved says what the instances say.     *)

\* Calls in progress share a service, hence a lock: either every call is made on one
\* service, or nothing but execute_run is called and no two overlap.
Together ==
  \A c, d \in Calls : InProgress(c) /\ InProgress(d) => ServiceOf[c] = ServiceOf[d]

\* The call, or its worker, has listed the instances and is to save the run.
ListedAt(c, i) ==
  IF i = 0 THEN phase[c] = "put" ELSE c \in Executors /\ pc[c][i] = "put"

ListedInv ==
  \A c \in Calls, i \in Places : ListedAt(c, i) => runCopy[c] = DerivedRun(dbInst)

LEMMA ListedHolds ==
  \A c \in Calls, i \in Places : ListedAt(c, i) => HoldsLock(c, i)
BY DEF ListedAt, HoldsLock, LockedPcs

LEMMA HolderInProgress ==
  ASSUME WorkersBelong, NEW c \in Calls, NEW i \in Places, HoldsLock(c, i)
  PROVE  InProgress(c)
<1>1. CASE i = 0
  BY <1>1 DEF HoldsLock, InProgress, Returned
<1>2. CASE i # 0
  BY <1>2 DEF HoldsLock, LockedPcs, Places, WorkersBelong, Scheduling, InProgress, Returned
<1> QED BY <1>1, <1>2

\* A worker belongs to a call in progress.
LEMMA WorkerInProgress ==
  ASSUME WorkersBelong, NEW e \in Executors, NEW i \in Instances, pc[e][i] # "none"
  PROVE  InProgress(e)
BY DEF WorkersBelong, Scheduling, InProgress, Returned

LEMMA FreeMeansNobody ==
  ASSUME WorkersBelong, LockInv, Together, NEW c \in Calls, InProgress(c), Free(c),
         NEW d \in Calls, NEW j \in Places
  PROVE  ~HoldsLock(d, j) /\ ~ListedAt(d, j)
BY HolderInProgress, ListedHolds DEF Together, LockInv, Free

LEMMA OnlyHolder ==
  ASSUME WorkersBelong, LockInv, Together, NEW c \in Calls, NEW i \in Places, HoldsLock(c, i),
         NEW d \in Calls, NEW j \in Places, d # c \/ j # i
  PROVE  ~HoldsLock(d, j) /\ ~ListedAt(d, j)
BY HolderInProgress, ListedHolds DEF Together, LockInv

LEMMA ListedKept ==
  ASSUME ListedInv, dbInst' = dbInst,
         \A d \in Calls, j \in Places :
           ListedAt(d, j)' => ListedAt(d, j) /\ runCopy'[d] = runCopy[d]
  PROVE  ListedInv'
BY DEF ListedInv

LEMMA ListedCall ==
  ASSUME TypeOK, WorkersBelong, LockInv, ListedInv, Together,
         NEW c \in Calls, BeginCall(c) \/ Cancel(c) \/ Return(c)
  PROVE  ListedInv'
<1>1. CASE BeginCall(c)
  <2>1. dbInst' = dbInst /\ pc' = pc /\ phase[c] = "idle" /\ phase' = [phase EXCEPT ![c] = "read"]
        /\ \A d \in Calls : d # c => runCopy'[d] = runCopy[d]
    BY <1>1 DEF BeginCall, GoTo, db, work, TypeOK
  <2>2. \A j \in Places : ~ListedAt(c, j)'
    BY <2>1 DEF ListedAt, Places, WorkersBelong, Scheduling, TypeOK
  <2>3. \A d \in Calls, j \in Places : d # c => ListedAt(d, j)' = ListedAt(d, j)
    BY <2>1 DEF ListedAt, TypeOK
  <2> QED BY <2>1, <2>2, <2>3, ListedKept
<1>2. CASE Return(c) \/ CancelPut(c)
  <2>1. /\ dbInst' = dbInst /\ pc' = pc /\ runCopy' = runCopy
        /\ phase' \in {[phase EXCEPT ![c] = "done"], [phase EXCEPT ![c] = "loop"]}
    BY <1>2 DEF Return, CancelPut, SaveSyncedRun, GoTo, db, work, copies
  <2>2. \A d \in Calls, j \in Places : ListedAt(d, j)' => ListedAt(d, j)
    BY <2>1 DEF ListedAt, TypeOK
  <2> QED BY <2>1, <2>2, ListedKept
<1>3. ASSUME NEW i \in Instances, CancelNext(c, i) PROVE ListedInv'
  <2>1. /\ Free(c) /\ phase[c] = "loop" /\ phase' = [phase EXCEPT ![c] = "list"] /\ pc' = pc
    BY <1>3 DEF CancelNext, Acquire, GoTo, work
  <2>2. InProgress(c)
    BY <2>1 DEF InProgress, Returned
  <2>3. \A d \in Calls, j \in Places : ~ListedAt(d, j)
    BY <2>1, <2>2, FreeMeansNobody
  <2>4. \A d \in Calls, j \in Places : ~ListedAt(d, j)'
    BY <2>1, <2>3 DEF ListedAt, TypeOK
  <2> QED BY <2>4 DEF ListedInv
<1>4. CASE CancelList(c)
  <2>1. /\ phase[c] = "list" /\ phase' = [phase EXCEPT ![c] = "put"]
        /\ pc' = pc /\ dbInst' = dbInst
        /\ runCopy' = [runCopy EXCEPT ![c] = DerivedRun(dbInst)]
    BY <1>4 DEF CancelList, ListForSync, GoTo, db, work
  <2>2. 0 \in Places /\ HoldsLock(c, 0)
    BY <2>1 DEF HoldsLock, Places
  <2>3. \A d \in Calls, j \in Places : d # c \/ j # 0 => ~ListedAt(d, j)
    BY <2>2, OnlyHolder
  <2>4. \A d \in Calls, j \in Places : d # c \/ j # 0 => ~ListedAt(d, j)'
    BY <2>1, <2>3 DEF ListedAt, TypeOK
  <2>5. runCopy'[c] = DerivedRun(dbInst')
    BY <2>1 DEF TypeOK
  <2> QED BY <2>4, <2>5 DEF ListedInv
<1> QED BY <1>1, <1>2, <1>3, <1>4 DEF Cancel

LEMMA ListedWorker ==
  ASSUME TypeOK, WorkersBelong, LockInv, ListedInv, Together,
         NEW e \in Executors, NEW i \in Instances, Worker(e, i) \/ ReportFails(e, i)
  PROVE  ListedInv'
<1>0. /\ i \in Places /\ i # 0 /\ phase' = phase
      /\ \A d \in Calls, j \in Places : d # e \/ j # i => ListedAt(d, j)' = ListedAt(d, j)
  BY WorkerFrame DEF ListedAt, Places, Instances
<1>1. /\ ListedAt(e, i) = (pc[e][i] = "put") /\ ListedAt(e, i)' = (pc'[e][i] = "put")
      /\ HoldsLock(e, i) = (pc[e][i] \in LockedPcs)
  BY <1>0 DEF ListedAt, HoldsLock
<1>2. InProgress(e) /\ \A d \in Calls : d # e => runCopy'[d] = runCopy[d]
  BY WorkerFrame, WorkerInProgress
<1>3. ASSUME dbInst' = dbInst, runCopy'[e] = runCopy[e], pc'[e][i] # "put" PROVE ListedInv'
  BY <1>0, <1>1, <1>2, <1>3, ListedKept
<1>4. ASSUME \A d \in Calls, j \in Places : d # e \/ j # i => ~ListedAt(d, j),
             pc'[e][i] = "put" => runCopy'[e] = DerivedRun(dbInst')
      PROVE  ListedInv'
  BY <1>0, <1>1, <1>4 DEF ListedInv
<1>5. Free(e) => \A d \in Calls, j \in Places : ~ListedAt(d, j)
  BY <1>2, FreeMeansNobody
<1>6. pc[e][i] \in LockedPcs => \A d \in Calls, j \in Places : d # e \/ j # i => ~ListedAt(d, j)
  BY <1>0, <1>1, OnlyHolder
<1>7. CASE Silent(e, i)
  BY <1>3, <1>7 DEF Silent
<1>8. CASE Runs(e, i)
  <2>1. CASE pc[e][i] = "start" /\ Free(e) /\ pc'[e][i] = "startSave"
    BY <1>4, <1>5, <2>1
  <2>2. CASE pc[e][i] = "list" /\ pc'[e][i] = "put" /\ runCopy'[e] = DerivedRun(dbInst)
    <3>1. runCopy'[e] = DerivedRun(dbInst')
      BY <1>8, <2>2 DEF Runs
    <3> QED BY <1>4, <1>6, <2>2, <3>1 DEF LockedPcs
  <2> QED BY <1>3, <1>8, <2>1, <2>2 DEF Runs
<1>9. ASSUME NEW s \in InstStatus, Saves(e, i, s) PROVE ListedInv'
  BY <1>4, <1>5, <1>6, <1>9 DEF Saves, LockedPcs
<1> QED BY <1>7, <1>8, <1>9, WorkerMoves

\* A run object listed under the lock stays what the instances amount to until it is
\* saved: whoever changes an instance takes the lock or waits until it is free.
LEMMA ListedStep ==
  ASSUME IInv, LockInv, ListedInv, Together, [Next]_vars
  PROVE  ListedInv'
<1> USE DEF IInv, StartInv
<1>1. CASE UNCHANGED vars \/ Terminated
  BY <1>1, ListedKept DEF vars, Terminated, schedule, work, db, copies, ListedAt
<1>2. ASSUME NEW e \in Executors, ReadForExecute(e) \/ ClearStopRequest(e) PROVE ListedInv'
  BY <1>2, ListedKept
  DEF ReadForExecute, ReadInstances, ClearStopRequest, SetStopEvent, GoTo, work, TypeOK, ListedAt,
      db, copies
<1>3. ASSUME NEW e \in Executors, NEW i \in Instances, Submit(e, i) PROVE ListedInv'
  BY <1>3, ListedKept DEF Submit, TypeOK, ListedAt, db, copies, Places
<1>4. ASSUME NEW e \in Executors, NEW batch \in SUBSET InFlight(e), Reap(e, batch) PROVE ListedInv'
  <2>1. \A d \in Calls, j \in Places : ListedAt(d, j)' => ListedAt(d, j)
    BY <1>4, ReapFrame DEF TypeOK, ListedAt, Places
  <2> QED BY <1>4, <2>1, ReapFrame, ListedKept DEF db, copies
<1>5. ASSUME NEW e \in Executors, Raise(e) PROVE ListedInv'
  <2>1. \A d \in Calls, j \in Places : ListedAt(d, j)' => ListedAt(d, j)
    BY ZenonT(30), <1>5, RaiseFrame DEF TypeOK, ListedAt, Places
  <2> QED BY <1>5, <2>1, RaiseFrame, ListedKept DEF db, copies
<1>6. ASSUME NEW c \in Stoppers, Stop(c) PROVE ListedInv'
  BY <1>6, ListedKept
  DEF Stop, ReadForStop, ReadInstances, RequestStop, SetStopEvent, GoTo, work, TypeOK, ListedAt,
      db, copies
<1>7. ASSUME NEW s \in Services, Crash(s) PROVE ListedInv'
  <2>1. \A d \in Calls, j \in Places : ListedAt(d, j)' => ListedAt(d, j)
    BY <1>7 DEF Crash, EndWorkers, Reset, ListedAt, Places
  <2> QED BY <1>7, <2>1, ListedKept DEF Crash, db, copies
<1> QED BY <1>1, <1>2, <1>3, <1>4, <1>5, <1>6, <1>7, ListedCall, ListedWorker DEF Next, Execute

-----------------------------------------------------------------------------
(* A run at rest is truthful.                                              *)

\* A worker that has still to persist a terminal status of its instance.
Unfinished == {"check1", "start", "startSave", "check2", "scenario", "check3", "collect", "save"}
Owned(e, i) ==
  pc[e][i] \in Unfinished \/ (pc[e][i] = "handler" /\ instCopy[e][i] \notin TerminalInst)

\* From its start on, a worker's copy is not terminal until it is saved as such.
CopyActive ==
  \A e \in Executors, i \in Instances :
    pc[e][i] \in {"check2", "scenario", "check3", "collect"} => instCopy[e][i] \notin TerminalInst

\* While the run record is stale, someone is still to synchronize it.
SyncDue ==
  \/ dbRun = DerivedRun(dbInst)
  \/ \E c \in Calls : phase[c] \in {"list", "put"}
  \/ \E e \in Executors, i \in Instances : Owned(e, i) \/ pc[e][i] \in {"list", "put"}

\* While an instance is active, a worker is still to finish it.
ActiveOwned ==
  \A i \in Instances : dbInst[i] \in ActiveInst => \E e \in Executors : Owned(e, i)

\* Who looked at a pending instance is still to start it or to cancel it.
StopTodo ==
  \A c \in Stoppers, i \in Instances :
    phase[c] \in {"event", "loop", "list", "put"} /\ dbInst[i] = "pending" => i \in todo[c]
ExecuteTodo ==
  \A e \in Executors, i \in Instances :
    phase[e] \in {"clear", "loop", "list", "put"} /\ dbInst[i] = "pending" =>
      (i \in todo[e] /\ instCopy[e][i] = "pending") \/ pc[e][i] = "prepare"
DoneNonePending ==
  \A c \in Calls, i \in Instances : phase[c] = "done" => dbInst[i] # "pending"

SyncInv == CopyActive /\ SyncDue /\ ActiveOwned
PendingInv == StopTodo /\ ExecuteTodo /\ DoneNonePending
RestInv == IInv /\ LockInv /\ ListedInv /\ SyncInv /\ PendingInv

\* Steps that leave the records and everyone who has still to write them.
LEMMA SyncKept ==
  ASSUME SyncInv, UNCHANGED <<dbInst, dbRun>>,
         \A c \in Calls : phase[c] \in {"list", "put"} => phase'[c] \in {"list", "put"},
         \A e \in Executors, i \in Instances :
           \/ pc'[e][i] = pc[e][i] /\ (instCopy'[e][i] = instCopy[e][i] \/ pc[e][i] = "none")
           \/ pc[e][i] \in {"none", "done", "raised"} /\ pc'[e][i] \in {"none", "prepare"}
  PROVE  SyncInv'
<1>1. \A e \in Executors, i \in Instances : Owned(e, i) => Owned(e, i)'
  BY DEF Owned, Unfinished
<1>2. CopyActive'
  BY DEF SyncInv, CopyActive
<1>3. ActiveOwned'
  BY <1>1 DEF SyncInv, ActiveOwned
<1>4. \A e \in Executors, i \in Instances : pc[e][i] \in {"list", "put"} => pc'[e][i] = pc[e][i]
  OBVIOUS
<1>5. SyncDue'
  BY <1>1, <1>4 DEF SyncInv, SyncDue
<1> QED BY <1>2, <1>3, <1>5 DEF SyncInv

LEMMA SyncCall ==
  ASSUME RestInv, NEW c \in Calls, BeginCall(c) \/ Cancel(c) \/ Return(c)
  PROVE  SyncInv'
<1>0. TypeOK /\ WorkersBelong /\ SyncInv /\ ListedInv
  BY DEF RestInv, IInv, StartInv
<1>1. CASE BeginCall(c) \/ Return(c)
  <2>1. /\ UNCHANGED <<dbInst, dbRun, pc, instCopy>> /\ phase[c] \in {"idle", "loop"}
        /\ \A d \in Calls : d # c => phase'[d] = phase[d]
    BY <1>0, <1>1 DEF BeginCall, Return, GoTo, db, work, copies, TypeOK
  <2> QED BY <1>0, <2>1, SyncKept
<1>2. ASSUME NEW i \in Instances, CancelNext(c, i) PROVE SyncInv'
  <2>1. /\ i \in todo[c] /\ pc' = pc /\ phase'[c] = "list"
        /\ dbInst'[i] = "cancelled" /\ \A j \in Instances : j # i => dbInst'[j] = dbInst[j]
        /\ \A d \in Calls, j \in Instances : d # c \/ j # i => instCopy'[d][j] = instCopy[d][j]
    BY <1>0, <1>2 DEF CancelNext, FirstOf, SaveInstance, GoTo, work, TypeOK
  <2>2. c \in Executors => pc[c][i] = "none"
    BY <1>0, <2>1 DEF WorkersBelong
  <2>3. \A e \in Executors, j \in Instances : Owned(e, j)' = Owned(e, j)
    BY <2>1, <2>2 DEF Owned, Unfinished
  <2>4. CopyActive'
    BY <1>0, <2>1, <2>2 DEF CopyActive, SyncInv
  <2>5. SyncDue' /\ ActiveOwned'
    BY <1>0, <2>1, <2>3 DEF SyncInv, SyncDue, ActiveOwned, ActiveInst
  <2> QED BY <2>4, <2>5 DEF SyncInv
<1>3. CASE CancelList(c)
  <2>1. /\ UNCHANGED <<dbInst, dbRun, pc, instCopy>> /\ phase'[c] = "put"
        /\ \A d \in Calls : d # c => phase'[d] = phase[d]
    BY <1>0, <1>3 DEF CancelList, ListForSync, GoTo, db, work, TypeOK
  <2> QED BY <1>0, <2>1, SyncKept
<1>4. CASE CancelPut(c)
  <2>1. /\ UNCHANGED <<dbInst, pc, instCopy>> /\ dbRun' = runCopy[c] /\ phase[c] = "put"
    BY <1>4 DEF CancelPut, SaveSyncedRun, work, copies
  <2>2. dbRun' = DerivedRun(dbInst')
    BY <1>0, <2>1 DEF ListedInv, ListedAt, Places
  <2>3. CopyActive' /\ ActiveOwned'
    BY <1>0, <2>1 DEF SyncInv, CopyActive, ActiveOwned, Owned
  <2> QED BY <2>2, <2>3 DEF SyncInv, SyncDue
<1> QED BY <1>1, <1>2, <1>3, <1>4 DEF Cancel

LEMMA SyncSchedule ==
  ASSUME RestInv
  PROVE  /\ \A e \in Executors : Execute(e) => SyncInv'
         /\ \A c \in Stoppers : Stop(c) => SyncInv'
<1>0. TypeOK /\ WorkersBelong /\ SyncInv
  BY DEF RestInv, IInv, StartInv
<1>1. ASSUME NEW e \in Executors, ReadForExecute(e) PROVE SyncInv'
  <2>1. /\ UNCHANGED <<dbInst, dbRun, pc>> /\ phase[e] = "read"
        /\ \A d \in Calls : d # e => phase'[d] = phase[d] /\ instCopy'[d] = instCopy[d]
    BY <1>0, <1>1 DEF ReadForExecute, ReadInstances, GoTo, db, work, TypeOK
  <2>2. \A i \in Instances : pc[e][i] = "none"
    BY <1>0, <2>1 DEF WorkersBelong, Scheduling
  <2> QED BY <1>0, <2>1, <2>2, SyncKept
<1>2. ASSUME NEW e \in Executors, ClearStopRequest(e) PROVE SyncInv'
  <2>1. /\ UNCHANGED <<dbInst, dbRun, pc, instCopy>> /\ phase[e] = "clear"
        /\ \A d \in Calls : d # e => phase'[d] = phase[d]
    BY <1>0, <1>2 DEF ClearStopRequest, SetStopEvent, GoTo, db, work, copies, TypeOK
  <2> QED BY <1>0, <2>1, SyncKept
<1>3. ASSUME NEW e \in Executors, NEW i \in Instances, Submit(e, i) PROVE SyncInv'
  <2>1. /\ UNCHANGED <<dbInst, dbRun, phase, instCopy>> /\ i \in todo[e] /\ pc'[e][i] = "prepare"
        /\ \A f \in Executors, j \in Instances : f # e \/ j # i => pc'[f][j] = pc[f][j]
    BY <1>0, <1>3 DEF Submit, FirstOf, db, copies, TypeOK
  <2>2. pc[e][i] = "none"
    BY <1>0, <2>1 DEF WorkersBelong
  <2> QED BY <1>0, <2>1, <2>2, SyncKept
<1>4. ASSUME NEW e \in Executors, Raise(e) PROVE SyncInv'
  <2>1. /\ UNCHANGED <<dbInst, dbRun, instCopy>>
        /\ \A d \in Calls : phase[d] \in {"list", "put"} => phase'[d] \in {"list", "put"}
    BY <1>0, <1>4, RaiseFrame DEF db, copies, TypeOK
  <2> QED BY <1>0, <1>4, <2>1, RaiseFrame, SyncKept
<1>5. ASSUME NEW e \in Executors, NEW batch \in SUBSET InFlight(e), Reap(e, batch) PROVE SyncInv'
  <2>1. /\ UNCHANGED <<dbInst, dbRun, instCopy>>
        /\ \A d \in Calls : phase[d] \in {"list", "put"} => phase'[d] \in {"list", "put"}
    BY <1>0, <1>5, ReapFrame DEF db, copies, TypeOK
  <2> QED BY <1>0, <1>5, <2>1, ReapFrame, SyncKept
<1>6. ASSUME NEW c \in Stoppers, Stop(c) PROVE SyncInv'
  <2>1. /\ UNCHANGED <<dbInst, dbRun, pc>> /\ phase[c] \in {"read", "event"} /\ c \notin Executors
        /\ \A d \in Calls : d # c => phase'[d] = phase[d] /\ instCopy'[d] = instCopy[d]
    BY <1>0, <1>6, CallsAssumption
    DEF Stop, ReadForStop, ReadInstances, RequestStop, SetStopEvent, GoTo, db, work, copies, TypeOK
  <2> QED BY <1>0, <2>1, SyncKept
<1> QED BY <1>1, <1>2, <1>3, <1>4, <1>5, <1>6 DEF Execute

LEMMA SyncWorker ==
  ASSUME RestInv, NEW e \in Executors, NEW i \in Instances, Worker(e, i) \/ ReportFails(e, i)
  PROVE  SyncInv'
<1>0. /\ TypeOK /\ SyncInv /\ ListedInv /\ StartIsPersisted
      /\ i \in Places /\ i # 0
  BY DEF RestInv, IInv, StartInv, Places, Instances
<1>1. /\ phase' = phase
      /\ \A f \in Executors, j \in Instances :
           f # e \/ j # i => pc'[f][j] = pc[f][j] /\ instCopy'[f][j] = instCopy[f][j]
      /\ \A j \in Instances : j # i => dbInst'[j] = dbInst[j]
  BY <1>0, WorkerFrame
<1>2. \A f \in Executors, j \in Instances : f # e \/ j # i => Owned(f, j)' = Owned(f, j)
  BY <1>1 DEF Owned
<1>3. CopyActive'
  <2>1. pc'[e][i] \in {"check2", "scenario", "check3", "collect"} => instCopy'[e][i] \notin TerminalInst
    <3>1. CASE Silent(e, i)
      BY <1>0, <3>1 DEF Silent, SyncInv, CopyActive
    <3>2. CASE Runs(e, i)
      BY <3>2 DEF Runs
    <3>3. ASSUME NEW s \in InstStatus, Saves(e, i, s)
          PROVE  pc'[e][i] \in {"check2", "scenario", "check3", "collect"} => instCopy'[e][i] \notin TerminalInst
      BY <1>0, <3>3 DEF Saves, StartIsPersisted, TerminalInst
    <3> QED BY <1>0, <3>1, <3>2, <3>3, WorkerMoves
  <2> QED BY <1>0, <1>1, <2>1 DEF SyncInv, CopyActive
<1>4. ASSUME dbInst' = dbInst, Owned(e, i) => Owned(e, i)' PROVE ActiveOwned'
  BY <1>0, <1>2, <1>4 DEF SyncInv, ActiveOwned
<1>5. CASE Silent(e, i)
  <2>1. Owned(e, i) => Owned(e, i)'
    BY <1>0, <1>5 DEF Silent, Owned, Unfinished, SyncInv, CopyActive
  <2>2. pc[e][i] \notin {"list", "put"} /\ UNCHANGED <<dbInst, dbRun>>
    BY <1>5 DEF Silent
  <2>3. SyncDue'
    BY <1>0, <1>1, <1>2, <2>1, <2>2 DEF SyncInv, SyncDue
  <2> QED BY <1>3, <1>4, <2>1, <2>2, <2>3 DEF SyncInv
<1>6. CASE Runs(e, i)
  <2>1. CASE pc'[e][i] \in {"startSave", "handler", "put"}
    <3>1. Owned(e, i)' \/ pc'[e][i] = "put"
      BY <1>6, <2>1 DEF Runs, Owned, Unfinished, TerminalInst
    <3>2. Owned(e, i) => Owned(e, i)'
      BY <1>6, <2>1, <3>1 DEF Runs, Owned, Unfinished
    <3> QED BY <1>3, <1>4, <1>6, <3>1, <3>2 DEF SyncInv, SyncDue, Runs
  <2>2. CASE pc[e][i] = "put" /\ dbRun' = runCopy[e] /\ dbInst' = dbInst
    <3>1. dbRun' = DerivedRun(dbInst')
      BY <1>0, <2>2 DEF ListedInv, ListedAt
    <3>2. ~Owned(e, i)
      BY <2>2 DEF Owned, Unfinished
    <3> QED BY <1>3, <1>4, <2>2, <3>1, <3>2 DEF SyncInv, SyncDue
  <2> QED BY <1>6, <2>1, <2>2 DEF Runs
<1>7. ASSUME NEW s \in InstStatus, Saves(e, i, s) PROVE SyncInv'
  <2>1. Owned(e, i)' \/ (pc'[e][i] = "list" /\ dbInst'[i] \in TerminalInst)
    BY <1>0, <1>7 DEF Saves, Owned, Unfinished, TerminalInst, TypeOK
  <2>2. SyncDue'
    BY <2>1 DEF SyncDue
  <2>3. ActiveOwned'
    <3> SUFFICES ASSUME NEW j \in Instances, dbInst'[j] \in ActiveInst
                 PROVE  \E f \in Executors : Owned(f, j)'
      BY DEF ActiveOwned
    <3>1. CASE j = i
      BY <2>1, <3>1 DEF ActiveInst, TerminalInst
    <3>2. CASE j # i
      BY <1>0, <1>1, <1>2, <3>2 DEF SyncInv, ActiveOwned
    <3> QED BY <3>1, <3>2
  <2> QED BY <1>3, <2>2, <2>3 DEF SyncInv
<1> QED BY <1>0, <1>5, <1>6, <1>7, WorkerMoves

\* No step makes an instance pending again.
LEMMA PendingCall ==
  ASSUME RestInv, NEW c \in Calls, BeginCall(c) \/ Cancel(c) \/ Return(c)
  PROVE  PendingInv'
<1>0. TypeOK /\ WorkersBelong /\ StopTodo /\ ExecuteTodo /\ DoneNonePending
  BY DEF RestInv, IInv, StartInv, PendingInv
<1> USE DEF PendingInv, StopTodo, ExecuteTodo, DoneNonePending
<1>1. CASE BeginCall(c) \/ CancelList(c) \/ CancelPut(c)
  <2>1. /\ UNCHANGED <<dbInst, pc, instCopy, todo>>
        /\ phase[c] \in {"idle", "list", "put"} /\ phase'[c] \in {"read", "loop", "put"}
        /\ phase[c] = "idle" => phase'[c] = "read"
        /\ \A d \in Calls : d # c => phase'[d] = phase[d]
    BY <1>0, <1>1
    DEF BeginCall, CancelList, CancelPut, ListForSync, SaveSyncedRun, GoTo, db, work, copies, TypeOK
  <2> QED BY <1>0, <2>1
<1>2. CASE Return(c)
  <2>1. /\ UNCHANGED <<dbInst, pc, instCopy, todo>>
        /\ phase[c] = "loop" /\ phase'[c] = "done" /\ todo[c] = {}
        /\ \A d \in Calls : d # c => phase'[d] = phase[d]
    BY <1>0, <1>2 DEF Return, GoTo, db, work, copies, TypeOK
  <2>2. c \in Executors => \A i \in Instances : pc[c][i] = "none"
    BY <1>2 DEF Return, InFlight
  <2>3. \A i \in Instances : dbInst[i] # "pending"
    BY <1>0, <2>1, <2>2
  <2> QED BY <1>0, <2>1, <2>3
<1>3. ASSUME NEW i \in Instances, CancelNext(c, i) PROVE PendingInv'
  <2>1. /\ i \in todo[c] /\ pc' = pc /\ phase[c] = "loop" /\ phase'[c] = "list"
        /\ \A d \in Calls : d # c => phase'[d] = phase[d] /\ todo'[d] = todo[d]
        /\ \A j \in Instances : j # i /\ j \in todo[c] => j \in todo'[c]
        /\ dbInst'[i] = "cancelled" /\ \A j \in Instances : j # i => dbInst'[j] = dbInst[j]
        /\ \A d \in Calls, j \in Instances : d # c \/ j # i => instCopy'[d][j] = instCopy[d][j]
    BY <1>0, <1>3 DEF CancelNext, FirstOf, SaveInstance, GoTo, work, TypeOK
  <2>2. \A j \in Instances : dbInst'[j] = "pending" => dbInst[j] = "pending" /\ j # i
    BY <2>1
  <2>3. StopTodo' /\ DoneNonePending'
    BY <1>0, <2>1, <2>2
  <2>4. ExecuteTodo'
    BY <1>0, <2>1, <2>2
  <2> QED BY <2>3, <2>4
<1> QED BY <1>1, <1>2, <1>3 DEF Cancel

LEMMA PendingSchedule ==
  ASSUME RestInv
  PROVE  /\ \A e \in Executors : Execute(e) => PendingInv'
         /\ \A c \in Stoppers : Stop(c) => PendingInv'
<1>0. TypeOK /\ WorkersBelong /\ StopTodo /\ ExecuteTodo /\ DoneNonePending
  BY DEF RestInv, IInv, StartInv, PendingInv
<1> USE DEF PendingInv, StopTodo, ExecuteTodo, DoneNonePending
<1>1. ASSUME NEW e \in Executors, ReadForExecute(e) PROVE PendingInv'
  <2>1. /\ dbInst' = dbInst /\ pc' = pc /\ phase[e] = "read" /\ instCopy'[e] = dbInst
        /\ todo'[e] = Executable(dbInst)
        /\ phase'[e] = (IF Executable(dbInst) = {} THEN "done" ELSE "clear")
        /\ \A d \in Calls : d # e =>
             phase'[d] = phase[d] /\ instCopy'[d] = instCopy[d] /\ todo'[d] = todo[d]
    BY <1>0, <1>1 DEF ReadForExecute, ReadInstances, GoTo, db, work, TypeOK
  <2>2. \A i \in Instances : dbInst[i] = "pending" => i \in Executable(dbInst)
    BY DEF Executable
  <2>3. phase'[e] = "done" => \A i \in Instances : dbInst[i] # "pending"
    BY <2>1, <2>2
  <2>4. StopTodo' /\ DoneNonePending'
    BY <1>0, <2>1, <2>3, CallsAssumption
  <2>5. ExecuteTodo'
    BY <1>0, <2>1, <2>2
  <2> QED BY <2>4, <2>5
<1>2. ASSUME NEW e \in Executors, ClearStopRequest(e) PROVE PendingInv'
  <2>1. /\ UNCHANGED <<dbInst, pc, instCopy, todo>> /\ phase[e] = "clear" /\ phase'[e] = "loop"
        /\ \A d \in Calls : d # e => phase'[d] = phase[d]
    BY <1>0, <1>2 DEF ClearStopRequest, SetStopEvent, GoTo, db, work, copies, TypeOK
  <2> QED BY <1>0, <2>1, CallsAssumption
<1>3. ASSUME NEW e \in Executors, NEW i \in Instances, Submit(e, i) PROVE PendingInv'
  <2>1. /\ UNCHANGED <<dbInst, phase, instCopy>> /\ pc'[e][i] = "prepare"
        /\ \A f \in Executors, j \in Instances : f # e \/ j # i => pc'[f][j] = pc[f][j]
        /\ \A d \in Calls : d # e => todo'[d] = todo[d]
        /\ \A j \in todo[e] : j # i => j \in todo'[e]
    BY <1>0, <1>3 DEF Submit, FirstOf, db, copies, TypeOK
  <2> QED BY <1>0, <2>1, CallsAssumption
<1>4. ASSUME NEW e \in Executors, Raise(e) PROVE PendingInv'
  <2>1. /\ UNCHANGED <<dbInst, instCopy>> /\ phase'[e] = "raised"
        /\ \A d \in Calls : d # e => phase'[d] = phase[d] /\ todo'[d] = todo[d]
    BY <1>0, <1>4, RaiseFrame DEF db, copies, TypeOK
  <2>2. \A f \in Executors, j \in Instances : pc[f][j] = "prepare" => pc'[f][j] = "prepare"
    BY <1>0, <1>4, RaiseFrame
  <2> QED BY <1>0, <2>1, <2>2, CallsAssumption
<1>5. ASSUME NEW e \in Executors, NEW batch \in SUBSET InFlight(e), Reap(e, batch) PROVE PendingInv'
  <2>1. /\ UNCHANGED <<dbInst, instCopy>> /\ phase[e] = "loop" /\ phase'[e] \in {"loop", "raising"}
        /\ \A d \in Calls : d # e => phase'[d] = phase[d]
    BY <1>0, <1>5, ReapFrame DEF db, copies, TypeOK
  <2>2. \A f \in Executors, j \in Instances : pc[f][j] = "prepare" => pc'[f][j] = "prepare"
    BY <1>0, <1>5, ReapFrame
  <2>3. \A c \in Calls : \A i \in todo[c] : i \in todo'[c] \/ (c = e /\ instCopy[e][i] # "pending")
    BY <1>0, <1>5, ReapFrame
  <2>4. StopTodo' /\ DoneNonePending'
    BY <1>0, <2>1, <2>3, CallsAssumption
  <2>5. ExecuteTodo'
    BY <1>0, <2>1, <2>2, <2>3
  <2> QED BY <2>4, <2>5
<1>6. ASSUME NEW c \in Stoppers, Stop(c) PROVE PendingInv'
  <2>0. c \notin Executors
    BY CallsAssumption
  <2>1. CASE ReadForStop(c)
    <3>1. /\ dbInst' = dbInst /\ pc' = pc /\ phase[c] = "read" /\ phase'[c] = "event"
          /\ todo'[c] = {i \in Instances : dbInst[i] \notin TerminalInst}
          /\ \A d \in Calls : d # c =>
               phase'[d] = phase[d] /\ instCopy'[d] = instCopy[d] /\ todo'[d] = todo[d]
      BY <1>0, <2>1 DEF ReadForStop, ReadInstances, GoTo, db, work, TypeOK
    <3> QED BY <1>0, <2>0, <3>1 DEF TerminalInst
  <2>2. CASE RequestStop(c)
    <3>1. /\ UNCHANGED <<dbInst, pc, instCopy, todo>> /\ phase[c] = "event" /\ phase'[c] = "loop"
          /\ \A d \in Calls : d # c => phase'[d] = phase[d]
      BY <1>0, <2>2 DEF RequestStop, SetStopEvent, GoTo, db, work, copies, TypeOK
    <3> QED BY <1>0, <2>0, <3>1
  <2> QED BY <1>6, <2>1, <2>2 DEF Stop
<1> QED BY <1>1, <1>2, <1>3, <1>4, <1>5, <1>6 DEF Execute

LEMMA PendingWorker ==
  ASSUME RestInv, NEW e \in Executors, NEW i \in Instances, Worker(e, i) \/ ReportFails(e, i)
  PROVE  PendingInv'
<1>0. /\ TypeOK /\ WorkersBelong /\ StartIsPersisted /\ StopTodo /\ ExecuteTodo /\ DoneNonePending
  BY DEF RestInv, IInv, StartInv, PendingInv
<1>1. /\ phase' = phase /\ todo' = todo /\ pc[e][i] # "none"
      /\ \A f \in Executors, j \in Instances :
           f # e \/ j # i => pc'[f][j] = pc[f][j] /\ instCopy'[f][j] = instCopy[f][j]
      /\ \A j \in Instances : j # i => dbInst'[j] = dbInst[j]
  BY <1>0, WorkerFrame
<1>2. dbInst'[i] = "pending" => dbInst[i] = "pending" /\ pc[e][i] # "prepare"
  <2>1. CASE Silent(e, i) \/ Runs(e, i)
    BY <2>1 DEF Silent, Runs
  <2>2. ASSUME NEW s \in InstStatus, Saves(e, i, s) PROVE dbInst'[i] # "pending"
    <3>1. goal[e][i] # "pending"
      BY <1>0 DEF TypeOK, TerminalInst
    <3>2. pc[e][i] = "startSave" => instCopy[e][i] = "running"
      BY <1>0 DEF StartIsPersisted
    <3> QED BY <2>2, <3>1, <3>2 DEF Saves
  <2> QED BY <1>0, <2>1, <2>2, WorkerMoves
<1>3. \A j \in Instances : dbInst'[j] = "pending" => dbInst[j] = "pending"
  BY <1>1, <1>2
<1>4. StopTodo' /\ DoneNonePending'
  BY <1>0, <1>1, <1>3 DEF StopTodo, DoneNonePending
<1>5. i \notin todo[e]
  BY <1>0, <1>1 DEF WorkersBelong
<1>6. ExecuteTodo'
  BY <1>0, <1>1, <1>2, <1>3, <1>5 DEF ExecuteTodo
<1> QED BY <1>4, <1>6 DEF PendingInv

\* The invariant is inductive while no process dies.
LEMMA RestStep ==
  ASSUME ~AllowOverlap, ~AllowCrash, Together, RestInv, [Next]_vars
  PROVE  RestInv'
<1>1. IInv' /\ LockInv' /\ ListedInv'
  BY StartStep, LockStep, ListedStep DEF RestInv, IInv, StartInv
<1>2. CASE UNCHANGED vars \/ Terminated
  <2>1. UNCHANGED <<dbInst, dbRun, phase, pc, instCopy, todo>>
    BY <1>2 DEF vars, Terminated, schedule, work, db, copies
  <2>2. SyncInv'
    BY <2>1, SyncKept DEF RestInv
  <2>3. PendingInv'
    BY <2>1 DEF RestInv, PendingInv, StopTodo, ExecuteTodo, DoneNonePending
  <2> QED BY <1>1, <2>2, <2>3 DEF RestInv
<1>3. \A s \in Services : ~Crash(s)
  BY DEF Crash
<1>4. SyncInv' \/ UNCHANGED vars \/ Terminated
  BY <1>3, SyncCall, SyncSchedule, SyncWorker DEF Next
<1>5. PendingInv' \/ UNCHANGED vars \/ Terminated
  BY <1>3, PendingCall, PendingSchedule, PendingWorker DEF Next
<1> QED BY <1>1, <1>2, <1>4, <1>5 DEF RestInv

LEMMA RestInit == Init => RestInv
<1> SUFFICES ASSUME Init PROVE RestInv
  OBVIOUS
<1>1. IInv /\ LockInv
  BY InitType, InitStart, LockInit DEF IInv
<1>2. ListedInv
  BY DEF Init, ListedInv, ListedAt, Places
<1>3. DerivedRun(dbInst) = "queued"
  BY DEF Init, DerivedRun, ActiveInst
<1>4. SyncInv
  BY <1>3 DEF Init, SyncInv, CopyActive, SyncDue, ActiveOwned, ActiveInst
<1>5. PendingInv
  BY DEF Init, PendingInv, StopTodo, ExecuteTodo, DoneNonePending
<1> QED BY <1>1, <1>2, <1>4, <1>5 DEF RestInv

\* With every call on one service, no overlapping execute_run and no death of the process,
\* a run at rest has the status its instances amount to, and none of them is left active or
\* pending once a call has returned (cancel_instance, mark_instance_running and
\* sync_run_status under _lifecycle_lock): for any number of stop_run calls, in any
\* interleaving with the workers, retries, failed reports and refused transitions.
THEOREM RunAtRestIsTruthful ==
  ASSUME ~AllowOverlap, ~AllowCrash, \A c, d \in Calls : ServiceOf[c] = ServiceOf[d]
  PROVE  Spec => []QuiescentRunTruthful
<1>1. RestInv /\ [Next]_vars => RestInv'
  BY RestStep DEF Together
<1>2. RestInv => QuiescentRunTruthful
  <2> SUFFICES ASSUME RestInv, NoneInProgress PROVE
        /\ dbRun = DerivedRun(dbInst)
        /\ (\E c \in Calls : phase[c] = "done") => \A i \in Instances : dbInst[i] \in TerminalInst
    BY DEF QuiescentRunTruthful
  <2>1. TypeOK /\ WorkersBelong /\ SyncDue /\ ActiveOwned /\ DoneNonePending
    BY DEF RestInv, IInv, StartInv, SyncInv, PendingInv
  <2>2. \A e \in Executors, i \in Instances : pc[e][i] = "none"
    BY <2>1, WorkerInProgress DEF NoneInProgress
  <2>3. \A c \in Calls : phase[c] \notin {"list", "put"}
    BY DEF NoneInProgress, InProgress, Returned
  <2>4. \A e \in Executors, i \in Instances : ~Owned(e, i)
    BY <2>2 DEF Owned, Unfinished
  <2>5. dbRun = DerivedRun(dbInst)
    BY <2>1, <2>2, <2>3, <2>4 DEF SyncDue
  <2>6. ASSUME NEW c \in Calls, phase[c] = "done", NEW i \in Instances
        PROVE  dbInst[i] \in TerminalInst
    <3>1. dbInst[i] # "pending" /\ dbInst[i] \notin ActiveInst
      BY <2>1, <2>4, <2>6 DEF ActiveOwned, DoneNonePending
    <3>2. dbInst[i] \in InstStatus
      BY <2>1 DEF TypeOK
    <3> QED BY <3>1, <3>2 DEF InstStatus, ActiveInst, TerminalInst
  <2> QED BY <2>5, <2>6
<1> QED BY <1>1, <1>2, RestInit, PTL DEF Spec

-----------------------------------------------------------------------------
(* Without stop_run the records behave as RunLifecycle says.               *)

\* What an executor knows of an instance it is to start or is executing.
Mirror(e, i) ==
  /\ i \in todo[e] => dbInst[i] = instCopy[e][i] /\ dbInst[i] \in Executables
  /\ pc[e][i] = "prepare" => dbInst[i] \in Executables
  /\ pc[e][i] \in {"check1", "start", "startSave"} => dbInst[i] = "preparing"
  /\ pc[e][i] \in {"check2", "scenario", "check3", "collect"} => dbInst[i] = "running"
  /\ pc[e][i] \in {"check2", "scenario", "check3", "collect", "handler", "save", "list", "put",
                   "report"} => dbInst[i] = instCopy[e][i]
  /\ pc[e][i] \in {"check3", "collect"} => goal[e][i] \in {"success", "failed"}
  /\ pc[e][i] = "save" => InstanceMay(dbInst[i], goal[e][i])

MirrorInv == \A e \in Executors : Scheduling(e) => \A i \in Instances : Mirror(e, i)

NoStops == \A s \in Services : ~stopEvent[s]

AllTerminal == \A i \in Instances : dbInst[i] \in TerminalInst
SomeStarted == \E i \in Instances : dbInst[i] # "pending"

\* A final run status is the true one, a run object that says so too, and a running run
\* has an instance that is no longer pending.
RunInv ==
  /\ dbRun \in TerminalRun => dbRun = DerivedRun(dbInst)
  /\ dbRun = "running" => SomeStarted
  /\ \A e \in Executors : InProgress(e) /\ runCopy[e] \in TerminalRun => AllTerminal

LifeInv == IInv /\ LockInv /\ ListedInv /\ MirrorInv /\ NoStops /\ RunInv

LEMMA DerivedFacts ==
  ASSUME NEW inst \in [Instances -> InstStatus]
  PROVE  /\ DerivedRun(inst) \in TerminalRun => \A i \in Instances : inst[i] \in TerminalInst
         /\ (\E i \in Instances : inst[i] \in ActiveInst) => DerivedRun(inst) = "running"
         /\ DerivedRun(inst) = "running" => \E i \in Instances : inst[i] # "pending"
         /\ (\E i \in Instances : inst[i] # "pending") => DerivedRun(inst) # "queued"
BY DEF DerivedRun, TerminalRun, ActiveInst, TerminalInst

\* Saving what the instances amount to is always a transition of the run.
LEMMA SyncMay ==
  ASSUME TypeOK, RunInv
  PROVE  RunMay(dbRun, DerivedRun(dbInst))
<1>1. dbInst \in [Instances -> InstStatus] /\ dbRun \in RunStatus /\ DerivedRun(dbInst) \in RunStatus
  BY DerivedRunType DEF TypeOK
<1>2. CASE dbRun \in TerminalRun
  BY <1>2 DEF RunInv, RunMay
<1>3. CASE dbRun = "running"
  <2>1. DerivedRun(dbInst) # "queued"
    BY <1>1, <1>3, DerivedFacts DEF RunInv, SomeStarted
  <2> QED BY <1>1, <1>3, <2>1 DEF RunMay, RunTransitions, RunStatus, TerminalRun
<1>4. CASE dbRun = "queued"
  BY <1>1, <1>4 DEF RunMay, RunTransitions, RunStatus, TerminalRun
<1> QED BY <1>1, <1>2, <1>3, <1>4 DEF RunStatus, TerminalRun

\* A terminal status stays, and nothing becomes pending again.
LEMMA MayKeeps ==
  ASSUME NEW s \in InstStatus, NEW t \in InstStatus, InstanceMay(s, t)
  PROVE  (s \in TerminalInst => t = s) /\ (s # "pending" => t # "pending")
BY DEF InstanceMay, InstanceTransitions, InstStatus, TerminalInst

LEMMA GoalFrame ==
  ASSUME TypeOK, NEW e \in Executors, NEW i \in Instances, Worker(e, i) \/ ReportFails(e, i),
         NEW j \in Instances, j # i
  PROVE  goal'[e][j] = goal[e][j]
<1> USE DEF TypeOK, Plain
<1>1. CASE CheckBeforeStart(e, i) \/ CheckBeforeScenario(e, i) \/ CheckAfterScenario(e, i)
  BY <1>1 DEF CheckBeforeStart, CheckBeforeScenario, CheckAfterScenario, Check
<1>2. CASE ScenarioReturns(e, i) \/ Handle(e, i)
  BY <1>2 DEF ScenarioReturns, Handle
<1>3. CASE goal' = goal
  BY <1>3
<1> QED BY <1>1, <1>2, <1>3
  DEF Worker, Prepare, MarkRunning, MarkRunningSave, MarkRunningRefused, ScenarioRetries,
      ScenarioRaises, Collect, HandlerRaises, FinishSave, FinishList, FinishPut, WriteReports,
      ReportFails

\* What a step does to the records.
DbStep == UNCHANGED <<dbInst, dbRun>> \/ Lifecycle!Next

LEMMA SavedInstance ==
  ASSUME TypeOK, TypeOK', NEW i \in Instances, NEW s \in InstStatus, InstanceMay(dbInst[i], s),
         dbRun' = dbRun, dbInst'[i] = s, \A j \in Instances : j # i => dbInst'[j] = dbInst[j]
  PROVE  DbStep
<1>1. dbInst' = [dbInst EXCEPT ![i] = s]
  BY DEF TypeOK
<1> QED BY <1>1 DEF DbStep, Lifecycle!Next, Lifecycle!SaveInstance

LEMMA SavedRun ==
  ASSUME TypeOK, RunInv, dbInst' = dbInst, dbRun' = DerivedRun(dbInst)
  PROVE  DbStep
BY SyncMay DEF DbStep, Lifecycle!Next, Lifecycle!SaveRun

\* A step of a worker keeps the run's own view, and changes the records as RunLifecycle says.
LEMMA LifeWorker ==
  ASSUME LifeInv, TypeOK', NEW e \in Executors, NEW i \in Instances,
         Worker(e, i) \/ ReportFails(e, i)
  PROVE  Mirror(e, i)' /\ DbStep
<1>1. /\ TypeOK /\ StartIsPersisted /\ RunInv /\ ListedInv /\ i \in Places /\ i # 0
      /\ pc[e][i] # "none"
  BY WorkerFrame DEF LifeInv, IInv, StartInv, Places, Instances
<1>2. Scheduling(e) /\ InProgress(e) /\ i \notin todo[e] /\ Mirror(e, i)
  BY <1>1, OnlyExecutor, WorkerInProgress DEF LifeInv, MirrorInv, IInv, StartInv
<1>3. todo' = todo /\ \A j \in Instances : j # i => dbInst'[j] = dbInst[j]
  BY <1>1, WorkerFrame
<1>4. ~Stopping(e)
  BY CallsAssumption DEF LifeInv, NoStops, Stopping
<1>5. CASE Silent(e, i)
  <2>1. Mirror(e, i)'
    BY <1>2, <1>3, <1>4, <1>5 DEF Silent, Mirror
  <2> QED BY <1>5, <2>1 DEF Silent, DbStep
<1>6. CASE Runs(e, i)
  <2>1. CASE pc[e][i] = "start" /\ pc'[e][i] = "startSave" /\ dbRun' = "running"
    <3>1. dbInst[i] = "preparing" /\ dbInst' = dbInst
      BY <1>2, <1>6, <2>1 DEF Mirror, Runs
    <3>2. dbRun' = DerivedRun(dbInst)
      BY <1>1, <2>1, <3>1, DerivedFacts DEF ActiveInst, TypeOK
    <3>3. Mirror(e, i)'
      BY <1>2, <1>3, <2>1, <3>1 DEF Mirror
    <3> QED BY <1>1, <3>1, <3>2, <3>3, SavedRun
  <2>2. CASE pc[e][i] = "start" /\ ~RunMay(runCopy[e], "running")
    <3>1. runCopy[e] \in TerminalRun
      BY <1>1, <2>2 DEF RunMay, RunTransitions, RunStatus, TerminalRun, TypeOK
    <3>2. AllTerminal
      BY <1>1, <1>2, <3>1 DEF RunInv
    <3> QED BY <1>2, <2>2, <3>2 DEF AllTerminal, Mirror, TerminalInst
  <2>3. CASE pc[e][i] = "list" /\ pc'[e][i] = "put" /\ UNCHANGED <<dbInst, dbRun, instCopy>>
    BY <1>2, <1>3, <2>3 DEF Mirror, DbStep
  <2>4. CASE pc[e][i] = "put" /\ pc'[e][i] = "report" /\ dbRun' = runCopy[e] /\ UNCHANGED <<dbInst, instCopy>>
    <3>1. dbRun' = DerivedRun(dbInst)
      BY <1>1, <2>4 DEF ListedInv, ListedAt
    <3>2. Mirror(e, i)'
      BY <1>2, <1>3, <2>4 DEF Mirror
    <3> QED BY <1>1, <2>4, <3>1, <3>2, SavedRun
  <2> QED BY <1>6, <2>1, <2>2, <2>3, <2>4 DEF Runs
<1>7. ASSUME NEW s \in InstStatus, Saves(e, i, s) PROVE Mirror(e, i)' /\ DbStep
  <2>1. InstanceMay(dbInst[i], s)
    BY <1>1, <1>2, <1>7
    DEF Saves, Mirror, StartIsPersisted, InstanceMay, InstanceTransitions, InstStatus, Executables
  <2>2. Mirror(e, i)'
    BY <1>1, <1>2, <1>3, <1>7
    DEF Saves, Mirror, StartIsPersisted, InstanceMay, InstanceTransitions, InstStatus
  <2> QED BY <1>1, <1>3, <1>7, <2>1, <2>2, SavedInstance DEF Saves
<1> QED BY <1>1, <1>5, <1>6, <1>7, WorkerMoves

LEMMA MirrorWorker ==
  ASSUME LifeInv, TypeOK', NEW e \in Executors, NEW i \in Instances,
         Worker(e, i) \/ ReportFails(e, i)
  PROVE  MirrorInv' /\ DbStep
<1>1. TypeOK /\ pc[e][i] # "none"
  BY WorkerFrame DEF LifeInv, IInv
<1>2. Scheduling(e) /\ \A f \in Executors : f # e => ~Scheduling(f)
  BY <1>1, OnlyExecutor DEF LifeInv
<1>3. /\ phase' = phase /\ todo' = todo
      /\ \A j \in Instances : j # i =>
           /\ pc'[e][j] = pc[e][j] /\ instCopy'[e][j] = instCopy[e][j] /\ dbInst'[j] = dbInst[j]
           /\ goal'[e][j] = goal[e][j]
  BY <1>1, WorkerFrame, GoalFrame
<1>4. Mirror(e, i)' /\ DbStep
  BY LifeWorker
<1>5. \A j \in Instances : j # i => Mirror(e, j)'
  BY <1>2, <1>3 DEF LifeInv, MirrorInv, Mirror
<1>6. \A f \in Executors : f # e => ~Scheduling(f)'
  BY <1>2, <1>3 DEF Scheduling
<1> QED BY <1>4, <1>5, <1>6 DEF MirrorInv

\* Steps that leave the records and the view of whoever goes on scheduling.
LEMMA MirrorKept ==
  ASSUME MirrorInv, dbInst' = dbInst,
         \A e \in Executors : Scheduling(e)' =>
           /\ Scheduling(e) /\ instCopy'[e] = instCopy[e] /\ todo'[e] \subseteq todo[e]
           /\ \A i \in Instances :
                \/ pc'[e][i] = pc[e][i] /\ goal'[e][i] = goal[e][i]
                \/ pc'[e][i] = "none"
  PROVE  MirrorInv'
BY DEF MirrorInv, Mirror

LEMMA MirrorCall ==
  ASSUME LifeInv, TypeOK', NEW e \in Executors, BeginCall(e) \/ Cancel(e) \/ Return(e)
  PROVE  MirrorInv' /\ DbStep
<1>0. /\ TypeOK /\ MirrorInv /\ WorkersBelong /\ OneExecutor /\ RunInv /\ ListedInv
  BY DEF LifeInv, IInv, StartInv
<1>1. CASE BeginCall(e) \/ CancelList(e) \/ Return(e)
  <2>1. /\ UNCHANGED <<dbInst, dbRun, instCopy, todo, pc, goal>>
        /\ \A f \in Executors : Scheduling(f)' => Scheduling(f)
    BY <1>0, <1>1
    DEF BeginCall, CancelList, ListForSync, Return, GoTo, db, work, copies, TypeOK, Scheduling
  <2> QED BY <1>0, <2>1, MirrorKept DEF DbStep
<1>2. CASE CancelPut(e)
  <2>1. /\ UNCHANGED <<dbInst, instCopy, todo, pc, goal>> /\ dbRun' = runCopy[e] /\ phase[e] = "put"
        /\ \A f \in Executors : Scheduling(f)' => Scheduling(f)
    BY <1>0, <1>2 DEF CancelPut, SaveSyncedRun, GoTo, work, copies, TypeOK, Scheduling
  <2>2. dbRun' = DerivedRun(dbInst)
    BY <1>0, <2>1 DEF ListedInv, ListedAt, Places
  <2> QED BY <1>0, <2>1, <2>2, MirrorKept, SavedRun
<1>3. ASSUME NEW i \in Instances, CancelNext(e, i) PROVE MirrorInv' /\ DbStep
  <2>1. /\ dbRun' = dbRun /\ pc' = pc /\ goal' = goal /\ phase[e] = "loop" /\ phase'[e] = "list"
        /\ \A f \in Executors : f # e => phase'[f] = phase[f]
        /\ i \in todo[e] /\ i \notin todo'[e] /\ todo'[e] \subseteq todo[e]
        /\ dbInst'[i] = "cancelled" /\ \A j \in Instances : j # i => dbInst'[j] = dbInst[j]
        /\ \A j \in Instances : j # i => instCopy'[e][j] = instCopy[e][j]
    BY <1>0, <1>3 DEF CancelNext, FirstOf, SaveInstance, GoTo, work, TypeOK
  <2>2. Scheduling(e) /\ pc[e][i] = "none"
    BY <1>0, <2>1 DEF WorkersBelong, Scheduling
  <2>3. \A f \in Executors : f # e => ~Scheduling(f)'
    BY <1>0, <2>1, <2>2 DEF OneExecutor, Scheduling, InProgress, Returned
  <2>4. \A j \in Instances : Mirror(e, j)
    BY <1>0, <2>2 DEF MirrorInv
  <2>5. \A j \in Instances : Mirror(e, j)'
    BY <2>1, <2>2, <2>4 DEF Mirror
  <2>6. InstanceMay(dbInst[i], "cancelled") /\ "cancelled" \in InstStatus
    BY <2>1, <2>4 DEF Mirror, Executables, InstanceMay, InstanceTransitions, InstStatus
  <2>7. DbStep
    BY <1>0, <2>1, <2>6, SavedInstance
  <2> QED BY <2>3, <2>5, <2>7 DEF MirrorInv
<1> QED BY <1>1, <1>2, <1>3 DEF Cancel

LEMMA MirrorSchedule ==
  ASSUME LifeInv, NEW e \in Executors, Execute(e)
  PROVE  MirrorInv' /\ UNCHANGED <<dbInst, dbRun>>
<1>0. TypeOK /\ MirrorInv /\ WorkersBelong /\ OneExecutor
  BY DEF LifeInv, IInv, StartInv
<1>1. CASE ReadForExecute(e)
  <2>1. /\ dbInst' = dbInst /\ dbRun' = dbRun /\ pc' = pc /\ phase[e] = "read" /\ instCopy'[e] = dbInst
        /\ todo'[e] = Executable(dbInst) /\ \A f \in Executors : f # e => phase'[f] = phase[f]
    BY <1>0, <1>1 DEF ReadForExecute, ReadInstances, GoTo, db, work, TypeOK
  <2>2. \A f \in Executors : f # e => ~Scheduling(f)'
    BY <1>0, <2>1 DEF OneExecutor, Scheduling, InProgress, Returned
  <2>3. \A i \in Instances : pc[e][i] = "none"
    BY <1>0, <2>1 DEF WorkersBelong, Scheduling
  <2>4. \A i \in Instances : Mirror(e, i)'
    BY <2>1, <2>3 DEF Mirror, Executable, Executables
  <2> QED BY <2>1, <2>2, <2>4 DEF MirrorInv
<1>2. CASE ClearStopRequest(e)
  <2>1. /\ UNCHANGED <<dbInst, dbRun, instCopy, todo, pc, goal>>
        /\ \A f \in Executors : Scheduling(f)' => Scheduling(f)
    BY <1>0, <1>2 DEF ClearStopRequest, SetStopEvent, GoTo, db, work, copies, TypeOK, Scheduling
  <2> QED BY <1>0, <2>1, MirrorKept
<1>3. ASSUME NEW i \in Instances, Submit(e, i) PROVE MirrorInv' /\ UNCHANGED <<dbInst, dbRun>>
  <2>1. /\ UNCHANGED <<dbInst, dbRun, phase, instCopy, goal>> /\ pc'[e][i] = "prepare"
        /\ \A f \in Executors, j \in Instances : f # e \/ j # i => pc'[f][j] = pc[f][j]
        /\ i \in todo[e] /\ i \notin todo'[e] /\ todo'[e] \subseteq todo[e]
        /\ phase[e] = "loop"
    BY <1>0, <1>3 DEF Submit, FirstOf, db, copies, TypeOK
  <2>2. Scheduling(e) /\ \A f \in Executors : f # e => ~Scheduling(f)'
    BY <1>0, <2>1 DEF OneExecutor, Scheduling, InProgress, Returned
  <2>3. \A j \in Instances : Mirror(e, j)
    BY <1>0, <2>2 DEF MirrorInv
  <2>4. \A j \in Instances : Mirror(e, j)'
    BY <2>1, <2>3 DEF Mirror
  <2> QED BY <2>1, <2>2, <2>4 DEF MirrorInv
<1>4. ASSUME NEW batch \in SUBSET InFlight(e), Raise(e) \/ Reap(e, batch)
      PROVE  MirrorInv' /\ UNCHANGED <<dbInst, dbRun>>
  <2>0. UNCHANGED <<dbInst, dbRun, instCopy>>
    BY <1>4 DEF Raise, Reap, db, copies
  <2>1. \A f \in Executors : Scheduling(f)' => Scheduling(f)
    <3>1. /\ phase[e] \in {"loop", "raising"}
          /\ phase' \in {phase, [phase EXCEPT ![e] = "raising"], [phase EXCEPT ![e] = "raised"]}
      BY <1>4 DEF Raise, Reap, GoTo
    <3> QED BY <1>0, <3>1 DEF Scheduling, TypeOK
  <2>2. \A f \in Executors : todo'[f] \subseteq todo[f]
    <3>1. CASE Raise(e)
      <4>1. todo' = [todo EXCEPT ![e] = {}]
        BY <3>1 DEF Raise
      <4>2. todo'[e] = {} /\ \A f \in Executors : f # e => todo'[f] = todo[f]
        BY <1>0, <4>1 DEF TypeOK
      <4> QED BY <4>2
    <3>2. CASE Reap(e, batch)
      BY <1>0, <3>2, ReapFrame
    <3> QED BY <1>4, <3>1, <3>2
  <2>3. \A f \in Executors, i \in Instances :
          (pc'[f][i] = pc[f][i] /\ goal'[f][i] = goal[f][i]) \/ pc'[f][i] = "none"
    <3>1. PICK gone : EndWorkers(gone)
      BY <1>4 DEF Raise, Reap
    <3> QED BY <3>1 DEF EndWorkers, Reset
  <2> QED BY <1>0, <2>0, <2>1, <2>2, <2>3, MirrorKept
<1> QED BY <1>1, <1>2, <1>3, <1>4 DEF Execute

LEMMA MirrorCrash ==
  ASSUME LifeInv, NEW s \in Services, Crash(s)
  PROVE  MirrorInv' /\ UNCHANGED <<dbInst, dbRun>>
<1>1. UNCHANGED <<dbInst, dbRun, instCopy>>
  BY DEF Crash, db, copies
<1>2. \A e \in Executors : Scheduling(e)' => Scheduling(e) /\ todo'[e] \subseteq todo[e]
  BY DEF Crash, Scheduling
<1>3. \A e \in Executors, i \in Instances :
        (pc'[e][i] = pc[e][i] /\ goal'[e][i] = goal[e][i]) \/ pc'[e][i] = "none"
  BY DEF Crash, EndWorkers, Reset
<1> QED BY <1>1, <1>2, <1>3, MirrorKept DEF LifeInv

\* Every step changes the records as RunLifecycle says, or not at all.
LEMMA LifeDbStep ==
  ASSUME Stoppers = {}, LifeInv, TypeOK', [Next]_vars
  PROVE  MirrorInv' /\ DbStep
<1>1. CASE UNCHANGED vars \/ Terminated
  <2>1. UNCHANGED <<dbInst, dbRun, phase, pc, goal, instCopy, todo>>
    BY <1>1 DEF vars, Terminated, schedule, work, db, copies
  <2>2. \A e \in Executors : Scheduling(e)' = Scheduling(e)
    BY <2>1 DEF Scheduling
  <2> QED BY <2>1, <2>2, MirrorKept DEF LifeInv, DbStep
<1>2. \A c \in Calls : c \in Executors
  OBVIOUS
<1> QED BY <1>1, <1>2, MirrorCall, MirrorSchedule, MirrorWorker, MirrorCrash DEF Next, DbStep

\* A run object only takes a status read from the records, or "running".
LEMMA RunCopyStep ==
  ASSUME Stoppers = {}, LifeInv, [Next]_vars, NEW e \in Executors
  PROVE  \/ runCopy'[e] = runCopy[e] /\ (InProgress(e)' => InProgress(e))
         \/ runCopy'[e] \in {dbRun, DerivedRun(dbInst), "running"}
<1>0. TypeOK
  BY DEF LifeInv, IInv
<1>1. CASE UNCHANGED vars \/ Terminated
  BY <1>1 DEF vars, Terminated, schedule, copies, InProgress
<1>2. ASSUME NEW c \in Executors, BeginCall(c) \/ Cancel(c) \/ Return(c)
      PROVE  \/ runCopy'[e] = runCopy[e] /\ (InProgress(e)' => InProgress(e))
             \/ runCopy'[e] \in {dbRun, DerivedRun(dbInst), "running"}
  BY <1>0, <1>2
  DEF BeginCall, Cancel, CancelNext, CancelList, CancelPut, ListForSync, SaveSyncedRun, Return,
      GoTo, copies, TypeOK, InProgress, Returned
<1>3. ASSUME NEW f \in Executors, Execute(f)
      PROVE  runCopy'[e] = runCopy[e] /\ (InProgress(e)' => InProgress(e))
  <2>1. CASE ReadForExecute(f) \/ ClearStopRequest(f)
    BY <1>0, <2>1
    DEF ReadForExecute, ReadInstances, ClearStopRequest, SetStopEvent, GoTo, copies, TypeOK,
        InProgress, Returned
  <2>2. CASE \E i \in Instances : Submit(f, i)
    BY <2>2 DEF Submit, copies, InProgress
  <2>3. ASSUME NEW batch \in SUBSET InFlight(f), Raise(f) \/ Reap(f, batch)
        PROVE  runCopy'[e] = runCopy[e] /\ (InProgress(e)' => InProgress(e))
    <3>1. /\ phase[f] \in {"loop", "raising"} /\ runCopy' = runCopy
          /\ phase' \in {phase, [phase EXCEPT ![f] = "raising"], [phase EXCEPT ![f] = "raised"]}
      BY <2>3 DEF Raise, Reap, GoTo, copies
    <3> QED BY <1>0, <3>1 DEF TypeOK, InProgress, Returned
  <2> QED BY <1>3, <2>1, <2>2, <2>3 DEF Execute
<1>4. ASSUME NEW f \in Executors, NEW i \in Instances, Worker(f, i) \/ ReportFails(f, i)
      PROVE  \/ runCopy'[e] = runCopy[e] /\ (InProgress(e)' => InProgress(e))
             \/ runCopy'[e] \in {dbRun, DerivedRun(dbInst), "running"}
  <2>1. phase' = phase /\ (e # f => runCopy'[e] = runCopy[e])
    BY <1>0, <1>4, WorkerFrame
  <2>2. runCopy' = runCopy \/ runCopy'[f] \in {DerivedRun(dbInst), "running"}
    BY <1>0, <1>4, WorkerMoves DEF Silent, Runs, Saves
  <2> QED BY <2>1, <2>2 DEF InProgress
<1>5. ASSUME NEW s \in Services, Crash(s)
      PROVE  runCopy'[e] = runCopy[e] /\ (InProgress(e)' => InProgress(e))
  BY <1>5 DEF Crash, copies, InProgress, Returned
<1> QED BY <1>1, <1>2, <1>3, <1>4, <1>5 DEF Next

LEMMA RunInvStep ==
  ASSUME Stoppers = {}, LifeInv, TypeOK', [Next]_vars, DbStep
  PROVE  RunInv'
<1>0. TypeOK /\ RunInv /\ dbInst \in [Instances -> InstStatus] /\ dbInst' \in [Instances -> InstStatus]
  BY DEF LifeInv, IInv, TypeOK
<1>1. \/ dbInst' = dbInst /\ dbRun' \in {dbRun, DerivedRun(dbInst)}
      \/ /\ dbRun' = dbRun /\ (AllTerminal => dbInst' = dbInst) /\ (SomeStarted => SomeStarted')
  <2>1. CASE UNCHANGED <<dbInst, dbRun>> \/ Lifecycle!SaveRun
    BY <2>1 DEF Lifecycle!SaveRun
  <2>2. ASSUME NEW i \in Instances, Lifecycle!SaveInstance(i)
        PROVE  /\ dbRun' = dbRun /\ (AllTerminal => dbInst' = dbInst)
               /\ (SomeStarted => SomeStarted')
    <3>1. PICK s \in InstStatus : /\ InstanceMay(dbInst[i], s) /\ dbRun' = dbRun
                                  /\ dbInst' = [dbInst EXCEPT ![i] = s]
      BY <2>2 DEF Lifecycle!SaveInstance
    <3>2. (dbInst[i] \in TerminalInst => s = dbInst[i]) /\ (dbInst[i] # "pending" => s # "pending")
      BY <1>0, <3>1, MayKeeps
    <3> QED BY <1>0, <3>1, <3>2 DEF AllTerminal, SomeStarted
  <2> QED BY <2>1, <2>2 DEF DbStep, Lifecycle!Next
<1>2. AllTerminal => AllTerminal' /\ dbInst' = dbInst
  BY <1>1 DEF AllTerminal
<1>3. dbRun \in TerminalRun \/ DerivedRun(dbInst) \in TerminalRun => AllTerminal
  BY <1>0, DerivedFacts DEF RunInv, AllTerminal
<1>4. dbRun' \in TerminalRun => dbRun' = DerivedRun(dbInst')
  BY <1>0, <1>1, <1>2, <1>3 DEF RunInv
<1>5. dbRun' = "running" => SomeStarted'
  BY <1>0, <1>1, DerivedFacts DEF RunInv, SomeStarted
<1>6. ASSUME NEW e \in Executors, InProgress(e)', runCopy'[e] \in TerminalRun PROVE AllTerminal'
  BY <1>0, <1>2, <1>3, <1>6, RunCopyStep DEF RunInv, TerminalRun
<1> QED BY <1>4, <1>5, <1>6 DEF RunInv

LEMMA NoStopsStep ==
  ASSUME Stoppers = {}, LifeInv, [Next]_vars
  PROVE  NoStops'
<1>1. \/ stopEvent' = stopEvent
      \/ \E s \in Services : stopEvent' = [stopEvent EXCEPT ![s] = FALSE]
  <2>1. CASE UNCHANGED vars \/ Terminated
    BY <2>1 DEF vars, Terminated
  <2>2. ASSUME NEW c \in Executors, BeginCall(c) \/ Cancel(c) \/ Return(c)
        PROVE  stopEvent' = stopEvent
    BY <2>2 DEF BeginCall, Cancel, CancelNext, CancelList, CancelPut, ListForSync, SaveSyncedRun, Return
  <2>3. ASSUME NEW e \in Executors, Execute(e)
        PROVE  \/ stopEvent' = stopEvent
               \/ \E s \in Services : stopEvent' = [stopEvent EXCEPT ![s] = FALSE]
    BY <2>3, CallsAssumption
    DEF Execute, ReadForExecute, ReadInstances, ClearStopRequest, SetStopEvent, Submit, Raise, Reap
  <2>4. ASSUME NEW e \in Executors, NEW i \in Instances, Worker(e, i) \/ ReportFails(e, i)
        PROVE  stopEvent' = stopEvent
    BY <2>4, WorkerFrame DEF LifeInv, IInv
  <2>5. ASSUME NEW s \in Services, Crash(s) PROVE stopEvent' = [stopEvent EXCEPT ![s] = FALSE]
    BY <2>5 DEF Crash
  <2> QED BY <2>1, <2>2, <2>3, <2>4, <2>5 DEF Next
<1> QED BY <1>1 DEF LifeInv, NoStops, IInv, TypeOK

LEMMA LifeStep ==
  ASSUME ~AllowOverlap, Stoppers = {}, LifeInv, [Next]_vars
  PROVE  LifeInv' /\ DbStep
<1>1. IInv' /\ TypeOK' /\ LockInv'
  BY StartStep, LockStep DEF LifeInv, IInv, StartInv
<1>2. Together
  BY DEF Together, LifeInv, IInv, StartInv, OneExecutor
<1>3. ListedInv'
  BY <1>2, ListedStep DEF LifeInv
<1>4. MirrorInv' /\ DbStep
  BY <1>1, LifeDbStep
<1>5. RunInv' /\ NoStops'
  BY <1>1, <1>4, RunInvStep, NoStopsStep
<1> QED BY <1>1, <1>3, <1>4, <1>5 DEF LifeInv

LEMMA LifeInit == Init => LifeInv
<1> SUFFICES ASSUME Init PROVE LifeInv
  OBVIOUS
<1>1. IInv /\ LockInv /\ ListedInv
  BY RestInit DEF RestInv
<1>2. MirrorInv /\ NoStops
  BY DEF Init, MirrorInv, Scheduling, NoStops
<1>3. RunInv
  BY DEF Init, RunInv, InProgress, TerminalRun
<1> QED BY <1>1, <1>2, <1>3 DEF LifeInv

\* As long as execute_run calls do not overlap and nobody calls stop_run, the persisted
\* statuses behave as RunLifecycle says (ExecutionStateMachine, sync_from_instances),
\* through crashes at any step, restarts on other services, retries and failed reports.
THEOREM RunKeepsLifecycle ==
  ASSUME ~AllowOverlap, Stoppers = {}
  PROVE  Spec => ImplementsLifecycle
<1>1. Init => LifeInv /\ Lifecycle!Init
  BY LifeInit DEF Init, Lifecycle!Init
<1>2. LifeInv /\ [Next]_vars => LifeInv' /\ [Lifecycle!Next]_<<dbInst, dbRun>>
  BY LifeStep DEF DbStep
<1> QED BY <1>1, <1>2, PTL DEF Spec, ImplementsLifecycle, Lifecycle!Spec
=============================================================================
