---------------------------- MODULE RunLifecycle ----------------------------
(***************************************************************************)
(* What ExecutionStateMachine and TaskRun.sync_from_instances promise of   *)
(* the persisted statuses of one run, whoever executes it: an instance     *)
(* only makes the transitions of DEFAULT_INSTANCE_TRANSITIONS, and the run *)
(* is only ever given the status its instances amount to, by a transition  *)
(* of DEFAULT_RUN_TRANSITIONS.  RunExecution implements it under the       *)
(* conditions its runs state.                                              *)
(***************************************************************************)
EXTENDS Integers

CONSTANTS
  Instances,           \* execution instances of the run
  InstStatus,          \* their statuses
  RunStatus,           \* the statuses of the run
  InstMay(_, _),       \* may an instance go from one status to the other?
  RunMay(_, _),        \* may the run?
  Derived(_)           \* the run status a function of instance statuses amounts to

VARIABLES inst, run

Init == inst = [i \in Instances |-> "pending"] /\ run = "queued"

\* One instance record is saved.
SaveInstance(i) ==
  \E s \in InstStatus :
    /\ InstMay(inst[i], s)
    /\ inst' = [inst EXCEPT ![i] = s]
    /\ UNCHANGED run

\* The run record is saved with the status its persisted instances amount to.
SaveRun ==
  /\ run' = Derived(inst)
  /\ RunMay(run, run')
  /\ UNCHANGED inst

Next == SaveRun \/ \E i \in Instances : SaveInstance(i)

Spec == Init /\ [][Next]_<<inst, run>>
=============================================================================
