-------------------------- MODULE UnattendedRounds --------------------------
(***************************************************************************)
(* UnattendedExecutionService over the device registry of DeviceService:   *)
(* one unattended task, the patrols and operators that run its rounds, the *)
(* choice of devices and their rotation, and the health of the devices:    *)
(* failure streaks, quarantine, throttled probes, synchronisation with what *)
(* adb reports.                                                            *)
(*                                                                         *)
(* The task and each device are one database row; an operation reads a     *)
(* copy of a row and saves the whole copy.  A read and a save with nothing *)
(* slow in between are one step; a run on devices and a question to adb    *)
(* are slow.  Moments are kept as the time that is left until them.        *)
(***************************************************************************)
EXTENDS Integers, FiniteSets, SequencesExt

CONSTANTS
  Devices, Flaky,   \* the registry, and the devices that may fail or drop off
  Patrols, Operators, Syncers, Admins,   \* the actors
  Settings,         \* the settings an operator may configure
  Threshold,        \* failure_threshold
  Interval,         \* interval_minutes, in ticks
  ProbeInterval,    \* probe_interval_minutes, in ticks
  Outcomes,         \* what an instance on a flaky device may come to
  Regimes           \* who acts, and does everybody wait until nobody else is at work?

Callers == Patrols \cup Operators
Actors == Callers \cup Syncers \cup Admins

AnySetting == [strategy : {"fixed", "round_robin"}, policy : {"every_round", "failure_only"},
               primary : Seq(Devices), backup : Seq(Devices), desired : Nat \ {0}]

ASSUME SettingAssumption ==
  /\ Settings \subseteq AnySetting
  /\ \A s \in Settings : s.primary # <<>> /\ IsInjective(s.primary)
ASSUME ActorAssumption ==
  /\ Patrols \cap Operators = {} /\ Callers \cap (Syncers \cup Admins) = {}
  /\ IsFiniteSet(Devices) /\ Flaky \subseteq Devices
  /\ Regimes \subseteq [who : SUBSET Actors, serial : BOOLEAN]
ASSUME RoundNumbers ==
  /\ Threshold \in Nat \ {0} /\ Interval \in Nat \ {0} /\ ProbeInterval \in Nat \ {0}
  /\ Outcomes \subseteq {"success", "failed", "cancelled"} /\ "success" \in Outcomes

VARIABLES
  regime,    \* the circumstances, the same throughout
  physical,  \* what adb would say of each device: online, offline (or unauthorized), gone
  device,    \* the rows of the registry
  task,      \* the row of the task
  pc,        \* where each actor is
  rows,      \* the copies of device rows an actor will save
  call,      \* the local state of a call
  unserved   \* history: rounds saved since a device was in the rotation's window

world == <<regime, physical>>
vars == <<world, device, task, pc, rows, call, unserved>>

Row == [online : BOOLEAN, state : {"idle", "error", "quarantined"},
        streak : 0..Threshold, probeIn : 0..ProbeInterval]
Task == [enabled : BOOLEAN, wait : 0..Interval, cursor : Nat, set : Settings]
NoCopy == [enabled |-> FALSE]

\* forced: is the round to run whether due or not?  due: was the task due when it was
\* listed?  probes: devices still to be probed.  copy: of the task's row.
\* assigned: the devices of the run.  results: what is still to be recorded about devices.
\* bad: has the round failed?  age: time since the round was triggered.
IdleCall == [forced |-> FALSE, due |-> FALSE, probes |-> {}, copy |-> NoCopy,
             assigned |-> {}, results |-> <<>>, bad |-> FALSE, age |-> 0]
Nothing == [d \in {} |-> 0]

Init ==
  /\ regime \in Regimes
  /\ physical = [d \in Devices |-> "online"]
  /\ device = [d \in Devices |->
                 [online |-> TRUE, state |-> "idle", streak |-> 0, probeIn |-> 0]]
  /\ task \in [enabled : {TRUE}, wait : {0}, cursor : {0}, set : Settings]
  /\ pc = [p \in Actors |-> "idle"]
  /\ rows = [p \in Actors |-> Nothing]
  /\ call = [p \in Callers |-> IdleCall]
  /\ unserved = [d \in Devices |-> 0]

Goto(p, to) == pc' = [pc EXCEPT ![p] = to]
\* Who may start something.
Free(p) ==
  /\ p \in regime.who /\ pc[p] = "idle"
  /\ regime.serial => \A q \in Actors : pc[q] = "idle"
Less(n) == IF n = 0 THEN 0 ELSE n - 1
Quarantined == {d \in Devices : device[d].state = "quarantined"}

-----------------------------------------------------------------------------
(* Choosing devices.                                                       *)

Schedulable(row) == row.online /\ row.state = "idle"
Fit(registry) == {d \in Devices : Schedulable(registry[d])}

\* _ordered_primary_device_ids.
Start(t) == IF t.set.strategy = "round_robin" THEN t.cursor % Len(t.set.primary) ELSE 0

Preferred(t) ==
  SubSeq(t.set.primary, Start(t) + 1, Len(t.set.primary)) \o SubSeq(t.set.primary, 1, Start(t))

\* The devices of an order up to where n of those wanted have been met, or all.
UpTo(order, n, wanted) ==
  LET met(k) == {d \in wanted : \E i \in 1..k : order[i] = d}
      last == CHOOSE k \in 0..Len(order) :
                /\ k = Len(order) \/ Cardinality(met(k)) = n
                /\ \A j \in 0..(k - 1) : Cardinality(met(j)) < n
  IN  {order[i] : i \in 1..last}

\* The primary devices are visited until there are enough.
Visited(t, registry) == UpTo(Preferred(t), t.set.desired, Fit(registry))
Unavailable(t, registry) == Visited(t, registry) \ Fit(registry)

\* The backup devices, then whatever else is idle.
Pool(t, registry) ==
  t.set.backup \o SetToSeq(Fit(registry) \ (Range(t.set.backup) \cup Range(t.set.primary)))

\* Devices that were taken are passed over in the pool.
Assigned(t, registry) ==
  LET taken == Visited(t, registry) \cap Fit(registry)
      spare == Fit(registry) \ taken
  IN  taken \cup (UpTo(Pool(t, registry), t.set.desired - Cardinality(taken), spare) \cap spare)

RotationStep(s) == IF s.desired < Len(s.primary) THEN s.desired ELSE Len(s.primary)

\* Mutant: the cursor passes over one device too many.
CursorTooFar(t, failed) ==
  IF t.set.strategy # "round_robin" THEN 0
  ELSE IF t.set.policy = "failure_only" /\ ~failed THEN t.cursor % Len(t.set.primary)
  ELSE (t.cursor + RotationStep(t.set) + 1) % Len(t.set.primary)

\* _advance_rotation_state.
NextCursor(t, failed) ==
  IF t.set.strategy # "round_robin" THEN 0
  ELSE IF t.set.policy = "failure_only" /\ ~failed THEN t.cursor % Len(t.set.primary)
  ELSE (t.cursor + RotationStep(t.set)) % Len(t.set.primary)

-----------------------------------------------------------------------------
(* The health of a device.                                                 *)

\* Mutant: a device that is not connected is given the name of its connection state.
AvailabilityByName(state, online) ==
  IF state = "quarantined" THEN state ELSE IF online THEN "idle" ELSE "offline"

\* derive_availability_state.  Nothing in the program reserves a device.
Availability(state, online) ==
  IF state = "quarantined" THEN state ELSE IF online THEN "idle" ELSE "error"

\* merge_descriptor and mark_missing_device_offline.
Merged(row, seen) ==
  [row EXCEPT !.online = (seen = "online"), !.state = Availability(@, seen = "online")]

\* record_device_failure.
Failed(row) ==
  [row EXCEPT !.streak = IF @ < Threshold THEN @ + 1 ELSE @,
              !.state = IF row.streak + 1 >= Threshold THEN "quarantined" ELSE @]

\* record_device_success.
Succeeded(row) ==
  [row EXCEPT !.streak = 0, !.state = Availability(@, row.online)]

\* clear_device_quarantine.
Cleared(row) ==
  [row EXCEPT !.streak = 0, !.state = IF row.online THEN "idle" ELSE "error"]

-----------------------------------------------------------------------------
(* run_due_tasks: the task and the quarantined devices are listed, the     *)
(* devices probed, then the round is run.                                  *)

Due(t) == t.enabled /\ t.wait = 0

Begin(p, scope, force) ==
  /\ Free(p)
  /\ call' = [call EXCEPT ![p] = [IdleCall EXCEPT !.forced = force, !.due = Due(task),
                                                  !.probes = Quarantined \cap scope]]
  /\ Goto(p, "probe")
  /\ UNCHANGED <<world, device, task, rows, unserved>>

\* The runner's patrol looks at every device, a call for one task at that task's own.
Patrol(p) == p \in Patrols /\ Begin(p, Devices, FALSE)
RunDueTask(p) ==
  p \in Operators /\ \E force \in BOOLEAN :
    Begin(p, Range(task.set.primary) \cup Range(task.set.backup), force)

\* run_task_round on an operator's demand.
RunRoundNow(p) ==
  /\ p \in Operators /\ Free(p)
  /\ call' = [call EXCEPT ![p].forced = TRUE]
  /\ Goto(p, "load")
  /\ UNCHANGED <<world, device, task, rows, unserved>>

\* _probe_quarantined_device, up to the question to adb.
MayProbe(d) == device[d].state = "quarantined" /\ device[d].probeIn = 0

ProbeSkip(p) ==
  /\ pc[p] = "probe"
  /\ \E d \in call[p].probes :
       /\ ~MayProbe(d)
       /\ call' = [call EXCEPT ![p].probes = @ \ {d}]
  /\ UNCHANGED <<world, device, task, pc, rows, unserved>>

ProbeAsk(p) ==
  /\ pc[p] = "probe"
  /\ \E d \in call[p].probes :
       /\ MayProbe(d)
       /\ rows' = [rows EXCEPT ![p] = [e \in {d} |-> [device[d] EXCEPT !.probeIn = ProbeInterval]]]
       /\ call' = [call EXCEPT ![p].probes = @ \ {d}]
  /\ Goto(p, "asked")
  /\ UNCHANGED <<world, device, task, unserved>>

\* Mutant: whoever answers adb is released.
AfterProbeTrusting(row, seen) ==
  [Cleared(Merged(row, seen)) EXCEPT !.probeIn = ProbeInterval]

\* Mutant: the probe records what it saw and releases nobody.
AfterProbeNever(row, seen) ==
  [Merged(row, seen) EXCEPT !.probeIn = ProbeInterval]

\* What the probe leaves of a row it has read again.
AfterProbe(row, seen) ==
  LET merged == [Merged(row, seen) EXCEPT !.probeIn = ProbeInterval]
  IN  IF merged.online THEN Cleared(merged) ELSE merged

\* The rest of it.  For a device adb does not list, the row of before is saved.
ProbeAnswer(p) ==
  /\ pc[p] = "asked"
  /\ \E d \in DOMAIN rows[p] :
       device' = [device EXCEPT ![d] =
                    IF physical[d] = "gone" THEN rows[p][d] ELSE AfterProbe(@, physical[d])]
  /\ rows' = [rows EXCEPT ![p] = Nothing]
  /\ Goto(p, "probe")
  /\ UNCHANGED <<world, task, call, unserved>>

Return(p) ==
  /\ Goto(p, "idle")
  /\ call' = [call EXCEPT ![p] = IdleCall]

\* The record of before the probes decides whether the round is tried at all.
ProbesDone(p) ==
  /\ pc[p] = "probe" /\ call[p].probes = {}
  /\ IF call[p].forced \/ call[p].due THEN Goto(p, "load") /\ UNCHANGED call ELSE Return(p)
  /\ UNCHANGED <<world, device, task, rows, unserved>>

-----------------------------------------------------------------------------
(* run_task_round.                                                         *)

\* Mutant: that the task is due is not enough.
LoadOnlyForced(p) ==
  /\ pc[p] = "load"
  /\ IF task.enabled /\ call[p].forced
     THEN call' = [call EXCEPT ![p].copy = task] /\ Goto(p, "select")
     ELSE Return(p)
  /\ UNCHANGED <<world, device, task, rows, unserved>>

Load(p) ==
  /\ pc[p] = "load"
  /\ IF task.enabled /\ (call[p].forced \/ task.wait = 0)
     THEN call' = [call EXCEPT ![p].copy = task] /\ Goto(p, "select")
     ELSE Return(p)
  /\ UNCHANGED <<world, device, task, rows, unserved>>

Reports(devices, what) ==
  [i \in 1..Cardinality(devices) |-> <<SetToSeq(devices)[i], what[SetToSeq(devices)[i]]>>]

\* _select_devices; without a device the round is skipped, but recorded.
Select(p) ==
  /\ pc[p] = "select"
  /\ LET absent == Reports(Unavailable(call[p].copy, device), [d \in Devices |-> "failed"])
     IN  IF Assigned(call[p].copy, device) = {}
         THEN call' = [call EXCEPT ![p].results = absent, ![p].bad = TRUE] /\ Goto(p, "record")
         ELSE /\ call' = [call EXCEPT ![p].results = absent,
                                      ![p].assigned = Assigned(call[p].copy, device)]
              /\ Goto(p, "execute")
  /\ UNCHANGED <<world, device, task, rows, unserved>>

\* execute_run: what became of each instance.
Execute(p) ==
  /\ pc[p] = "execute"
  /\ \E what \in [call[p].assigned -> Outcomes] :
       /\ \A d \in call[p].assigned \ Flaky : what[d] = "success"
       /\ call' = [call EXCEPT ![p].results = @ \o Reports(call[p].assigned, what),
                               ![p].bad = \E d \in call[p].assigned : what[d] = "failed",
                               ![p].assigned = {}]
  /\ Goto(p, "record")
  /\ UNCHANGED <<world, device, task, rows, unserved>>

\* execute_run raises, and so does the call: nothing is recorded, the task stays due.
ExecuteRaises(p) ==
  /\ pc[p] = "execute"
  /\ Return(p)
  /\ UNCHANGED <<world, device, task, rows, unserved>>

\* _update_device_health, one device after the other.
Record(p) ==
  /\ pc[p] = "record" /\ call[p].results # <<>>
  /\ LET report == Head(call[p].results)
     IN  device' = [device EXCEPT ![report[1]] =
                      IF report[2] = "success" THEN Succeeded(@) ELSE Failed(@)]
  /\ call' = [call EXCEPT ![p].results = Tail(@)]
  /\ UNCHANGED <<world, task, pc, rows, unserved>>

\* The window a round was planned for.
Window(t) == {Preferred(t)[i] : i \in 1..RotationStep(t.set)}

\* _update_state_after_round saves the copy of the whole row that Load made.
SaveState(p) ==
  /\ pc[p] = "record" /\ call[p].results = <<>>
  /\ LET t == call[p].copy
     IN  /\ task' = [t EXCEPT !.wait = Interval - call[p].age,
                              !.cursor = NextCursor(t, call[p].bad)]
         /\ unserved' = [d \in Devices |->
              IF d \in Window(t) \/ ~regime.serial THEN 0
              ELSE IF unserved[d] < Cardinality(Devices) THEN unserved[d] + 1 ELSE unserved[d]]
  /\ Return(p)
  /\ UNCHANGED <<world, device, rows>>

-----------------------------------------------------------------------------
(* Configuration and synchronisation.                                      *)

\* configure_task keeps the state of the rotation.
Configure(a) ==
  /\ Free(a)
  /\ \E s \in Settings, on \in BOOLEAN, startNow \in BOOLEAN :
       task' = [enabled |-> on, wait |-> IF startNow THEN 0 ELSE Interval, set |-> s,
                cursor |-> IF s.strategy = "round_robin" THEN task.cursor % Len(s.primary) ELSE 0]
  /\ unserved' = [d \in Devices |-> 0]
  /\ UNCHANGED <<world, device, pc, rows, call>>

\* sync_devices reads the registry, asks adb, and saves its copies.
SyncRead(s) ==
  /\ Free(s)
  /\ rows' = [rows EXCEPT ![s] = device]
  /\ Goto(s, "asked")
  /\ UNCHANGED <<world, device, task, call, unserved>>

\* Rows of listed devices are to be saved in any case, of others when they change.
SyncAsk(s) ==
  /\ pc[s] = "asked"
  /\ LET copy == rows[s]
         ToSave == {d \in DOMAIN copy :
                      physical[d] # "gone" \/ Merged(copy[d], physical[d]) # copy[d]}
     IN  rows' = [rows EXCEPT ![s] = [d \in ToSave |-> Merged(copy[d], physical[d])]]
  /\ Goto(s, "saving")
  /\ UNCHANGED <<world, device, task, call, unserved>>

\* One row after the other, in the order they were listed in.
SyncSave(s) ==
  /\ pc[s] = "saving" /\ rows[s] # Nothing
  /\ LET d == CHOOSE d \in DOMAIN rows[s] : TRUE
     IN  /\ device' = [device EXCEPT ![d] = rows[s][d]]
         /\ rows' = [rows EXCEPT ![s] = [e \in DOMAIN rows[s] \ {d} |-> rows[s][e]]]
  /\ UNCHANGED <<world, task, pc, call, unserved>>

SyncDone(s) ==
  /\ pc[s] = "saving" /\ rows[s] = Nothing
  /\ Goto(s, "idle")
  /\ UNCHANGED <<world, device, task, rows, call, unserved>>

-----------------------------------------------------------------------------
(* The world.                                                              *)

Change ==
  /\ \E d \in Flaky, seen \in {"online", "offline", "gone"} :
       physical' = [physical EXCEPT ![d] = seen]
  /\ UNCHANGED <<regime, device, task, pc, rows, call, unserved>>

Sooner(row) == [row EXCEPT !.probeIn = Less(@)]

Tick ==
  /\ task' = [task EXCEPT !.wait = Less(@)]
  /\ device' = [d \in Devices |-> Sooner(device[d])]
  /\ rows' = [p \in Actors |-> [d \in DOMAIN rows[p] |-> Sooner(rows[p][d])]]
  /\ call' = [p \in Callers |->
       IF call[p].copy = NoCopy \/ call[p].age = Interval THEN call[p]
       ELSE [call[p] EXCEPT !.age = @ + 1]]
  /\ UNCHANGED <<world, pc, unserved>>

RoundStep(p) ==
  \/ Load(p) \/ Select(p) \/ Execute(p) \/ ExecuteRaises(p) \/ Record(p) \/ SaveState(p)
CallStep(p) ==
  \/ ProbeSkip(p) \/ ProbeAsk(p) \/ ProbeAnswer(p) \/ ProbesDone(p) \/ RoundStep(p)

Next ==
  \/ \E p \in Callers : Patrol(p) \/ RunDueTask(p) \/ RunRoundNow(p) \/ CallStep(p)
  \/ \E s \in Syncers : SyncRead(s) \/ SyncAsk(s) \/ SyncSave(s) \/ SyncDone(s)
  \/ \E a \in Admins : Configure(a)
  \/ Change \/ Tick

Spec == Init /\ [][Next]_vars

\* The runner patrols again and again, its calls go on, time passes, and operators are
\* done with configuring some day: each configuration starts the interval anew.
Fairness ==
  /\ \A p \in Patrols : WF_vars(Patrol(p)) /\ WF_vars(CallStep(p))
  /\ WF_vars(Tick)
  /\ <>[][\A a \in Admins : ~Configure(a)]_vars
FairSpec == Spec /\ Fairness

-----------------------------------------------------------------------------
(* Properties.                                                             *)

Pcs == {"idle", "probe", "asked", "saving", "load", "select", "execute", "record"}

Call == [forced : BOOLEAN, due : BOOLEAN, probes : SUBSET Devices,
         copy : Task \cup {NoCopy}, bad : BOOLEAN, age : 0..Interval,
         assigned : SUBSET Devices,
         results : Seq(Devices \X {"success", "failed", "cancelled"})]

TypeOK ==
  /\ regime \in Regimes
  /\ physical \in [Devices -> {"online", "offline", "gone"}]
  /\ device \in [Devices -> Row]
  /\ task \in Task
  /\ pc \in [Actors -> Pcs]
  /\ \A p \in Actors : \E S \in SUBSET Devices : rows[p] \in [S -> Row]
  /\ call \in [Callers -> Call]
  /\ unserved \in [Devices -> 0..Cardinality(Devices)]

\* A round gets as many devices as it wants or as there are, and each is fit, and goes
\* outside the task's primary devices only when every fit one of them is taken.
SelectionServesDemand ==
  LET chosen == Assigned(task, device)
      primary == Range(task.set.primary)
      fit == Fit(device)
  IN  /\ chosen \subseteq fit
      /\ Cardinality(chosen) = IF Cardinality(fit) < task.set.desired THEN Cardinality(fit)
                                ELSE task.set.desired
      /\ chosen \subseteq primary \/ fit \cap primary \subseteq chosen

\* "Failure thresholds, quarantine": a device is quarantined exactly if its last
\* Threshold reports, of whatever rounds, all were failures.
QuarantineMatchesStreak ==
  regime.serial => \A d \in Devices : device[d].state = "quarantined" <=> device[d].streak = Threshold

\* Round robin: no primary device waits longer than it takes to go round once.
RotationReachesEveryone ==
  LET n == Len(task.set.primary)
      step == RotationStep(task.set)
  IN  regime.serial /\ task.set.strategy = "round_robin" /\ task.set.policy = "every_round" =>
        \A d \in Range(task.set.primary) : unserved[d] * step < n

\* A device leaves the quarantine only when adb has just listed it as online.
ReleasedOnEvidence ==
  [][regime.serial => \A d \in Devices :
       device[d].state = "quarantined" /\ device'[d].state # "quarantined" =>
         physical[d] = "online"]_vars

\* "Recovery probes": a device that stays online does not stay in quarantine, however
\* patrols, forced rounds, page views that synchronise and clocks interleave.
QuarantineEnds ==
  \A d \in Devices :
    <>[](~regime.serial /\ physical[d] = "online") => []<>(device[d].state # "quarantined")

\* A task that stays enabled is run again and again, or stays without a fit device.
EnabledTaskRuns ==
  <>[](~regime.serial /\ task.enabled) =>
    []<>(\E p \in Callers : pc[p] \in {"execute", "record"})

\* A quarantine begins with the last failure of a full streak, not earlier, not later,
\* and ends only when the device was listed online (record_failure, probe).
QuarantineOnEvidence == []QuarantineMatchesStreak /\ ReleasedOnEvidence

\* Rounds get the devices they want, and none waits longer than once round
\* (select_devices, advance_rotation).
DevicesAreServed == SelectionServesDemand /\ RotationReachesEveryone
=============================================================================
