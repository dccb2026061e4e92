----------------------------- MODULE MonkeyScenario -----------------------------
(***************************************************************************)
(* One execution of a Monkey task on one device: MonkeyScenarioRunner runs *)
(* adb monkey, watches the foreground, and after a failure it knows        *)
(* recovers and runs it again, until the deadline.  Meanwhile the device   *)
(* may come and go, a monkey left on it runs on, and a stop of the run     *)
(* terminates the host command and clears the device.                      *)
(*                                                                         *)
(* Of the output of a command only what the runner looks for is modelled.  *)
(* A sequence of adb commands that clear or relaunch is one step: they all *)
(* reach the device or none does.                                          *)
(***************************************************************************)
EXTENDS Integers, FiniteSets

CONSTANT Circumstances   \* the configuration, and what may happen how often

VARIABLES
  circumstance,  \* the same throughout
  clock,         \* since the start; the deadline is circumstance.timeout
  online,        \* does adb reach the device?
  drops,         \* changes of that still to come
  monkeys,       \* attempts whose monkey runs on the device
  runner,        \* where it is, with its counters and the time its command began
  host,          \* the adb command: none, running, or terminated by a stop
  result,        \* of the last command
  stop,          \* how far stop_run is with it
  seen           \* history: of the attempt a stop terminated, and of the last clearing

vars == <<circumstance, clock, online, drops, monkeys, runner, host, result, stop, seen>>

-----------------------------------------------------------------------------
Kinds == {"inject", "drift", "transport"}
TimedOut == -1
\* MonkeyExecutionConfig, as _config_from_task makes it of anything: no budget
\* and no timeout is below 1.  noisy: what the runner looks for that a working
\* command, or the application under it, may print as well.
Config == [tcp : BOOLEAN, guard : BOOLEAN, noisy : SUBSET {"inject", "closed"}, stops : BOOLEAN,
           recover : SUBSET {"inject", "transport"}, limit : [Kinds -> Nat \ {0}], timeout : Nat \ {0}, grace : Nat, drops : Nat]
ConstantsOK == Circumstances \subseteq Config

Marks == {"inject", "drift", "closed"}
\* 245: the guard saw another application; 255: adb; 1: any other failure.
Result == [code : {TimedOut, 0, 1, 245, 255}, marks : SUBSET Marks]
\* max_attempts.
MaxAttempts == 1 + circumstance.limit.inject + circumstance.limit.drift + circumstance.limit.transport
Late == clock >= circumstance.timeout
\* looks_like_disconnect.
LooksLost(r) == "closed" \in r.marks

Init ==
  /\ circumstance \in Circumstances
  /\ clock = 0
  /\ online \in BOOLEAN
  /\ drops = circumstance.drops
  /\ monkeys \in SUBSET {0}   \* one of an earlier execution
  /\ runner = [at |-> "start", attempt |-> 0, count |-> [k \in Kinds |-> 0], reconnects |-> 0,
               since |-> 0, outcome |-> "none"]
  /\ host = "none"
  /\ result = [code |-> TimedOut, marks |-> {}]
  /\ stop = "none"
  /\ seen = [stopped |-> 0, marks |-> {}, lost |-> FALSE, reached |-> FALSE]

Go(at) == runner' = [runner EXCEPT !.at = at]
End(outcome) == runner' = [runner EXCEPT !.at = "done", !.outcome = outcome]
Settled == UNCHANGED <<circumstance, clock, online, drops, stop>>

-----------------------------------------------------------------------------
(* The device, the clock, and a stop.                                      *)

Tick ==
  /\ clock <= circumstance.timeout /\ runner.at # "done"
  /\ clock' = clock + 1
  /\ UNCHANGED <<circumstance, online, drops, monkeys, runner, host, result, stop, seen>>

ComeOrGo ==
  /\ drops > 0 /\ runner.at # "done"
  /\ online' = ~online /\ drops' = drops - 1
  /\ seen' = [seen EXCEPT !.lost = @ \/ online]
  /\ UNCHANGED <<circumstance, clock, monkeys, runner, host, result, stop>>

\* A monkey without its command runs to its end.
OrphanEnds ==
  /\ \E a \in monkeys : (a # runner.attempt \/ host = "none") /\ monkeys' = monkeys \ {a}
  /\ UNCHANGED <<circumstance, clock, online, drops, runner, host, result, stop, seen>>

\* stop_active_processes: of the commands that are registered, which the guard does.
StopHost ==
  /\ circumstance.stops /\ stop = "none"
  /\ stop' = "hosts"
  /\ IF host = "running" /\ circumstance.guard
     THEN /\ host' = "terminated" /\ seen' = [seen EXCEPT !.stopped = runner.attempt, !.lost = ~online]
          /\ monkeys' \in {monkeys, monkeys \ {runner.attempt}}
     ELSE UNCHANGED <<host, seen, monkeys>>
  /\ UNCHANGED <<circumstance, clock, online, drops, runner, result>>
\* _request_device_cleanup.
StopDevice ==
  /\ stop = "hosts"
  /\ stop' = "done"
  /\ monkeys' = IF online THEN {} ELSE monkeys
  /\ UNCHANGED <<circumstance, clock, online, drops, runner, host, result, seen>>

-----------------------------------------------------------------------------
(* Attempts.                                                               *)

\* execute: the device has to be there, if need be after an adb connect, which
\* may bring it back, and the application on it.
Start ==
  /\ runner.at = "start"
  /\ IF online THEN Go("loop") \/ End("failed") ELSE End("offline")
  /\ Settled /\ UNCHANGED <<monkeys, host, result, seen>>
Connect ==
  /\ runner.at \in {"start", "wait", "reconnect"} /\ circumstance.tcp /\ ~online /\ drops > 0
  /\ online' = TRUE /\ drops' = drops - 1
  /\ UNCHANGED <<circumstance, clock, monkeys, runner, host, result, stop, seen>>

\* The head of the loop.
Begin ==
  /\ runner.at = "loop"
  /\ IF Late THEN End("timeout")
     ELSE runner' = [runner EXCEPT !.at = "clear", !.attempt = @ + 1]
  /\ Settled /\ UNCHANGED <<monkeys, host, result, seen>>

\* _stop_device_monkey_processes.
Cleared == IF online THEN {} ELSE monkeys
Clear ==
  /\ runner.at = "clear"
  /\ Go("launch")
  /\ monkeys' = Cleared
  /\ seen' = [seen EXCEPT !.reached = online]
  /\ Settled /\ UNCHANGED <<host, result>>

\* Popen; on a device that is there the monkey runs.
Launch ==
  /\ runner.at = "launch"
  /\ runner' = [runner EXCEPT !.at = "running", !.since = clock]
  /\ host' = "running"
  /\ monkeys' = IF online THEN monkeys \cup {runner.attempt} ELSE monkeys
  /\ Settled /\ UNCHANGED <<result, seen>>

\* What the command comes to, with all that was printed, and the monkeys it
\* leaves on the device.
Ending(code, marks, left) ==
  /\ \E noise \in SUBSET circumstance.noisy :
       /\ result' = [code |-> code, marks |-> marks \cup noise]
       /\ seen' = IF seen.stopped = runner.attempt THEN [seen EXCEPT !.marks = marks \cup noise]
                  ELSE seen
  /\ monkeys' = left
  /\ Go("ended") /\ host' = "none"
  /\ Settled
Running == runner.at = "running" /\ host = "running"
OnDevice == runner.attempt \in monkeys
\* The monkey ends, or somebody has ended it.
Finish == Running /\ online /\ \E code \in {0, 1} :
            (code = 0 => OnDevice) /\ Ending(code, {}, monkeys \ {runner.attempt})
\* The connection is lost; the monkey is not.
Lose == Running /\ ~online /\ \E code \in {1, 255} : \E marks \in SUBSET {"closed"} :
          (code = 1 => marks # {}) /\ Ending(code, marks, monkeys)
\* The guard sees another application in front; a stop may terminate the
\* command, and clear the device, while it looks.
Drift == /\ runner.at = "running" /\ online /\ circumstance.guard
         /\ clock - runner.since >= circumstance.grace /\ ~Late
         /\ Ending(245, {"drift"}, {})
\* The guard clears the device then; without it the command alone is killed.
TimeOut == Running /\ Late /\ \E left \in (IF circumstance.guard THEN {Cleared} ELSE {monkeys, monkeys \ {runner.attempt}}) :
             Ending(TimedOut, {}, left)
\* The stop has terminated it.
Stopped == runner.at = "running" /\ host = "terminated" /\ Ending(1, {}, monkeys)

-----------------------------------------------------------------------------
(* What the runner makes of a result, in the order it asks.                *)

\* Mutant: the attempts are counted, the recoveries of a kind are not.
AgainUncounted(kind) ==
  /\ IF kind = "drift" THEN circumstance.guard ELSE kind \in circumstance.recover
  /\ runner.attempt < MaxAttempts
\* May there be another recovery of this kind?
Again(kind) ==
  /\ IF kind = "drift" THEN circumstance.guard ELSE kind \in circumstance.recover
  /\ runner.attempt < MaxAttempts /\ runner.count[kind] < circumstance.limit[kind]
AfterInject == Again("inject") /\ "inject" \in result.marks
AfterDrift == Again("drift") /\ "drift" \in result.marks
\* _should_recover_after_adb_transport_failure.
AfterTransport ==
  Again("transport") /\ result.code # 0 /\ (LooksLost(result) \/ (result.code = 255 /\ ~online))
\* Mutant: every failure of a device that is reached over the network.
AfterAnyFailure == runner.attempt < MaxAttempts /\ circumstance.tcp /\ result.code # 0
\* should_retry_after_disconnect.
AfterDisconnect ==
  /\ runner.attempt < MaxAttempts
  /\ circumstance.tcp /\ result.code # 0 /\ (LooksLost(result) \/ ~online)

Recovering(kind, at) ==
  runner' = [runner EXCEPT !.at = at, !.count[kind] = @ + 1]
Outcome == IF result.code = TimedOut THEN "timeout" ELSE IF result.code = 0 THEN "success" ELSE "failed"
Judge ==
  /\ runner.at = "ended"
  /\ IF result.code # 0 /\ Late THEN End("timeout")
     ELSE IF AfterInject THEN Recovering("inject", "recover")
     ELSE IF AfterDrift THEN Recovering("drift", "recover")
     ELSE IF AfterTransport THEN Recovering("transport", "wait")
     ELSE IF AfterDisconnect THEN Go("reconnect")
     ELSE End(Outcome)
  /\ Settled /\ UNCHANGED <<monkeys, host, result, seen>>

\* _recover_target_app.  It says it has, whatever became of its commands.
Recover ==
  /\ runner.at = "recover"
  /\ Go("loop")
  /\ monkeys' = Cleared
  /\ Settled /\ UNCHANGED <<host, result, seen>>
\* _wait_for_device_available, or an adb connect.
Wait ==
  /\ runner.at = "wait"
  /\ IF online THEN Go("recover") ELSE End("offline")
  /\ Settled /\ UNCHANGED <<monkeys, host, result, seen>>
\* attempt_reconnect.
Reconnect ==
  /\ runner.at = "reconnect"
  /\ IF online THEN runner' = [runner EXCEPT !.at = "loop", !.reconnects = @ + 1] ELSE End("offline")
  /\ Settled /\ UNCHANGED <<monkeys, host, result, seen>>

Next ==
  \/ Tick \/ ComeOrGo \/ OrphanEnds \/ StopHost \/ StopDevice
  \/ Start \/ Connect \/ Begin \/ Clear \/ Launch
  \/ Finish \/ Lose \/ Drift \/ TimeOut \/ Stopped
  \/ Judge \/ Recover \/ Wait \/ Reconnect

Spec == Init /\ [][Next]_vars

-----------------------------------------------------------------------------
Places == {"start", "loop", "clear", "launch", "running", "ended", "recover", "wait", "reconnect", "done"}

(* Types; the counters stay within their budgets.                          *)
TypeOK ==
  /\ ConstantsOK /\ circumstance \in Circumstances
  /\ clock \in 0 .. circumstance.timeout + 1
  /\ online \in BOOLEAN /\ drops \in 0 .. circumstance.drops
  /\ runner \in [at : Places, attempt : 0 .. MaxAttempts, count : [Kinds -> Nat], reconnects : Nat, since : Nat,
                  outcome : {"none", "success", "failed", "timeout", "offline"}]
  /\ \A k \in Kinds : runner.count[k] <= circumstance.limit[k]
  /\ monkeys \subseteq 0 .. runner.attempt
  /\ host \in {"none", "running", "terminated"} /\ result \in Result
  /\ stop \in {"none", "hosts", "done"}
  /\ seen \in [stopped : 0 .. MaxAttempts, marks : SUBSET Marks, lost : BOOLEAN, reached : BOOLEAN]

\* Two monkeys on one device test nothing: an attempt that began on a device
\* adb reached runs alone, whatever an earlier attempt, a lost connection or
\* an earlier execution has left there.
AloneAfterClearing ==
  runner.at = "running" /\ seen.reached => monkeys \subseteq {runner.attempt}

\* A failure the runner knows a recovery for ends the execution only when
\* that recovery's budget is spent, or reconnects have used the attempts up.
GivesUpOnlyWhenSpent ==
  runner.outcome = "failed" /\ runner.attempt > 0 =>
    \A k \in Kinds \ {"transport"} :
      k \in result.marks /\ (k = "drift" \/ k \in circumstance.recover) =>
        \/ runner.count[k] = circumstance.limit[k]
        \/ runner.attempt = MaxAttempts /\ runner.reconnects > 0

\* The loop does not ask whether the run was stopped: what keeps it from a
\* further attempt after stop_run has terminated one is that the terminated
\* command looks like no failure it recovers from.  It does so unless what was
\* printed holds a mark of such a failure - on a working connection too, for
\* looks_like_disconnect finds "closed" anywhere - or the device was away.
StopHolds ==
  seen.stopped # 0 /\ runner.attempt > seen.stopped => seen.marks # {} \/ seen.lost

\* An execution begins alone on its device, gives up on a recoverable failure only with
\* the budget spent, and stays stopped once stopped (MonkeyRunner.run).
MonkeySafe == AloneAfterClearing /\ GivesUpOnlyWhenSpent /\ StopHolds
=============================================================================
