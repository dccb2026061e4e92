---------------------------- MODULE PatrolRunner ----------------------------
(***************************************************************************)
(* UnattendedPatrolRunnerService: the timed runner over unattended tasks,  *)
(* and the two files that are to keep it single: runner.lock, created with *)
(* O_EXCL, and runner_status.json, the heartbeat by which a new runner     *)
(* judges whether the lock it finds is stale.                              *)
(*                                                                         *)
(* Runners are processes.  One step is one file operation, or one cycle    *)
(* boundary.  Time is counted in ticks up to MaxTime; a patrol cycle takes *)
(* up to MaxPatrol ticks and a sleep exactly the runner's interval.        *)
(***************************************************************************)
EXTENDS Integers, FiniteSets

CONSTANTS
  Runners,         \* processes that call run()
  NoRunner,        \* nobody
  Intervals,       \* the interval_seconds arguments in use
  StaleFloor,      \* the 300 seconds below which no heartbeat is stale
  MaxPatrol,       \* longest time between two heartbeats around run_due_tasks
  MaxTime,         \* bound on the clock
  Regimes          \* the circumstances the runners may find themselves in

ASSUME RunnerAssumption == NoRunner \notin Runners
ASSUME TimeAssumption ==
  /\ Intervals \subseteq Nat \ {0}
  /\ StaleFloor \in Nat \ {0} /\ MaxPatrol \in Nat \ {0} /\ MaxTime \in Nat

\* crash: may a runner die without its finally block?
\* overlap: may a runner start while another one is starting?
\* stopping: may a runner start while another one is stopping?
\* torn: may a reader see the heartbeat file while it is being written?
\* until: how long the runners are watched.
AnyRegime ==
  [crash : BOOLEAN, overlap : BOOLEAN, stopping : BOOLEAN, torn : BOOLEAN, until : 0..MaxTime]
ASSUME RegimeAssumption == Regimes \subseteq AnyRegime

VARIABLES
  regime,     \* the circumstances, the same throughout
  now,        \* the clock
  lockOwner,  \* who created the runner.lock that exists, or NoRunner
  heartbeat,  \* content of runner_status.json
  pc,         \* where each runner is
  interval,   \* its interval_seconds
  startedAt,  \* its started_at
  beat,       \* when it last wrote its heartbeat (or created its lock)
  overdue,    \* history: a starter found a live runner silent beyond its stale limit
  robbed      \* history: a starter unlinked the lock of a live runner

vars == <<regime, now, lockOwner, heartbeat, pc, interval, startedAt, beat, overdue, robbed>>

Starting   == {"open", "judge", "unlink", "reopen", "hello"}
Patrolling == {"begin", "patrol", "report", "sleep"}
Stopping   == {"final", "release"}
Ended      == {"done", "refused", "lost", "dead"}
Held       == {"hello"} \cup Patrolling \cup Stopping  \* from its lock to its release
Pcs        == {"idle"} \cup Starting \cup Patrolling \cup Stopping \cup Ended

\* The heartbeat file: no readable JSON (missing or half written), or the last payload.
NoBeat == [status |-> "none", at |-> 0, by |-> NoRunner]
Beats == [status : {"running", "ended"}, at : 0..MaxTime, by : Runners]

TypeOK ==
  /\ regime \in Regimes
  /\ now \in 0..MaxTime
  /\ lockOwner \in Runners \cup {NoRunner}
  /\ heartbeat \in Beats \cup {NoBeat}
  /\ pc \in [Runners -> Pcs]
  /\ interval \in [Runners -> Intervals]
  /\ startedAt \in [Runners -> 0..MaxTime]
  /\ beat \in [Runners -> 0..MaxTime]
  /\ overdue \in BOOLEAN /\ robbed \in BOOLEAN

Init ==
  /\ regime \in Regimes
  /\ now = 0
  /\ lockOwner = NoRunner
  /\ heartbeat = NoBeat
  /\ pc = [r \in Runners |-> "idle"]
  /\ interval \in [Runners -> Intervals]
  /\ startedAt = [r \in Runners |-> 0]
  /\ beat = [r \in Runners |-> 0]
  /\ overdue = FALSE
  /\ robbed = FALSE

-----------------------------------------------------------------------------
(* Acquiring the lock.                                                     *)

StaleAfter(i) == IF 3 * i > StaleFloor THEN 3 * i ELSE StaleFloor

\* Mutant: a lock whose holder wrote `stopped' is believed like a running one.
IsStaleByAge(r) ==
  /\ heartbeat # NoBeat
  /\ startedAt[r] - heartbeat.at > StaleAfter(interval[r])

\* Mutant: a runner's age is taken from its start, not from its last heartbeat.
IsStaleByStart(r) ==
  \/ heartbeat.status # "running"
  \/ startedAt[r] - startedAt[heartbeat.by] > StaleAfter(interval[r])

\* _is_stale_lock, as runner r judges it: by its own interval and its own start time.
IsStaleLock(r) ==
  \/ heartbeat.status # "running"
  \/ startedAt[r] - heartbeat.at > StaleAfter(interval[r])

Step(r, from, to) == pc[r] = from /\ pc' = [pc EXCEPT ![r] = to]
Files == <<lockOwner, heartbeat>>
Own == <<regime, interval, startedAt>>
History == <<overdue, robbed>>
Mine == <<Own, History>>

\* run() reads the clock before it touches any file.
Start(r) ==
  /\ Step(r, "idle", "open")
  /\ regime.overlap \/ \A q \in Runners : pc[q] \notin Starting
  /\ regime.stopping \/ \A q \in Runners : pc[q] \notin Stopping
  /\ startedAt' = [startedAt EXCEPT ![r] = now]
  /\ UNCHANGED <<regime, now, Files, interval, beat, History>>

\* os.open with O_CREAT | O_EXCL.
Create(r, from) ==
  /\ Step(r, from, "hello")
  /\ lockOwner = NoRunner
  /\ lockOwner' = r
  /\ beat' = [beat EXCEPT ![r] = now]
  /\ UNCHANGED <<now, heartbeat, Mine>>

FailToCreate(r, from, to) ==
  /\ Step(r, from, to)
  /\ lockOwner # NoRunner
  /\ UNCHANGED <<now, Files, Mine, beat>>

Open(r) == Create(r, "open") \/ FailToCreate(r, "open", "judge")

TooSilent(q, r) == startedAt[r] - beat[q] > StaleAfter(interval[r])

Judge(r) ==
  /\ Step(r, "judge", IF IsStaleLock(r) THEN "unlink" ELSE "refused")
  /\ overdue' = (overdue \/ \E q \in Runners : pc[q] \in Held /\ TooSilent(q, r))
  /\ UNCHANGED <<now, Files, Own, beat, robbed>>

\* unlink of whatever lock is there now; a missing file is ignored.
Unlink(r) ==
  /\ Step(r, "unlink", "reopen")
  /\ lockOwner' = NoRunner
  /\ robbed' = (robbed \/ \E q \in Runners : pc[q] \in Held /\ lockOwner = q)
  /\ UNCHANGED <<now, heartbeat, Own, beat, overdue>>

\* The second O_EXCL open is not guarded: its FileExistsError ends the run.
Reopen(r) == Create(r, "reopen") \/ FailToCreate(r, "reopen", "lost")

\* show_status: what an operator is told of the lock; it goes by the interval the
\* heartbeat was written with.
LockState ==
  IF lockOwner = NoRunner THEN "released"
  ELSE IF \/ heartbeat = NoBeat
          \/ /\ heartbeat.status = "running"
             /\ now - heartbeat.at > StaleAfter(interval[heartbeat.by])
       THEN "stale" ELSE "active"

-----------------------------------------------------------------------------
(* Heartbeats.  write_text truncates the file and then writes the payload. *)

Truncate(r) ==
  /\ regime.torn
  /\ pc[r] \in {"hello", "begin", "report", "final"}
  /\ heartbeat # NoBeat
  /\ heartbeat' = NoBeat
  /\ UNCHANGED <<now, lockOwner, pc, Mine, beat>>

\* Mutant: the payload says when the next heartbeat is due.
WriteDueTime(r, status) ==
  /\ heartbeat' = [status |-> status, at |-> now + interval[r], by |-> r]
  /\ beat' = [beat EXCEPT ![r] = now]
  /\ UNCHANGED <<now, lockOwner, Mine>>

WriteHeartbeat(r, status) ==
  /\ heartbeat' = [status |-> status, at |-> now, by |-> r]
  /\ beat' = [beat EXCEPT ![r] = now]
  /\ UNCHANGED <<now, lockOwner, Mine>>

Hello(r)      == Step(r, "hello", "begin") /\ WriteHeartbeat(r, "running")
BeginCycle(r) == Step(r, "begin", "patrol") /\ WriteHeartbeat(r, "running")

\* Mutant: an exception of the patrol skips the finally block.
PatrolUncaught(r) ==
  /\ \/ Step(r, "patrol", "report")
     \/ Step(r, "patrol", "done")
  /\ UNCHANGED <<now, Files, Mine, beat>>

\* run_due_tasks and the two reports, or an exception out of them.
Patrol(r) ==
  /\ \/ Step(r, "patrol", "report")
     \/ Step(r, "patrol", "final")
  /\ UNCHANGED <<now, Files, Mine, beat>>

\* After the cycle: another one after the sleep, or max_iterations is reached.
EndCycle(r) ==
  /\ Step(r, "report", "sleep") \/ Step(r, "report", "final")
  /\ WriteHeartbeat(r, "running")

Wake(r) ==
  /\ Step(r, "sleep", "begin")
  /\ now - beat[r] >= interval[r]
  /\ UNCHANGED <<now, Files, Mine, beat>>

\* KeyboardInterrupt: in the try block the finally block follows, before and after it the
\* runner just ends, with the lock it may have created.
Interrupt(r) ==
  /\ \/ /\ pc[r] \in {"hello"} \cup Patrolling
        /\ pc' = [pc EXCEPT ![r] = "final"]
     \/ /\ pc[r] \in Starting \cup Stopping
        /\ pc' = [pc EXCEPT ![r] = "dead"]
  /\ UNCHANGED <<now, Files, Mine, beat>>

-----------------------------------------------------------------------------
(* The finally block, and its absence.                                     *)

FinalHeartbeat(r) ==
  /\ Step(r, "final", "release")
  /\ regime.stopping \/ \A q \in Runners \ {r} : pc[q] \notin Starting
  /\ WriteHeartbeat(r, "ended")

\* _release_lock unlinks the lock file, whoever created it.
Release(r) ==
  /\ Step(r, "release", "done")
  /\ lockOwner' = NoRunner
  /\ UNCHANGED <<now, heartbeat, Mine, beat>>

Crash(r) ==
  /\ regime.crash
  /\ pc[r] \notin {"idle"} \cup Ended
  /\ pc' = [pc EXCEPT ![r] = "dead"]
  /\ UNCHANGED <<now, Files, Mine, beat>>

\* How long after its last heartbeat a runner may still be where it is.
MaxGap(r) ==
  CASE pc[r] \in {"patrol", "report"}       -> MaxPatrol
    [] pc[r] \in {"sleep", "begin"}         -> interval[r]
    [] OTHER                                -> MaxTime

Tick ==
  /\ now < regime.until
  /\ \A r \in Runners : now - beat[r] < MaxGap(r)
  /\ now' = now + 1
  /\ UNCHANGED <<Files, pc, Mine, beat>>

RunnerStep(r) ==
  \/ Start(r) \/ Open(r) \/ Judge(r) \/ Unlink(r) \/ Reopen(r)
  \/ Truncate(r) \/ Hello(r) \/ BeginCycle(r) \/ Patrol(r) \/ EndCycle(r) \/ Wake(r)
  \/ Interrupt(r) \/ FinalHeartbeat(r) \/ Release(r) \/ Crash(r)

\* Everyone may be gone, or the clock has reached its bound.
Stopped == (now = regime.until \/ \A r \in Runners : pc[r] \in Ended) /\ UNCHANGED vars

Next == (\E r \in Runners : RunnerStep(r)) \/ Tick \/ Stopped

Spec == Init /\ [][Next]_vars

-----------------------------------------------------------------------------
(* Properties.                                                             *)

\* Runners start one after the other, none while another one stops, and nobody reads a
\* half-written heartbeat.
Orderly == ~regime.overlap /\ ~regime.stopping /\ ~regime.torn

\* "Single-runner lock", as far as it goes: between its first heartbeat and its finally
\* block the lock file is a runner's own, however starts, stops and deaths interleave,
\* unless a starter unlinks the lock of a live runner.  When starts come one after the
\* other none does before some runner is silent for longer than a starter's stale limit.
SingleRunner ==
  /\ ~robbed => \A r \in Runners : pc[r] \in Patrolling => lockOwner = r
  /\ Orderly /\ robbed => overdue

\* The status page is right about the lock of a patrolling runner, never released, and
\* stale exactly when the runner has been silent for three intervals of its own.
PatrollingShownTruly ==
  Orderly /\ ~overdue => \A r \in Runners : pc[r] \in Patrolling =>
    LockState = IF now - beat[r] > StaleAfter(interval[r]) THEN "stale" ELSE "active"

\* A runner is refused only if somebody else was heard of within the stale limit: the
\* lock of a crashed runner does not keep the patrol down for longer, whatever the order
\* of starts and stops.
RefusalNeedsFreshRunner ==
  \A r \in Runners : pc[r] = "refused" =>
    \E q \in Runners \ {r} : pc[q] # "idle" /\ ~TooSilent(q, r)

\* No lock file outlives the runners unless one of them died, whoever removed whose lock
\* and however they ended: completed, interrupted, failed, refused or beaten to the lock.
NoLockLeft ==
  (\A r \in Runners : pc[r] \in {"idle", "done", "refused", "lost"}) => lockOwner = NoRunner

\* What the heartbeat is taken to say of a runner is true (_is_stale_lock, show_status).
JudgedByHeartbeat == PatrollingShownTruly /\ RefusalNeedsFreshRunner

\* "Single-runner lock and heartbeat files" (README): no two runners patrol at a time.
OnePatrolAtATime ==
  \A q, r \in Runners : pc[q] \in Patrolling /\ pc[r] \in Patrolling => q = r
=============================================================================
