-------------------------- MODULE PatrolRunnerProofs --------------------------
(***************************************************************************)
(* Proofs about PatrolRunner, for any number of runners, any intervals and *)
(* any bounds of time: type correctness, that no lock file outlives the    *)
(* runners unless one of them died, that the lock is exclusive, and that   *)
(* what is said of it by the heartbeat is true.                            *)
(***************************************************************************)
EXTENDS PatrolRunner, TLAPS

-----------------------------------------------------------------------------
(* Types.                                                                  *)

\* A heartbeat that is written is a readable one.
LEMMA HeartbeatType ==
  ASSUME TypeOK, NEW r \in Runners, NEW status \in {"running", "ended"},
         WriteHeartbeat(r, status)
  PROVE  heartbeat' \in Beats /\ beat' \in [Runners -> 0..MaxTime]
BY DEF WriteHeartbeat, TypeOK, Beats

\* A runner's program counter moves to another one.
LEMMA StepType ==
  ASSUME TypeOK, NEW r \in Runners, NEW from, NEW to \in Pcs, Step(r, from, to)
  PROVE  pc' \in [Runners -> Pcs]
BY DEF Step, TypeOK

\* The program counters there are.
LEMMA PcsAre ==
  Pcs = {"idle", "open", "judge", "unlink", "reopen", "hello", "begin", "patrol", "report",
         "sleep", "final", "release", "done", "refused", "lost", "dead"}
BY DEF Pcs, Starting, Patrolling, Stopping, Ended

\* Acquiring the lock keeps the types.
LEMMA AcquireType ==
  ASSUME TypeOK, NEW r \in Runners, Start(r) \/ Open(r) \/ Judge(r) \/ Unlink(r) \/ Reopen(r)
  PROVE  TypeOK'
<1>1. pc' \in [Runners -> Pcs]
  BY PcsAre, StepType DEF Start, Open, Judge, Unlink, Reopen, Create, FailToCreate
<1>2. overdue' \in BOOLEAN /\ robbed' \in BOOLEAN
  BY DEF Start, Open, Judge, Unlink, Reopen, Create, FailToCreate, Mine, History, TypeOK
<1> QED BY <1>1, <1>2
     DEF Start, Open, Judge, Unlink, Reopen, Create, FailToCreate, Files, Mine, Own, History, TypeOK

\* A cycle, and an interrupt of it, keep the types.
LEMMA CycleType ==
  ASSUME TypeOK, NEW r \in Runners,
         \/ Truncate(r) \/ Hello(r) \/ BeginCycle(r) \/ Patrol(r) \/ EndCycle(r) \/ Wake(r)
         \/ Interrupt(r)
  PROVE  TypeOK'
<1>1. pc' \in [Runners -> Pcs]
  BY PcsAre, StepType DEF Truncate, Hello, BeginCycle, Patrol, EndCycle, Wake, Interrupt, TypeOK
<1>2. heartbeat' \in Beats \cup {NoBeat} /\ beat' \in [Runners -> 0..MaxTime]
  BY HeartbeatType
     DEF Truncate, Hello, BeginCycle, Patrol, EndCycle, Wake, Interrupt, Files, TypeOK
<1> QED BY <1>1, <1>2
     DEF Truncate, Hello, BeginCycle, Patrol, EndCycle, Wake, Interrupt, WriteHeartbeat,
         Files, Mine, Own, History, TypeOK

\* The finally block, and its absence, keep the types.
LEMMA EndType ==
  ASSUME TypeOK, NEW r \in Runners, FinalHeartbeat(r) \/ Release(r) \/ Crash(r)
  PROVE  TypeOK'
<1>1. pc' \in [Runners -> Pcs]
  BY PcsAre, StepType DEF FinalHeartbeat, Release, Crash, TypeOK
<1>2. heartbeat' \in Beats \cup {NoBeat} /\ beat' \in [Runners -> 0..MaxTime]
  BY HeartbeatType DEF FinalHeartbeat, Release, Crash, Files, TypeOK
<1> QED BY <1>1, <1>2
     DEF FinalHeartbeat, Release, Crash, WriteHeartbeat, Files, Mine, Own, History, TypeOK

\* The clock keeps the types.
LEMMA TickType ==
  ASSUME TypeOK, Tick
  PROVE  TypeOK'
<1>1. regime.until \in 0..MaxTime
  BY RegimeAssumption DEF TypeOK, AnyRegime
<1> QED BY <1>1, TimeAssumption DEF Tick, Files, Mine, Own, History, TypeOK

\* The first state has the types.
LEMMA InitType == Init => TypeOK
<1> SUFFICES ASSUME Init PROVE TypeOK
  OBVIOUS
<1>1. overdue \in BOOLEAN /\ robbed \in BOOLEAN
  BY Zenon DEF Init
<1> QED BY <1>1, PcsAre, TimeAssumption DEF Init, TypeOK

\* The types of the lock, the heartbeat and the runners are right (run, _acquire_lock,
\* _write_heartbeat, _release_lock).
THEOREM TypeCorrect == Spec => []TypeOK
<1>1. Init => TypeOK
  BY InitType
<1>2. TypeOK /\ [Next]_vars => TypeOK'
  <2> SUFFICES ASSUME TypeOK, [Next]_vars PROVE TypeOK'
    OBVIOUS
  <2>1. ASSUME NEW r \in Runners, RunnerStep(r) PROVE TypeOK'
    BY <2>1, AcquireType, CycleType, EndType DEF RunnerStep
  <2>2. CASE Tick
    BY <2>2, TickType
  <2>3. CASE Stopped \/ UNCHANGED vars
    BY <2>3 DEF Stopped, vars, TypeOK
  <2> QED BY <2>1, <2>2, <2>3 DEF Next
<1> QED BY <1>1, <1>2, PTL DEF Spec

-----------------------------------------------------------------------------
(* No lock is left.  The strengthening says where the creator of a lock is *)
(* found: its own removal may come from anybody, but it cannot be gone     *)
(* while its lock is there.                                                *)

Holding == {"hello", "dead"} \cup Patrolling \cup Stopping
CreatorThere == \A r \in Runners : lockOwner = r => pc[r] \in Holding
IInv == TypeOK /\ CreatorThere

\* The places of a runner that holds a lock.
LEMMA HoldingIs ==
  Holding = {"hello", "begin", "patrol", "report", "sleep", "final", "release", "dead"}
BY DEF Holding, Patrolling, Stopping

\* A step that creates no lock, and leaves its runner where the creator of a lock may be
\* or starts where it cannot be, keeps the invariant.
LEMMA MoveCreator ==
  ASSUME IInv, NEW r \in Runners, NEW from, NEW to, Step(r, from, to),
         lockOwner' \in {lockOwner, NoRunner}, from \in Holding => to \in Holding
  PROVE  CreatorThere'
BY RunnerAssumption DEF IInv, TypeOK, CreatorThere, Step

\* When every runner has ended through its finally block or was turned away, no lock is
\* left: two starters racing for a stale lock, an interrupt at any step, a foreign
\* release and the death of a runner whose lock was taken over included.
THEOREM LockReleased == Spec => []NoLockLeft
<1>1. Init => IInv
  BY InitType, RunnerAssumption DEF Init, IInv, CreatorThere
<1>2. IInv /\ [Next]_vars => CreatorThere'
  <2> SUFFICES ASSUME IInv, [Next]_vars PROVE CreatorThere'
    OBVIOUS
  <2>1. ASSUME NEW r \in Runners, RunnerStep(r) PROVE CreatorThere'
    <3> USE HoldingIs DEF Files
    <3>1. CASE Start(r) \/ Judge(r) \/ Unlink(r)
      BY <3>1, MoveCreator DEF Start, Judge, Unlink
    <3>2. ASSUME NEW from, Create(r, from) PROVE CreatorThere'
      BY <3>2 DEF Create, Step, IInv, TypeOK, CreatorThere
    <3>3. CASE Open(r)
      BY <3>2, <3>3, MoveCreator DEF Open, FailToCreate
    <3>4. CASE Reopen(r)
      BY <3>2, <3>4, MoveCreator DEF Reopen, FailToCreate
    <3>5. CASE Truncate(r)
      BY <3>5 DEF Truncate, IInv, CreatorThere
    <3>6. CASE Hello(r) \/ BeginCycle(r) \/ EndCycle(r) \/ FinalHeartbeat(r)
      BY <3>6, MoveCreator DEF Hello, BeginCycle, EndCycle, FinalHeartbeat, WriteHeartbeat
    <3>7. CASE Patrol(r) \/ Wake(r)
      BY <3>7, MoveCreator DEF Patrol, Wake
    <3>8. CASE Interrupt(r)
      BY <3>8 DEF Interrupt, IInv, TypeOK, CreatorThere
    <3>9. CASE Release(r)
      BY <3>9, RunnerAssumption DEF Release, CreatorThere
    <3>10. CASE Crash(r)
      BY <3>10 DEF Crash, IInv, TypeOK, CreatorThere
    <3> QED BY <2>1, <3>1, <3>3, <3>4, <3>5, <3>6, <3>7, <3>8, <3>9, <3>10 DEF RunnerStep
  <2>2. CASE Tick \/ Stopped \/ UNCHANGED vars
    BY <2>2 DEF Tick, Stopped, vars, Files, IInv, CreatorThere
  <2> QED BY <2>1, <2>2 DEF Next
<1>3. IInv => NoLockLeft
  BY HoldingIs DEF IInv, TypeOK, CreatorThere, NoLockLeft, Ended
<1>4. Spec => []TypeOK
  BY TypeCorrect
<1> QED BY <1>1, <1>2, <1>3, <1>4, PTL DEF Spec, IInv

-----------------------------------------------------------------------------
(* One runner at a time.  The strengthening follows the lock from its      *)
(* creation to its removal: who may remove it, and what the heartbeat says *)
(* of its holder whenever somebody is about to judge it.  Where starts are *)
(* not orderly, or a runner was overdue, nothing is known but that the     *)
(* first runner without its lock has been robbed of it.                    *)

\* The heartbeat is the latest one of q, who has not stopped.
HeardOf(q) == heartbeat = [status |-> "running", at |-> beat[q], by |-> q]

\* Starts come one after the other, and none while another runner removes its lock.
OneStarter == \A q, r \in Runners : pc[q] \in Starting /\ pc[r] \in Starting => q = r
NoStartAtRelease == \A q, r \in Runners : pc[q] = "release" => pc[r] \notin Starting

\* The lock is its holder's, and nobody about to remove it meets a holder.
HeldIsOwned == \A r \in Runners : pc[r] \in Held => lockOwner = r
RemoverMeetsNobody ==
  \A q, r \in Runners : pc[r] \in {"unlink", "reopen"} => pc[q] \notin Held

\* Whoever judges the lock of a runner reads that runner's heartbeat.
HolderHeardOf ==
  \A q \in Runners :
    /\ pc[q] \in Patrolling => HeardOf(q)
    /\ pc[q] = "final" => HeardOf(q) \/ \A r \in Runners : pc[r] \notin Starting

\* No heartbeat is later than the clock.
BeatsInTime == \A q \in Runners : beat[q] <= now

\* A heartbeat is of a runner that has started, and not its future one.
HeartbeatIsOld ==
  heartbeat # NoBeat =>
    /\ pc[heartbeat.by] \in Patrolling \cup Stopping \cup {"done", "dead"}
    /\ heartbeat.at <= beat[heartbeat.by]

Exclusive ==
  /\ OneStarter /\ NoStartAtRelease
  /\ HeldIsOwned /\ RemoverMeetsNobody
  /\ HolderHeardOf /\ ~robbed

LockInv ==
  /\ TypeOK /\ BeatsInTime /\ HeartbeatIsOld
  /\ RefusalNeedsFreshRunner
  /\ ~robbed => HeldIsOwned
  /\ Orderly /\ ~overdue => Exclusive

\* Stale limits are numbers.
LEMMA StaleAfterType == \A i \in Intervals : StaleAfter(i) \in Nat
BY TimeAssumption DEF StaleAfter

\* So is all that the runners compare.
LEMMA Numbers ==
  ASSUME TypeOK
  PROVE  /\ now \in Nat /\ MaxPatrol \in Nat
         /\ \A q \in Runners : /\ beat[q] \in Nat /\ startedAt[q] \in Nat /\ interval[q] \in Nat
                               /\ StaleAfter(interval[q]) \in Nat
<1>1. MaxTime \in Nat /\ MaxPatrol \in Nat /\ \A i \in Intervals : i \in Nat
  BY TimeAssumption
<1>2. now \in Nat /\ \A q \in Runners : beat[q] \in Nat /\ startedAt[q] \in Nat
  BY <1>1 DEF TypeOK
<1>3. \A q \in Runners : interval[q] \in Intervals
  BY DEF TypeOK
<1> QED BY <1>1, <1>2, <1>3, StaleAfterType

\* A start meets no runner that starts or stops.
LEMMA StartExclusive ==
  ASSUME LockInv, Orderly, ~overdue, NEW r \in Runners, Start(r)
  PROVE  Exclusive'
<1> USE DEF LockInv, Exclusive, TypeOK, Start, Step, Files
<1>1. OneStarter' /\ NoStartAtRelease'
  BY DEF Orderly, OneStarter, NoStartAtRelease, Starting, Stopping
<1>2. HeldIsOwned' /\ RemoverMeetsNobody'
  BY DEF HeldIsOwned, RemoverMeetsNobody, Held, Patrolling, Stopping
<1>3. HolderHeardOf'
  BY DEF Orderly, HolderHeardOf, HeardOf, Patrolling, Stopping
<1> QED BY <1>1, <1>2, <1>3 DEF History

\* The creator of a lock meets no holder.
LEMMA CreateExclusive ==
  ASSUME LockInv, Orderly, ~overdue, NEW r \in Runners, NEW from \in {"open", "reopen"}, Create(r, from)
  PROVE  Exclusive'
<1> USE DEF LockInv, Exclusive, TypeOK, Create, Step, Mine, Own, History
<1>1. \A q \in Runners : pc[q] \notin Held
  BY RunnerAssumption DEF HeldIsOwned
<1>2. \A q \in Runners : pc[q] \in Starting => q = r
  BY DEF OneStarter, Starting
<1>3. \A q \in Runners : q # r => pc'[q] \notin Starting \cup Held
  BY <1>1, <1>2
<1>4. pc'[r] = "hello" /\ lockOwner' = r
  OBVIOUS
<1> QED BY <1>3, <1>4
     DEF OneStarter, NoStartAtRelease, HeldIsOwned, RemoverMeetsNobody, HolderHeardOf,
         Held, Starting, Patrolling, Stopping

\* A runner that finds a lock moves on or gives up.
LEMMA FailExclusive ==
  ASSUME LockInv, Orderly, ~overdue, NEW r \in Runners,
         FailToCreate(r, "open", "judge") \/ FailToCreate(r, "reopen", "lost")
  PROVE  Exclusive'
BY DEF LockInv, Exclusive, TypeOK, FailToCreate, Step, Files, Mine, Own, History, OneStarter,
       NoStartAtRelease, HeldIsOwned, RemoverMeetsNobody, HolderHeardOf, HeardOf,
       Held, Starting, Patrolling, Stopping

\* No lock with a holder is judged stale.
LEMMA JudgeExclusive ==
  ASSUME LockInv, Orderly, ~overdue', NEW r \in Runners, Judge(r)
  PROVE  Exclusive'
<1> USE DEF LockInv, Exclusive, TypeOK, Judge, Step, Files, Own
<1>1. IsStaleLock(r) => \A q \in Runners : pc[q] \notin Held
  <2> SUFFICES ASSUME NEW q \in Runners, pc[q] \in Held PROVE ~IsStaleLock(r)
    OBVIOUS
  <2>1. pc[q] \in Patrolling \cup {"final"}
    BY DEF OneStarter, NoStartAtRelease, Held, Starting, Stopping
  <2>2. HeardOf(q)
    BY <2>1 DEF HolderHeardOf, Starting
  <2>3. ~(startedAt[r] - beat[q] > StaleAfter(interval[r]))
    BY DEF TooSilent
  <2>4. StaleAfter(interval[r]) \in Nat
    BY StaleAfterType
  <2> QED BY <2>2, <2>3, <2>4, TimeAssumption DEF HeardOf, IsStaleLock
<1>2. RemoverMeetsNobody'
  BY <1>1 DEF RemoverMeetsNobody, Held, Patrolling, Stopping
<1>3. OneStarter' /\ NoStartAtRelease' /\ HeldIsOwned'
  BY DEF OneStarter, NoStartAtRelease, HeldIsOwned, Held, Starting, Patrolling, Stopping
<1>4. HolderHeardOf'
  BY DEF HolderHeardOf, HeardOf, Starting, Patrolling
<1> QED BY <1>2, <1>3, <1>4

\* The lock that is unlinked has no holder.
LEMMA UnlinkExclusive ==
  ASSUME LockInv, Orderly, ~overdue, NEW r \in Runners, Unlink(r)
  PROVE  Exclusive'
BY DEF LockInv, Exclusive, TypeOK, Unlink, Step, Own, OneStarter,
       NoStartAtRelease, HeldIsOwned, RemoverMeetsNobody, HolderHeardOf, HeardOf,
       Held, Starting, Patrolling, Stopping

\* A holder's heartbeat replaces no other holder's.
LEMMA BeatExclusive ==
  ASSUME LockInv, Orderly, ~overdue, NEW r \in Runners, NEW from \in Held, NEW to \in Held,
         to # "hello", to = "release" => \A q \in Runners \ {r} : pc[q] \notin Starting,
         Step(r, from, to),
         IF to = "release" THEN WriteHeartbeat(r, "ended") ELSE WriteHeartbeat(r, "running")
  PROVE  Exclusive'
<1> USE DEF LockInv, Exclusive, TypeOK, Step, WriteHeartbeat, Mine, Own, History
<1>1. lockOwner' = r /\ \A q \in Runners : q # r => pc[q] \notin Held /\ pc'[q] = pc[q]
  BY DEF HeldIsOwned
<1>2. to \notin Starting
  BY DEF Held, Starting, Patrolling, Stopping
<1>3. OneStarter' /\ NoStartAtRelease'
  BY <1>1, <1>2 DEF OneStarter, NoStartAtRelease, Held, Stopping
<1>4. HeldIsOwned' /\ RemoverMeetsNobody'
  BY <1>1, <1>2 DEF HeldIsOwned, RemoverMeetsNobody, Starting, Held, Stopping, Patrolling
<1>5. HolderHeardOf'
  BY <1>1, <1>2 DEF HolderHeardOf, HeardOf, Held, Patrolling, Stopping
<1> QED BY <1>3, <1>4, <1>5 DEF History

\* A holder that writes nothing stays one until it removes its lock or dies.
LEMMA QuietExclusive ==
  ASSUME LockInv, Orderly, ~overdue, NEW r \in Runners,
         Patrol(r) \/ Wake(r) \/ Interrupt(r) \/ Release(r) \/ Crash(r)
  PROVE  Exclusive'
<1> USE DEF LockInv, Exclusive, TypeOK, Patrol, Wake, Interrupt, Release, Crash, Step, Files, Mine, Own, History
<1>1. OneStarter' /\ NoStartAtRelease'
  BY DEF OneStarter, NoStartAtRelease, Starting, Patrolling
<1>2. HeldIsOwned' /\ RemoverMeetsNobody'
  BY DEF HeldIsOwned, RemoverMeetsNobody, OneStarter, Held, Starting, Patrolling, Stopping
<1>3. HolderHeardOf'
  BY DEF HolderHeardOf, HeardOf, OneStarter, Starting, Patrolling
<1> QED BY <1>1, <1>2, <1>3 DEF History

\* What every step of a runner leaves alone.
LEMMA RegimeStays ==
  ASSUME NEW r \in Runners, RunnerStep(r)
  PROVE  /\ regime' = regime /\ interval' = interval
         /\ overdue => overdue'
         /\ ~Judge(r) => overdue' = overdue
         /\ ~Unlink(r) => robbed' = robbed
<1> USE DEF Mine, Own, History
<1>1. CASE Start(r) \/ Open(r) \/ Unlink(r) \/ Reopen(r)
  BY <1>1 DEF Start, Open, Unlink, Reopen, Create, FailToCreate
<1>4. CASE Judge(r)
  <2>1. overdue => overdue'
    BY <1>4, Zenon DEF Judge
  <2> QED BY <1>4, <2>1 DEF Judge
<1>2. CASE Truncate(r) \/ Patrol(r) \/ Wake(r) \/ Interrupt(r) \/ Release(r) \/ Crash(r)
  BY <1>2 DEF Truncate, Patrol, Wake, Interrupt, Release, Crash
<1>3. CASE Hello(r) \/ BeginCycle(r) \/ EndCycle(r) \/ FinalHeartbeat(r)
  BY <1>3 DEF Hello, BeginCycle, EndCycle, FinalHeartbeat, WriteHeartbeat
<1> QED BY <1>1, <1>2, <1>3, <1>4 DEF RunnerStep

\* A runner that lost its lock was robbed, or somebody else was.
LEMMA RunnerRobbed ==
  ASSUME LockInv, NEW r \in Runners, RunnerStep(r), ~robbed'
  PROVE  HeldIsOwned'
<1> USE DEF LockInv, TypeOK, Step, Held, Starting, Patrolling, Stopping
<1>0. ~robbed
  BY RegimeStays DEF Unlink
<1>1. HeldIsOwned
  BY <1>0
<1>2. CASE Open(r) \/ Reopen(r)
  <2>1. ASSUME NEW from, Create(r, from) PROVE HeldIsOwned'
    BY <1>1, <2>1, RunnerAssumption DEF Create, HeldIsOwned
  <2>2. ASSUME NEW from, NEW to \in {"judge", "lost"}, FailToCreate(r, from, to)
        PROVE  HeldIsOwned'
    BY <1>1, <2>2 DEF FailToCreate, Files, HeldIsOwned
  <2> QED BY <1>2, <2>1, <2>2 DEF Open, Reopen
<1>3. CASE Start(r) \/ Judge(r)
  BY <1>1, <1>3 DEF Start, Judge, Files, HeldIsOwned
<1>4. CASE Unlink(r)
  <2>1. \A q \in Runners : pc[q] \notin Held
    BY <1>1, <1>4 DEF Unlink, HeldIsOwned
  <2> QED BY <1>4, <2>1 DEF Unlink, HeldIsOwned
<1>5. CASE Truncate(r)
  BY <1>1, <1>5 DEF Truncate, HeldIsOwned
<1>6. CASE Hello(r) \/ BeginCycle(r) \/ EndCycle(r) \/ FinalHeartbeat(r)
  BY <1>1, <1>6 DEF Hello, BeginCycle, EndCycle, FinalHeartbeat, WriteHeartbeat, HeldIsOwned
<1>7. CASE Patrol(r) \/ Wake(r) \/ Interrupt(r) \/ Crash(r)
  BY <1>1, <1>7 DEF Patrol, Wake, Interrupt, Crash, Files, HeldIsOwned
<1>8. CASE Release(r)
  BY <1>1, <1>8 DEF Release, HeldIsOwned
<1> QED BY <1>2, <1>3, <1>4, <1>5, <1>6, <1>7, <1>8 DEF RunnerStep

\* Every step of a runner keeps the runners apart, as long as none is overdue.
LEMMA RunnerExclusive ==
  ASSUME LockInv, NEW r \in Runners, RunnerStep(r)
  PROVE  (Orderly /\ ~overdue => Exclusive)'
<1> SUFFICES ASSUME Orderly, ~overdue, ~overdue' PROVE Exclusive'
  BY RegimeStays DEF Orderly
<1> USE DEF Held, Patrolling, Stopping
<1>2. CASE Open(r) \/ Reopen(r)
  BY <1>2, CreateExclusive, FailExclusive DEF Open, Reopen
<1>3. CASE Hello(r)
  BY <1>3, BeatExclusive DEF Hello
<1>4. CASE BeginCycle(r)
  BY <1>4, BeatExclusive DEF BeginCycle
<1>5. CASE EndCycle(r)
  BY <1>5, BeatExclusive DEF EndCycle
<1>6. CASE FinalHeartbeat(r)
  BY <1>6, BeatExclusive DEF FinalHeartbeat, Orderly
<1>7. CASE Truncate(r)
  BY <1>7 DEF Truncate, Orderly
<1> QED BY <1>2, <1>3, <1>4, <1>5, <1>6, <1>7,
          StartExclusive, JudgeExclusive, UnlinkExclusive, QuietExclusive DEF RunnerStep

\* Every step of a runner keeps the heartbeats behind the clock.
LEMMA RunnerInTime ==
  ASSUME LockInv, NEW r \in Runners, RunnerStep(r)
  PROVE  BeatsInTime'
<1> USE DEF LockInv, TypeOK, BeatsInTime, Step, Files, Mine, Own, History
<1>1. CASE Start(r) \/ Open(r) \/ Judge(r) \/ Unlink(r) \/ Reopen(r)
  BY <1>1, TimeAssumption DEF Start, Open, Judge, Unlink, Reopen, Create, FailToCreate
<1>2. CASE Hello(r) \/ BeginCycle(r) \/ EndCycle(r) \/ FinalHeartbeat(r)
  BY <1>2, TimeAssumption DEF Hello, BeginCycle, EndCycle, FinalHeartbeat, WriteHeartbeat
<1>3. CASE Truncate(r) \/ Patrol(r) \/ Wake(r) \/ Interrupt(r) \/ Release(r) \/ Crash(r)
  BY <1>3 DEF Truncate, Patrol, Wake, Interrupt, Release, Crash
<1> QED BY <1>1, <1>2, <1>3 DEF RunnerStep

\* Every step of a runner keeps the heartbeat that of a runner that started.
LEMMA RunnerHeartbeatOld ==
  ASSUME LockInv, NEW r \in Runners, RunnerStep(r)
  PROVE  HeartbeatIsOld'
<1> USE DEF LockInv, TypeOK, HeartbeatIsOld, Step, Files, Mine, Own, History, Patrolling, Stopping
<1>1. heartbeat # NoBeat => heartbeat.by \in Runners /\ heartbeat.at \in 0..MaxTime
  BY DEF Beats
<1>2. CASE Start(r) \/ Open(r) \/ Judge(r) \/ Unlink(r) \/ Reopen(r)
  BY <1>1, <1>2 DEF Start, Open, Judge, Unlink, Reopen, Create, FailToCreate
<1>3. CASE Hello(r) \/ BeginCycle(r) \/ EndCycle(r) \/ FinalHeartbeat(r)
  BY <1>3 DEF Hello, BeginCycle, EndCycle, FinalHeartbeat, WriteHeartbeat
<1>4. CASE Truncate(r)
  BY <1>4 DEF Truncate
<1>5. CASE Patrol(r) \/ Wake(r) \/ Interrupt(r) \/ Release(r) \/ Crash(r)
  BY <1>1, <1>5 DEF Patrol, Wake, Interrupt, Release, Crash
<1> QED BY <1>2, <1>3, <1>4, <1>5 DEF RunnerStep

\* A runner that was refused stays so, and the one it was refused for does not unstart.
LEMMA RunnerRefusal ==
  ASSUME LockInv, NEW r \in Runners, RunnerStep(r)
  PROVE  RefusalNeedsFreshRunner'
<1> SUFFICES ASSUME NEW s \in Runners, pc'[s] = "refused"
             PROVE  \E q \in Runners \ {s} :
                      /\ pc'[q] # "idle"
                      /\ ~(startedAt'[s] - beat'[q] > StaleAfter(interval'[s]))
  BY DEF RefusalNeedsFreshRunner, TooSilent, StaleAfter
<1> USE DEF LockInv, TypeOK, Step, Files, Mine, Own, History
<1>1. \A q \in Runners :
        /\ pc[q] # "idle" => pc'[q] # "idle"
        /\ beat'[q] \in Int /\ beat[q] <= beat'[q]
  BY TimeAssumption
     DEF BeatsInTime, RunnerStep, Start, Open, Judge, Unlink, Reopen, Create, FailToCreate,
         Truncate, Hello, BeginCycle, Patrol, EndCycle, Wake, Interrupt, FinalHeartbeat, Release,
         Crash, WriteHeartbeat
<1>2. interval' = interval /\ (pc[s] # "idle" => startedAt'[s] = startedAt[s])
  BY DEF RunnerStep, Start, Open, Judge, Unlink, Reopen, Create, FailToCreate,
         Truncate, Hello, BeginCycle, Patrol, EndCycle, Wake, Interrupt, FinalHeartbeat, Release,
         Crash, WriteHeartbeat
<1>3. pc[s] = "refused" \/ (s = r /\ Judge(r))
  BY DEF RunnerStep, Start, Open, Judge, Unlink, Reopen, Create, FailToCreate,
         Truncate, Hello, BeginCycle, Patrol, EndCycle, Wake, Interrupt, FinalHeartbeat, Release,
         Crash, WriteHeartbeat
<1>4. pc[s] # "idle" /\ StaleAfter(interval[s]) \in Int
  BY <1>3, StaleAfterType DEF Judge
<1>5. \E q \in Runners \ {s} :
        pc[q] # "idle" /\ ~(startedAt[s] - beat[q] > StaleAfter(interval[s]))
  <2>1. CASE pc[s] = "refused"
    BY <2>1, <1>2 DEF RefusalNeedsFreshRunner, TooSilent
  <2>2. CASE s = r /\ Judge(r)
    <3>1. pc[s] = "judge" /\ ~IsStaleLock(s)
      BY <2>2 DEF Judge
    <3>2. heartbeat \in Beats /\ startedAt[s] - heartbeat.at <= StaleAfter(interval[s])
      BY <3>1, <1>4 DEF IsStaleLock, NoBeat, Beats
    <3>3. heartbeat.by \in Runners /\ pc[heartbeat.by] \in Patrolling \cup Stopping \cup {"done", "dead"}
          /\ heartbeat.at <= beat[heartbeat.by] /\ heartbeat.at \in Int
      BY <3>2, RunnerAssumption DEF HeartbeatIsOld, NoBeat, Beats
    <3>4. heartbeat.by # s /\ pc[heartbeat.by] # "idle"
      BY <3>1, <3>3 DEF Patrolling, Stopping
    <3> QED BY <3>2, <3>3, <3>4, <1>4
  <2> QED BY <1>3, <2>1, <2>2
<1> QED BY <1>1, <1>2, <1>4, <1>5

\* The clock passes no heartbeat.
LEMMA TickLock ==
  ASSUME LockInv, Tick
  PROVE  LockInv'
<1>1. TypeOK'
  BY TickType DEF LockInv
<1>2. BeatsInTime'
  BY Numbers DEF LockInv, BeatsInTime, Tick
<1>3. /\ HeartbeatIsOld' /\ RefusalNeedsFreshRunner' /\ (~robbed => HeldIsOwned)'
      /\ (Orderly /\ ~overdue => Exclusive)'
  BY DEF LockInv, Tick, Files, Mine, Own, History, HeartbeatIsOld, RefusalNeedsFreshRunner,
         TooSilent, Orderly, StaleAfter, Exclusive, OneStarter, NoStartAtRelease, HeldIsOwned,
         RemoverMeetsNobody, HolderHeardOf, HeardOf
<1> QED BY <1>1, <1>2, <1>3 DEF LockInv

\* The lock's invariant holds of every behaviour.
LEMMA LockInvariant == Spec => []LockInv
<1>1. Init => LockInv
  <2> SUFFICES ASSUME Init PROVE LockInv
    OBVIOUS
  <2>1. TypeOK
    BY InitType
  <2>2. \A r \in Runners : pc[r] = "idle" /\ beat[r] = 0
    BY DEF Init
  <2>3. BeatsInTime /\ HeartbeatIsOld /\ RefusalNeedsFreshRunner
    BY <2>2 DEF Init, BeatsInTime, HeartbeatIsOld, RefusalNeedsFreshRunner
  <2>4. Exclusive
    BY <2>2 DEF Init, Exclusive, OneStarter, NoStartAtRelease, HeldIsOwned, RemoverMeetsNobody,
       HolderHeardOf, Held, Starting, Patrolling, Stopping
  <2> QED BY <2>1, <2>3, <2>4 DEF LockInv, Exclusive
<1>2. LockInv /\ [Next]_vars => LockInv'
  <2> SUFFICES ASSUME LockInv, [Next]_vars PROVE LockInv'
    OBVIOUS
  <2>1. CASE \E r \in Runners : RunnerStep(r)
    <3>1. TypeOK'
      BY <2>1, AcquireType, CycleType, EndType DEF RunnerStep, LockInv
    <3> QED BY <2>1, <3>1, RunnerExclusive, RunnerRobbed, RunnerInTime, RunnerHeartbeatOld, RunnerRefusal
            DEF LockInv
  <2>2. CASE Tick
    BY <2>2, TickLock
  <2>3. CASE Stopped \/ UNCHANGED vars
    BY <2>3 DEF Stopped, vars, LockInv, TypeOK, BeatsInTime, HeartbeatIsOld,
       RefusalNeedsFreshRunner, TooSilent, Orderly, StaleAfter, Exclusive, OneStarter, NoStartAtRelease,
       HeldIsOwned, RemoverMeetsNobody, HolderHeardOf, HeardOf
  <2> QED BY <2>1, <2>2, <2>3 DEF Next
<1> QED BY <1>1, <1>2, PTL DEF Spec

\* "Single-runner lock" (run, _acquire_lock, _is_stale_lock, _release_lock): however starts,
\* stops, deaths and half-written heartbeats interleave, from a runner's first heartbeat to
\* its finally block the lock file is the one it created, and so no two runners patrol at a
\* time, until a starter removes the lock of a live runner; and with starts one after the
\* other none does before some runner is silent beyond a starter's limit.
THEOREM LockIsExclusive == Spec => []SingleRunner
<1>1. LockInv => SingleRunner
  BY DEF LockInv, Exclusive, HeldIsOwned, Held, SingleRunner
<1> QED BY <1>1, LockInvariant, PTL

\* With starts one after the other, and nobody overdue so far, the status page says stale of
\* a patroller's lock exactly when the patroller is late by its own interval (show_status);
\* and whatever the order, a runner is refused only for another one that was heard of within
\* the stale limit (_is_stale_lock).
THEOREM LockJudgedTruly == Spec => []JudgedByHeartbeat
<1>1. LockInv => PatrollingShownTruly
  <2> SUFFICES ASSUME LockInv, Orderly, ~overdue, NEW q \in Runners, pc[q] \in Patrolling
               PROVE  LockState = IF now - beat[q] > StaleAfter(interval[q])
                                  THEN "stale" ELSE "active"
    BY DEF PatrollingShownTruly
  <2>1. lockOwner = q /\ HeardOf(q)
    BY DEF LockInv, Exclusive, HeldIsOwned, HolderHeardOf, Held
  <2>2. /\ heartbeat # NoBeat /\ lockOwner # NoRunner /\ heartbeat.status = "running"
        /\ heartbeat.at = beat[q] /\ heartbeat.by = q
    BY <2>1, RunnerAssumption DEF HeardOf, NoBeat
  <2> QED BY <2>2, Zenon DEF LockState
<1>2. LockInv => JudgedByHeartbeat
  BY <1>1 DEF LockInv, JudgedByHeartbeat
<1> QED BY <1>2, LockInvariant, PTL
=============================================================================
