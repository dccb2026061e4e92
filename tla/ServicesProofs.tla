----------------------------- MODULE ServicesProofs -----------------------------
(***************************************************************************)
(* Proofs about the services around a run, for any circumstances of each:  *)
(* what an execution keeps of its trace, when a Monkey runs alone, gives   *)
(* up and stays stopped, what the platform hears of its submissions, how   *)
(* fresh a reading is and what traffic it tells, what a loop counts, and   *)
(* how the gate decides.                                                   *)
(* Each part is proved of its own specification, which every behaviour of  *)
(* the services satisfies (EveryServiceBehaves).                           *)
(***************************************************************************)
EXTENDS Services, SequenceTheorems, FiniteSetTheorems, WellFoundedInduction, TLAPS

-----------------------------------------------------------------------------
(* Monitoring: types.                                                      *)

\* What a trace gives when it is ended is one of the things a trace covers.
LEMMA EndedType ==
  ASSUME TypeOK
  PROVE  /\ Ended \in Covers
         /\ \A fetch \in Fetches : /\ fetch.stopped \in BOOLEAN /\ fetch.extra \in BOOLEAN
                                  /\ fetch.got \in Covers /\ fetch.raised \in BOOLEAN
<1>1. Ended \in Covers /\ perfetto.recording \in BOOLEAN /\ perfetto.extra \in BOOLEAN
  BY DEF TypeOK, Trace, Ended, Covers, Nothing
<1>2. {"part", "later", Nothing} \subseteq Covers /\ Stoppings \subseteq BOOLEAN
  BY <1>1 DEF Covers, Stoppings
<1>3. \A fetch \in Pulled : /\ fetch.stopped \in BOOLEAN /\ fetch.extra \in BOOLEAN
                           /\ fetch.got \in Covers /\ fetch.raised = FALSE
  BY <1>1, <1>2 DEF Pulled, Fetch
<1>4. \A fetch \in Replaced : /\ fetch.stopped \in BOOLEAN /\ fetch.extra \in BOOLEAN
                             /\ fetch.got \in Covers /\ fetch.raised \in BOOLEAN
  BY <1>2 DEF Replaced, Fetch
<1> QED BY <1>1, <1>3, <1>4 DEF Fetches

\* Finalizing keeps the type of the trace.
LEMMA FinalizeType ==
  ASSUME TypeOK, NEW fetch \in Fetches, Finalize(fetch)
  PROVE  perfetto' \in Trace /\ Fetched(fetch) \in Covers
<1>1. /\ fetch.stopped \in BOOLEAN /\ fetch.extra \in BOOLEAN /\ fetch.got \in Covers /\ fetch.raised \in BOOLEAN
      /\ Ended \in Covers
  BY Zenon, EndedType
<1>2. Failed(fetch) \in SUBSET {"stop", "fetch"}
  BY DEF Failed
<1> QED BY <1>1, <1>2 DEF Finalize, Fetched, Trace, TypeOK

\* Opening, and the end of the trace on the device, keep the types.
LEMMA OpeningType ==
  ASSUME TypeOK, StartSession \/ TraceEnds
  PROVE  TypeOK'
<1>1. CASE StartSession
  <2>1. PICK solox \in {TRUE, ~circumstance.fails}, collector \in May("fallback"),
             trace \in IF circumstance.trace = "perfetto" THEN May("trace") ELSE {{}} :
               Opening(Metrics(solox, collector), trace)
    BY <1>1 DEF StartSession
  <2>2. Metrics(solox, collector) \subseteq Sessions
    BY DEF Metrics, Sessions
  <2>3. {"trace"} \cap trace \subseteq Sessions
    BY DEF Sessions
  <2>4. opened' \subseteq Sessions
    BY <2>1, <2>2, <2>3 DEF Opening, TypeOK
  <2>5. perfetto' \in Trace
    <3>1. perfetto \in Trace /\ (trace # {}) \in BOOLEAN
      BY DEF TypeOK
    <3>2. perfetto' = perfetto \/ perfetto' = [perfetto EXCEPT !.recording = trace # {}]
      BY <2>1 DEF Opening
    <3> QED BY Zenon, <3>1, <3>2 DEF Trace
  <2>6. main' = [main EXCEPT !.at = "scenario"] /\ sampler' \in {sampler, [sampler EXCEPT !.at = "wait"]}
    BY <2>1 DEF Opening, Main, Sampler
  <2> QED BY <1>1, <2>4, <2>5, <2>6 DEF StartSession, Fixed, TypeOK
<1>2. CASE TraceEnds
  <2>1. "early" \in Covers /\ "whole" \in Covers
    BY DEF Covers
  <2>2. perfetto' \in Trace
    BY <1>2, <2>1 DEF TraceEnds, TypeOK, Trace
  <2> QED BY <1>2, <2>2 DEF TraceEnds, Fixed, TypeOK
<1> QED BY <1>1, <1>2

\* A snapshot of either thread keeps the types.
LEMMA SnapshotType ==
  ASSUME TypeOK, NEW t \in Threads,
         CollectMetrics(t) \/ CollectTrace(t) \/ AppendSample(t) \/ WriteSnapshot(t) \/ WriteSamples(t)
  PROVE  TypeOK'
<1> USE DEF At, Move, Main, Sampler, Fixed
<1>1. CASE CollectMetrics(t)
  BY <1>1 DEF CollectMetrics, TypeOK, Collecting
<1>2. CASE CollectTrace(t)
  <2>2. ASSUME NEW trace \in Covers \cup {"skipped"}, Take(t, "append", trace)
        PROVE  /\ main' \in [at : {"start", "scenario", "join", "failed", "finally", "done"} \cup Collecting,
                             trace : Covers \cup {"skipped"}, final : Covers \cup {"skipped", "none"}]
               /\ sampler' \in [at : {"none", "wait", "failed", "pop", "dead"} \cup Collecting,
                                trace : Covers \cup {"skipped"}]
    BY ZenonT(30), <2>2 DEF Take, TypeOK, Collecting
  <2>3. ASSUME NEW fetch \in Fetches, Finalize(fetch)
        PROVE  perfetto' \in Trace /\ Fetched(fetch) \in Covers
    BY <2>3, FinalizeType
  <2>4. Nothing \in Covers
    BY DEF Covers
  <2> QED BY <1>2, <2>2, <2>3, <2>4 DEF CollectTrace, TypeOK
<1>3. CASE AppendSample(t)
  BY <1>3 DEF AppendSample, AddSample, Holds, TypeOK, Collecting, Snapshot, Threads
<1>4. CASE WriteSnapshot(t)
  BY <1>4 DEF WriteSnapshot, TypeOK, Collecting
<1>5. CASE WriteSamples(t)
  BY <1>5 DEF WriteSamples, TypeOK, Collecting
<1> QED BY <1>1, <1>2, <1>3, <1>4, <1>5

\* The sampler's other steps keep the types.
LEMMA SamplerType ==
  ASSUME TypeOK, SampleLoop \/ Sampled \/ SampleFailed
  PROVE  TypeOK'
<1>1. sampler' \in [at : {"none", "wait", "failed", "pop", "dead"} \cup Collecting, trace : Covers \cup {"skipped"}]
  BY DEF SampleLoop, Sampled, SampleFailed, Sampler, Collecting, TypeOK
<1>2. CASE SampleLoop \/ Sampled
  BY <1>1, <1>2 DEF SampleLoop, Sampled, Fixed, TypeOK
<1>3. CASE SampleFailed
  <2>1. [by |-> "sampler", trace |-> "error"] \in Snapshot
    BY DEF Snapshot, Threads
  <2>2. samples' \in Seq(Snapshot) /\ Len(samples') = Len(samples) + 1
    BY <1>3, <2>1 DEF SampleFailed, AddSample, TypeOK
  <2>3. written' \in [snapshot : Threads \cup {Nothing}, samples : 0 .. Len(samples')]
    BY <1>3, <2>2 DEF SampleFailed, TypeOK
  <2> QED BY <1>1, <1>3, <2>2, <2>3 DEF SampleFailed, Fixed, TypeOK
<1> QED BY <1>2, <1>3

\* The execution's other steps keep the types.
LEMMA ExecutionType ==
  ASSUME TypeOK, ScenarioEnds \/ AskToStop \/ Join \/ JoinTimesOut \/ MainFailed \/ Finally
  PROVE  TypeOK'
<1>1. CASE Finally
  <2>1. ASSUME NEW fetch \in Fetches, Finalize(fetch)
        PROVE  perfetto' \in Trace
    BY <2>1, FinalizeType
  <2>2. perfetto' \in Trace
    BY <1>1, <2>1 DEF Finally, Closed, TypeOK
  <2> QED BY <1>1, <2>2 DEF Finally, Main, Fixed, TypeOK
<1>2. CASE ScenarioEnds \/ AskToStop \/ Join \/ JoinTimesOut \/ MainFailed
  BY ZenonT(30), <1>2 DEF ScenarioEnds, AskToStop, Join, JoinTimesOut, MainFailed, LastSnapshot, Main, Fixed, TypeOK, Collecting
<1> QED BY <1>1, <1>2

\* The places of both threads, the sessions, the trace, the samples and the files are of
\* their types (_execute_instance, _start_periodic_monitoring_sampler, the adapters).
THEOREM TypeCorrect ==
  ASSUME ConstantsOK
  PROVE  Spec => []TypeOK
<1>1. Init => TypeOK
  <2> SUFFICES ASSUME Init PROVE TypeOK
    OBVIOUS
  <2>1. samples \in Seq(Snapshot) /\ Len(samples) = 0
    BY DEF Init
  <2>2. Nothing \in Covers
    BY DEF Covers
  <2>3. main \in [at : {"start", "scenario", "join", "failed", "finally", "done"} \cup Collecting,
                  trace : Covers \cup {"skipped"}, final : Covers \cup {"skipped", "none"}]
    BY <2>2 DEF Init
  <2>4. written \in [snapshot : Threads \cup {Nothing}, samples : 0 .. Len(samples)]
    BY <2>1 DEF Init
  <2>5. perfetto \in Trace
    BY <2>2 DEF Init, Trace
  <2> QED BY <2>1, <2>2, <2>3, <2>4, <2>5 DEF Init, TypeOK
<1>2. TypeOK /\ [Next]_vars => TypeOK'
  <2> SUFFICES ASSUME TypeOK, [Next]_vars PROVE TypeOK'
    OBVIOUS
  <2>1. CASE UNCHANGED vars
    BY <2>1 DEF vars, TypeOK
  <2> QED BY <2>1, OpeningType, SnapshotType, SamplerType, ExecutionType DEF Next
<1> QED BY <1>1, <1>2, PTL DEF Spec

-----------------------------------------------------------------------------
(* The invariants.  What they rest on: the flag is up exactly while the    *)
(* sampler, once there is one, is in a sample; after the wait the sampler has ended, or it is  *)
(* late; the last snapshot is taken once, after the wait; and a trace that *)
(* was finalized does not record unless its stop failed.                   *)

AtWork == Collecting \cup {"failed", "pop"}
FlagTells ==
  /\ skip <=> sampler.at \in AtWork
  /\ main.at = "start" => sampler.at = "none" /\ ~perfetto.finalized /\ ~perfetto.extra
SamplerWaitedFor ==
  main.at \in Collecting \cup {"failed"} \/ main.final # "none" => late \/ sampler.at \in {"dead", "none"}
FinalIsLast ==
  main.at \in {"start", "scenario", "join", "collect", "trace", "failed"} => main.final = "none"
MainWrites ==
  ~late => /\ main.at = "samples" => written.snapshot = "main"
           /\ main.at \in {"finally", "done"} /\ main.final # "none" =>
                written = [snapshot |-> "main", samples |-> Len(samples)]
EndedIsOver ==
  /\ perfetto.extra \/ (perfetto.finalized /\ perfetto.recording) => "stop" \in perfetto.failed
IInv ==
  /\ FlagTells /\ SamplerWaitedFor /\ FinalIsLast /\ MainWrites /\ EndedIsOver
  /\ TraceIsNotCut /\ LastHasTrace /\ TraceIsEnded

\* Opening, and the end of the trace on the device, keep the invariant.
LEMMA OpeningSafe ==
  ASSUME TypeOK, IInv, StartSession \/ TraceEnds
  PROVE  IInv'
<1> USE DEF IInv, FlagTells, SamplerWaitedFor, FinalIsLast, MainWrites, EndedIsOver, TraceIsNotCut,
            LastHasTrace, TraceIsEnded, HasTrace, TypeOK, Collecting, AtWork, Fixed
<1>1. CASE StartSession
  <2>1. PICK metrics, trace : Opening(metrics, trace)
    BY <1>1 DEF StartSession
  <2>2. /\ main' = [main EXCEPT !.at = "scenario"] /\ sampler' \in {sampler, [sampler EXCEPT !.at = "wait"]}
        /\ main.at = "start" /\ UNCHANGED <<skip, stopping, samples, written, late>>
    BY <1>1, <2>1 DEF StartSession, Opening, Main, Sampler
  <2>3. /\ perfetto'.covers = perfetto.covers /\ perfetto'.failed = perfetto.failed
        /\ perfetto'.finalized = perfetto.finalized /\ perfetto'.extra = perfetto.extra
    BY <2>1 DEF Opening, Trace
  <2> QED BY <2>2, <2>3
<1>2. CASE TraceEnds
  <2>1. /\ UNCHANGED <<main, sampler, opened, skip, stopping, samples, written, late>>
    BY <1>2 DEF TraceEnds
  <2>2. /\ perfetto'.covers \in {perfetto.covers, "early", "whole"} /\ perfetto'.failed = perfetto.failed
        /\ perfetto'.finalized = perfetto.finalized
        /\ perfetto'.extra => perfetto.extra
        /\ perfetto'.recording => perfetto.recording
    BY <1>2 DEF TraceEnds, Trace
  <2> QED BY <2>1, <2>2
<1> QED BY <1>1, <1>2

\* What finalizing does to a trace: it is told to end, and not cut, if the scenario is over.
LEMMA FinalizeSafe ==
  ASSUME TypeOK, IInv, NEW fetch \in Fetches, Finalize(fetch), main.at # "scenario"
  PROVE  /\ perfetto'.recording \/ perfetto'.extra => "stop" \in perfetto'.failed
         /\ perfetto'.finalized \/ "fetch" \in perfetto'.failed
         /\ perfetto'.covers # "cut"
         /\ Fetched(fetch) # "skipped"
<1>1. Fetched(fetch) \in Covers
  BY FinalizeType
<1>2. fetch.stopped \in BOOLEAN /\ fetch.extra \in BOOLEAN /\ fetch.raised \in BOOLEAN
  BY Zenon, EndedType
<1>3. "skipped" \notin Covers
  BY DEF Covers, Nothing
<1>4. Ended # "cut"
  BY DEF Ended, IInv, TraceIsNotCut
<1>5. CASE perfetto.finalized
  BY <1>1, <1>3, <1>5 DEF Finalize, IInv, EndedIsOver, TraceIsNotCut, TypeOK, Trace
<1>6. CASE ~perfetto.finalized
  <2>1. /\ perfetto'.recording = ~fetch.stopped /\ perfetto'.extra = fetch.extra
        /\ perfetto'.finalized = ~fetch.raised /\ perfetto'.failed = Failed(fetch)
        /\ perfetto'.covers \in {Ended, perfetto.covers}
    BY <1>6 DEF Finalize
  <2> QED BY <1>1, <1>3, <1>4, <1>2, <2>1 DEF Failed, IInv, TraceIsNotCut
<1> QED BY <1>5, <1>6

\* A snapshot of the sampler keeps the invariant: it is flagged.
LEMMA SamplerSnapshotSafe ==
  ASSUME TypeOK, IInv,
         \/ CollectMetrics("sampler") \/ CollectTrace("sampler") \/ AppendSample("sampler")
         \/ WriteSnapshot("sampler") \/ WriteSamples("sampler")
  PROVE  IInv'
<1> USE DEF IInv, FlagTells, SamplerWaitedFor, FinalIsLast, MainWrites, EndedIsOver, TraceIsNotCut,
            LastHasTrace, TraceIsEnded, HasTrace, TypeOK, Collecting, AtWork, Fixed, At, Move, Sampler
<1>1. CASE CollectTrace("sampler")
  BY <1>1 DEF CollectTrace, Take, Skips
<1>2. CASE CollectMetrics("sampler")
  BY <1>2 DEF CollectMetrics
<1>3. CASE AppendSample("sampler")
  BY <1>3 DEF AppendSample
<1>4. CASE WriteSnapshot("sampler")
  BY <1>4 DEF WriteSnapshot
<1>5. CASE WriteSamples("sampler")
  BY <1>5 DEF WriteSamples
<1> QED BY <1>1, <1>2, <1>3, <1>4, <1>5

\* The last snapshot keeps the invariant.
LEMMA MainSnapshotSafe ==
  ASSUME TypeOK, IInv,
         \/ CollectMetrics("main") \/ CollectTrace("main") \/ AppendSample("main")
         \/ WriteSnapshot("main") \/ WriteSamples("main")
  PROVE  IInv'
<1>1. CASE CollectTrace("main")
  <2>1. main.at = "trace" /\ main'.at = "append" /\ UNCHANGED <<sampler, opened, skip, samples, written, late>>
    BY <1>1 DEF CollectTrace, Take, At, TypeOK
  <2>2. /\ Skips \/ main'.final # "skipped"
        /\ \/ UNCHANGED perfetto
           \/ EndedIsOver' /\ perfetto'.covers # "cut"
    <3>1. CASE ~HasTrace \/ Skips
      BY <1>1, <3>1 DEF CollectTrace, Take, Nothing, TypeOK
    <3>2. CASE HasTrace /\ ~Skips
      <4>1. PICK fetch \in Fetches : Take("main", "append", Fetched(fetch)) /\ Finalize(fetch)
        BY <1>1, <3>2 DEF CollectTrace
      <4>2. EndedIsOver' /\ perfetto'.covers # "cut" /\ Fetched(fetch) # "skipped"
        BY <2>1, <4>1, FinalizeSafe DEF EndedIsOver
      <4> QED BY <4>1, <4>2 DEF Take, TypeOK
    <3> QED BY <3>1, <3>2
  <2>3. FlagTells' /\ SamplerWaitedFor' /\ FinalIsLast' /\ MainWrites'
    BY <2>1 DEF IInv, FlagTells, SamplerWaitedFor, FinalIsLast, MainWrites, Collecting
  <2>4. EndedIsOver' /\ TraceIsNotCut'
    BY <2>2 DEF IInv, EndedIsOver, TraceIsNotCut
  <2>5. LastHasTrace'
    BY <2>1, <2>2 DEF IInv, LastHasTrace, HasTrace, Skips, SamplerWaitedFor, FlagTells, AtWork, Collecting
  <2>6. TraceIsEnded'
    BY <2>1 DEF TraceIsEnded
  <2> QED BY <2>3, <2>4, <2>5, <2>6 DEF IInv
<1> USE DEF IInv, FlagTells, SamplerWaitedFor, FinalIsLast, MainWrites, EndedIsOver, TraceIsNotCut,
            LastHasTrace, TraceIsEnded, HasTrace, TypeOK, Collecting, AtWork, Fixed, At, Move, Main
<1>2. CASE CollectMetrics("main")
  BY <1>2 DEF CollectMetrics
<1>3. CASE AppendSample("main")
  BY <1>3 DEF AppendSample
<1>4. CASE WriteSnapshot("main")
  BY <1>4 DEF WriteSnapshot
<1>5. CASE WriteSamples("main")
  BY <1>5 DEF WriteSamples
<1> QED BY <1>1, <1>2, <1>3, <1>4, <1>5

\* The sampler's other steps keep the invariant.
LEMMA SamplerSafe ==
  ASSUME TypeOK, IInv, SampleLoop \/ Sampled \/ SampleFailed
  PROVE  IInv'
<1> USE DEF IInv, FlagTells, SamplerWaitedFor, FinalIsLast, MainWrites, EndedIsOver, TraceIsNotCut,
            LastHasTrace, TraceIsEnded, HasTrace, TypeOK, Collecting, AtWork, Fixed, Sampler
<1>1. CASE SampleLoop
  BY <1>1 DEF SampleLoop
<1>2. CASE Sampled \/ SampleFailed
  BY <1>2 DEF Sampled, SampleFailed
<1> QED BY <1>1, <1>2

\* The execution's other steps keep the invariant.
LEMMA ExecutionSafe ==
  ASSUME TypeOK, IInv, ScenarioEnds \/ AskToStop \/ Join \/ JoinTimesOut \/ MainFailed \/ Finally
  PROVE  IInv'
<1> USE DEF IInv, FlagTells, SamplerWaitedFor, FinalIsLast, MainWrites, EndedIsOver, TraceIsNotCut,
            LastHasTrace, TraceIsEnded, HasTrace, TypeOK, Collecting, AtWork, Fixed, Main
<1>1. CASE ScenarioEnds \/ AskToStop \/ MainFailed
  BY <1>1 DEF ScenarioEnds, AskToStop, MainFailed
<1>2. CASE Join \/ JoinTimesOut
  BY <1>2 DEF Join, JoinTimesOut, Joined, LastSnapshot
<1>3. CASE Finally
  <2>1. CASE ~HasTrace
    BY <1>3, <2>1 DEF Finally, Closed
  <2>2. CASE HasTrace
    <3>1. PICK fetch \in Fetches : Finalize(fetch)
      BY <1>3, <2>2 DEF Finally, Closed
    <3>2. /\ perfetto'.recording \/ perfetto'.extra => "stop" \in perfetto'.failed
          /\ perfetto'.finalized \/ "fetch" \in perfetto'.failed
          /\ perfetto'.covers # "cut"
      BY <1>3, <3>1, FinalizeSafe DEF Finally
    <3> QED BY <1>3, <3>2 DEF Finally
  <2> QED BY <2>1, <2>2
<1> QED BY <1>1, <1>2, <1>3

\* The invariant holds throughout.
LEMMA Safe ==
  ASSUME ConstantsOK
  PROVE  Spec => []IInv
<1>1. Init => IInv
  BY DEF Init, IInv, FlagTells, SamplerWaitedFor, FinalIsLast, MainWrites, EndedIsOver, TraceIsNotCut,
         LastHasTrace, TraceIsEnded, HasTrace, Collecting, AtWork, Nothing
<1>2. TypeOK /\ IInv /\ [Next]_vars => IInv'
  <2> SUFFICES ASSUME TypeOK, IInv, [Next]_vars PROVE IInv'
    OBVIOUS
  <2>1. CASE UNCHANGED vars
    BY <2>1 DEF vars, IInv, FlagTells, SamplerWaitedFor, FinalIsLast, MainWrites, EndedIsOver,
                TraceIsNotCut, LastHasTrace, TraceIsEnded, HasTrace
  <2> QED BY <2>1, OpeningSafe, SamplerSnapshotSafe, MainSnapshotSafe, SamplerSafe, ExecutionSafe
          DEF Next, Threads
<1> QED BY <1>1, <1>2, TypeCorrect, PTL DEF Spec

\* What an execution keeps of its trace, for any number of samples and any failures: no
\* sample ends it while the scenario runs, a last snapshot without it is one the sampler
\* outlived the wait for, as is a file the last snapshot did not write last, and whoever
\* started it tells it to end: what goes on recording is a trace whose stop the device did
\* not take (_finalize_trace, _stop_periodic_monitoring_sampler, stop_session).
THEOREM TraceKept ==
  ASSUME ConstantsOK
  PROVE  Spec => []TraceSafe
<1>1. IInv => TraceSafe
  BY DEF IInv, MainWrites, TraceSafe, TraceIsNotCut, LastHasTrace, FilesAreFinal, TraceIsEnded
<1> QED BY <1>1, Safe, PTL

-----------------------------------------------------------------------------
(* Monkey.                                                                 *)

\* How often the runner has recovered.
MonkeyRecoveries ==
  runner.count["inject"] + runner.count["drift"] + runner.count["transport"]

\* Between two attempts every attempt has been paid for with a recovery or a
\* reconnect; during one, all but it.
MonkeyPaid ==
  LET paid == MonkeyRecoveries + runner.reconnects
  IN  /\ runner.at = "start" => runner.attempt = 0 /\ paid = 0
      /\ runner.at \in {"loop", "recover", "wait"} =>
           runner.attempt = paid /\ runner.attempt < Monkeys!MaxAttempts
      /\ runner.at \in {"clear", "launch", "running", "ended"} => runner.attempt = paid + 1
      /\ runner.at = "reconnect" =>
           runner.attempt = paid + 1 /\ runner.attempt < Monkeys!MaxAttempts
      /\ runner.at = "done" => runner.attempt <= paid + 1
      /\ runner.outcome # "none" => runner.at = "done"
      /\ "drift" \in result.marks => mCircumstance.guard

\* What a clearing that reached the device leaves there.
MonkeyAlone ==
  seen.reached => /\ runner.at = "launch" => monkeys = {}
                  /\ runner.at = "running" => monkeys \subseteq {runner.attempt}

\* The attempt a stop terminated is the last, or its end was taken for another.
MonkeyExcused == seen.marks # {} \/ seen.lost
MonkeyHalted ==
  /\ seen.stopped <= runner.attempt
  /\ host = "none" <=> runner.at # "running"
  /\ runner.at \in {"clear", "launch"} \/ host = "running" => seen.stopped < runner.attempt
  /\ host = "terminated" => seen.stopped = runner.attempt
  /\ stop = "none" => seen.stopped = 0
  /\ seen.stopped # 0 =>
       /\ ~seen.lost => online
       /\ runner.at = "ended" /\ runner.attempt = seen.stopped =>
            result.marks = seen.marks /\ (result.code = 1 \/ result.marks # {})
       /\ runner.at \notin {"running", "ended", "done"} \/ runner.attempt > seen.stopped =>
            MonkeyExcused

MonkeyInv ==
  Monkeys!TypeOK /\ MonkeyPaid /\ MonkeyAlone /\ MonkeyHalted /\ Monkeys!GivesUpOnlyWhenSpent

LEMMA MonkeyCircumstance ==
  ASSUME Monkeys!TypeOK
  PROVE  mCircumstance \in Monkeys!Config
BY DEF Monkeys!TypeOK, Monkeys!ConstantsOK

LEMMA MonkeyInit ==
  ASSUME Monkeys!ConstantsOK, Monkeys!Init
  PROVE  MonkeyInv
<1>1. mCircumstance \in Monkeys!Config
  BY DEF Monkeys!Init, Monkeys!ConstantsOK
<1> QED BY <1>1 DEF Monkeys!Init, MonkeyInv, MonkeyPaid, MonkeyRecoveries, MonkeyAlone, MonkeyHalted, MonkeyExcused, Monkeys!GivesUpOnlyWhenSpent,
  Monkeys!TypeOK, Monkeys!Config, Monkeys!Result, Monkeys!Marks, Monkeys!Kinds, Monkeys!Places, Monkeys!TimedOut, Monkeys!MaxAttempts


\* The runner, as Monkeys!TypeOK types it.
MonkeyRunner ==
  [at : Monkeys!Places, attempt : 0 .. Monkeys!MaxAttempts, count : [Monkeys!Kinds -> Nat],
   reconnects : Nat, since : Nat, outcome : {"none", "success", "failed", "timeout", "offline"}]

LEMMA MonkeyGo ==
  ASSUME Monkeys!TypeOK, NEW place \in Monkeys!Places, Monkeys!Go(place)
  PROVE  /\ runner' \in MonkeyRunner /\ runner'.at = place
         /\ runner'.attempt = runner.attempt /\ runner'.count = runner.count
         /\ runner'.reconnects = runner.reconnects /\ runner'.outcome = runner.outcome
BY DEF Monkeys!Go, Monkeys!TypeOK, MonkeyRunner

LEMMA MonkeyEnd ==
  ASSUME Monkeys!TypeOK, NEW o \in {"success", "failed", "timeout", "offline"}, Monkeys!End(o)
  PROVE  /\ runner' \in MonkeyRunner /\ runner'.at = "done" /\ runner'.outcome = o
         /\ runner'.attempt = runner.attempt /\ runner'.count = runner.count
         /\ runner'.reconnects = runner.reconnects
BY DEF Monkeys!End, Monkeys!TypeOK, MonkeyRunner, Monkeys!Places

LEMMA MonkeyRecovering ==
  ASSUME Monkeys!TypeOK, NEW kind \in Monkeys!Kinds, NEW place \in Monkeys!Places,
         Monkeys!Recovering(kind, place)
  PROVE  /\ runner' \in MonkeyRunner /\ runner'.at = place
         /\ runner'.attempt = runner.attempt
         /\ runner'.count[kind] = runner.count[kind] + 1
         /\ \A k \in Monkeys!Kinds \ {kind} : runner'.count[k] = runner.count[k]
         /\ runner'.reconnects = runner.reconnects /\ runner'.outcome = runner.outcome
<1>1. runner \in MonkeyRunner
  BY DEF Monkeys!TypeOK, MonkeyRunner
<1>2. /\ runner.count \in [Monkeys!Kinds -> Nat] /\ runner.count[kind] + 1 \in Nat
  BY <1>1 DEF MonkeyRunner
<1>3. [runner.count EXCEPT ![kind] = runner.count[kind] + 1] \in [Monkeys!Kinds -> Nat]
  BY <1>2
<1>4. runner' = [[runner EXCEPT !.at = place] EXCEPT !.count = [runner.count EXCEPT ![kind] = runner.count[kind] + 1]]
  BY <1>1 DEF Monkeys!Recovering, MonkeyRunner
<1>5. /\ runner'.count = [runner.count EXCEPT ![kind] = runner.count[kind] + 1]
      /\ runner'.at = place /\ runner'.attempt = runner.attempt
      /\ runner'.reconnects = runner.reconnects /\ runner'.outcome = runner.outcome
      /\ runner' \in MonkeyRunner
  BY <1>1, <1>3, <1>4 DEF MonkeyRunner
<1> QED BY <1>2, <1>5

\* To go on the runner has to be within its attempts; to end, it may be anywhere.
LEMMA MonkeyEnds ==
  ASSUME MonkeyInv, NEW o \in {"success", "failed", "timeout", "offline"}, Monkeys!End(o), Monkeys!Settled,
         UNCHANGED <<monkeys, host, result, seen>>, runner.at # "running",
         o = "failed" => Monkeys!GivesUpOnlyWhenSpent'
  PROVE  MonkeyInv'
<1>1. mCircumstance \in Monkeys!Config /\ Monkeys!TypeOK
  BY MonkeyCircumstance DEF MonkeyInv
<1>2. /\ runner' \in MonkeyRunner /\ runner'.at = "done" /\ runner'.outcome = o
      /\ runner'.attempt = runner.attempt /\ runner'.count = runner.count
      /\ runner'.reconnects = runner.reconnects
  BY <1>1, MonkeyEnd
<1>3. Monkeys!TypeOK'
  BY <1>1, <1>2 DEF MonkeyRunner, Monkeys!Settled, Monkeys!TypeOK, Monkeys!ConstantsOK, Monkeys!Places, Monkeys!MaxAttempts
<1>4. MonkeyPaid'
  BY <1>1, <1>2 DEF MonkeyInv, MonkeyPaid, MonkeyRecoveries, Monkeys!Settled, Monkeys!TypeOK, Monkeys!Places, Monkeys!Config, Monkeys!Kinds, Monkeys!MaxAttempts
<1>5. MonkeyAlone'
  BY <1>2 DEF MonkeyAlone
<1>6. MonkeyHalted'
  BY <1>1, <1>2 DEF MonkeyInv, MonkeyHalted, MonkeyExcused, Monkeys!Settled, Monkeys!TypeOK, Monkeys!Places
<1>7. Monkeys!GivesUpOnlyWhenSpent'
  BY <1>2 DEF Monkeys!GivesUpOnlyWhenSpent
<1> QED BY <1>3, <1>4, <1>5, <1>6, <1>7 DEF MonkeyInv

LEMMA MonkeyTick ==
  ASSUME MonkeyInv, Monkeys!Tick
  PROVE  MonkeyInv'
<1>1. mCircumstance \in Monkeys!Config
  BY MonkeyCircumstance DEF MonkeyInv
<1>2. Monkeys!TypeOK'
  BY <1>1 DEF MonkeyInv, Monkeys!Tick, Monkeys!TypeOK, Monkeys!Config, Monkeys!Result, Monkeys!Marks, Monkeys!Kinds, Monkeys!Places, Monkeys!TimedOut, Monkeys!MaxAttempts, Monkeys!ConstantsOK
<1>3. MonkeyPaid'
  BY <1>1 DEF MonkeyInv, Monkeys!Tick, MonkeyPaid, MonkeyRecoveries, Monkeys!MaxAttempts
<1>4. MonkeyAlone'
  BY <1>1 DEF MonkeyInv, Monkeys!Tick, MonkeyAlone
<1>5. MonkeyHalted'
  BY <1>1 DEF MonkeyInv, Monkeys!Tick, MonkeyHalted, MonkeyExcused, Monkeys!TypeOK
<1>6. Monkeys!GivesUpOnlyWhenSpent'
  BY <1>1 DEF MonkeyInv, Monkeys!Tick, Monkeys!GivesUpOnlyWhenSpent, Monkeys!MaxAttempts
<1> QED BY <1>2, <1>3, <1>4, <1>5, <1>6 DEF MonkeyInv

LEMMA MonkeyComeOrGo ==
  ASSUME MonkeyInv, Monkeys!ComeOrGo
  PROVE  MonkeyInv'
<1>1. mCircumstance \in Monkeys!Config
  BY MonkeyCircumstance DEF MonkeyInv
<1>2. Monkeys!TypeOK'
  BY <1>1 DEF MonkeyInv, Monkeys!ComeOrGo, Monkeys!TypeOK, Monkeys!Config, Monkeys!Result, Monkeys!Marks, Monkeys!Kinds, Monkeys!Places, Monkeys!TimedOut, Monkeys!MaxAttempts, Monkeys!ConstantsOK
<1>3. MonkeyPaid'
  BY <1>1 DEF MonkeyInv, Monkeys!ComeOrGo, MonkeyPaid, MonkeyRecoveries, Monkeys!MaxAttempts
<1>4. MonkeyAlone'
  BY <1>1 DEF MonkeyInv, Monkeys!ComeOrGo, MonkeyAlone
<1>5. MonkeyHalted'
  BY <1>1 DEF MonkeyInv, Monkeys!ComeOrGo, MonkeyHalted, MonkeyExcused, Monkeys!TypeOK
<1>6. Monkeys!GivesUpOnlyWhenSpent'
  BY <1>1 DEF MonkeyInv, Monkeys!ComeOrGo, Monkeys!GivesUpOnlyWhenSpent, Monkeys!MaxAttempts
<1> QED BY <1>2, <1>3, <1>4, <1>5, <1>6 DEF MonkeyInv

LEMMA MonkeyOrphanEnds ==
  ASSUME MonkeyInv, Monkeys!OrphanEnds
  PROVE  MonkeyInv'
<1>1. mCircumstance \in Monkeys!Config
  BY MonkeyCircumstance DEF MonkeyInv
<1>2. Monkeys!TypeOK'
  BY <1>1 DEF MonkeyInv, Monkeys!OrphanEnds, Monkeys!TypeOK, Monkeys!Config, Monkeys!Result, Monkeys!Marks, Monkeys!Kinds, Monkeys!Places, Monkeys!TimedOut, Monkeys!MaxAttempts, Monkeys!ConstantsOK
<1>3. MonkeyPaid'
  BY <1>1 DEF MonkeyInv, Monkeys!OrphanEnds, MonkeyPaid, MonkeyRecoveries, Monkeys!MaxAttempts
<1>4. MonkeyAlone'
  BY <1>1 DEF MonkeyInv, Monkeys!OrphanEnds, MonkeyAlone
<1>5. MonkeyHalted'
  BY <1>1 DEF MonkeyInv, Monkeys!OrphanEnds, MonkeyHalted, MonkeyExcused, Monkeys!TypeOK
<1>6. Monkeys!GivesUpOnlyWhenSpent'
  BY <1>1 DEF MonkeyInv, Monkeys!OrphanEnds, Monkeys!GivesUpOnlyWhenSpent, Monkeys!MaxAttempts
<1> QED BY <1>2, <1>3, <1>4, <1>5, <1>6 DEF MonkeyInv

LEMMA MonkeyConnect ==
  ASSUME MonkeyInv, Monkeys!Connect
  PROVE  MonkeyInv'
<1>1. mCircumstance \in Monkeys!Config
  BY MonkeyCircumstance DEF MonkeyInv
<1>2. Monkeys!TypeOK'
  BY <1>1 DEF MonkeyInv, Monkeys!Connect, Monkeys!TypeOK, Monkeys!Config, Monkeys!Result, Monkeys!Marks, Monkeys!Kinds, Monkeys!Places, Monkeys!TimedOut, Monkeys!MaxAttempts, Monkeys!ConstantsOK
<1>3. MonkeyPaid'
  BY <1>1 DEF MonkeyInv, Monkeys!Connect, MonkeyPaid, MonkeyRecoveries, Monkeys!MaxAttempts
<1>4. MonkeyAlone'
  BY <1>1 DEF MonkeyInv, Monkeys!Connect, MonkeyAlone
<1>5. MonkeyHalted'
  BY <1>1 DEF MonkeyInv, Monkeys!Connect, MonkeyHalted, MonkeyExcused, Monkeys!TypeOK
<1>6. Monkeys!GivesUpOnlyWhenSpent'
  BY <1>1 DEF MonkeyInv, Monkeys!Connect, Monkeys!GivesUpOnlyWhenSpent, Monkeys!MaxAttempts
<1> QED BY <1>2, <1>3, <1>4, <1>5, <1>6 DEF MonkeyInv

LEMMA MonkeyStopHost ==
  ASSUME MonkeyInv, Monkeys!StopHost
  PROVE  MonkeyInv'
<1>1. mCircumstance \in Monkeys!Config /\ Monkeys!TypeOK
  BY MonkeyCircumstance DEF MonkeyInv
<1>2. /\ UNCHANGED <<mCircumstance, clock, online, drops, runner, result>>
      /\ stop = "none" /\ stop' = "hosts"
      /\ monkeys' \subseteq monkeys
  BY DEF Monkeys!StopHost
<1>3. \/ UNCHANGED <<host, seen>>
      \/ /\ host = "running" /\ host' = "terminated" /\ seen'.stopped = runner.attempt
         /\ seen'.lost = ~online /\ seen'.marks = seen.marks /\ seen'.reached = seen.reached
         /\ seen' \in [stopped : 0 .. Monkeys!MaxAttempts, marks : SUBSET Monkeys!Marks,
                        lost : BOOLEAN, reached : BOOLEAN]
  BY <1>1 DEF Monkeys!StopHost, Monkeys!TypeOK
<1>4. Monkeys!TypeOK'
  BY <1>1, <1>2, <1>3 DEF Monkeys!TypeOK, Monkeys!ConstantsOK, Monkeys!MaxAttempts
<1>5. MonkeyPaid'
  BY <1>2 DEF MonkeyInv, MonkeyPaid, MonkeyRecoveries, Monkeys!MaxAttempts
<1>6. MonkeyAlone'
  BY <1>2, <1>3 DEF MonkeyInv, MonkeyAlone
<1>7. MonkeyHalted'
  BY <1>1, <1>2, <1>3 DEF MonkeyInv, MonkeyHalted, MonkeyExcused, Monkeys!TypeOK
<1>8. Monkeys!GivesUpOnlyWhenSpent'
  BY <1>2 DEF MonkeyInv, Monkeys!GivesUpOnlyWhenSpent, Monkeys!MaxAttempts
<1> QED BY <1>4, <1>5, <1>6, <1>7, <1>8 DEF MonkeyInv

LEMMA MonkeyStopDevice ==
  ASSUME MonkeyInv, Monkeys!StopDevice
  PROVE  MonkeyInv'
<1>1. mCircumstance \in Monkeys!Config /\ Monkeys!TypeOK
  BY MonkeyCircumstance DEF MonkeyInv
<1>2. /\ UNCHANGED <<mCircumstance, clock, online, drops, runner, host, result, seen>>
      /\ stop = "hosts" /\ stop' = "done" /\ monkeys' \subseteq monkeys
  BY DEF Monkeys!StopDevice
<1>3. Monkeys!TypeOK'
  BY <1>1, <1>2 DEF Monkeys!TypeOK, Monkeys!ConstantsOK, Monkeys!MaxAttempts
<1>4. MonkeyPaid'
  BY <1>2 DEF MonkeyInv, MonkeyPaid, MonkeyRecoveries, Monkeys!MaxAttempts
<1>5. MonkeyAlone'
  BY <1>2 DEF MonkeyInv, MonkeyAlone
<1>6. MonkeyHalted'
  BY <1>2 DEF MonkeyInv, MonkeyHalted, MonkeyExcused
<1>7. Monkeys!GivesUpOnlyWhenSpent'
  BY <1>2 DEF MonkeyInv, Monkeys!GivesUpOnlyWhenSpent, Monkeys!MaxAttempts
<1> QED BY <1>3, <1>4, <1>5, <1>6, <1>7 DEF MonkeyInv

\* A step of the runner to another place, at which it is paid for and nothing runs.
LEMMA MonkeyMoves ==
  ASSUME MonkeyInv, Monkeys!Settled, UNCHANGED <<host, result>>, host = "none",
         monkeys' \subseteq monkeys,
         \/ seen' = seen /\ runner'.at # "launch"
         \/ \E b \in BOOLEAN : seen' = [seen EXCEPT !.reached = b] /\ (b => monkeys' = {}),
         runner' \in MonkeyRunner, runner'.at \notin {"start", "running", "ended", "done"},
         runner'.outcome = runner.outcome, runner.outcome = "none",
         runner.attempt <= runner'.attempt,
         \A k \in Monkeys!Kinds : runner'.count[k] <= mCircumstance.limit[k],
         runner'.attempt = MonkeyRecoveries' + runner'.reconnects + (IF runner'.at \in {"clear", "launch", "reconnect"} THEN 1 ELSE 0),
         runner'.at \notin {"clear", "launch"} => runner'.attempt < Monkeys!MaxAttempts,
         runner'.at \in {"clear", "launch"} => seen.stopped < runner'.attempt,
         seen.stopped # 0 => MonkeyExcused
  PROVE  MonkeyInv'
<1>1. mCircumstance \in Monkeys!Config /\ Monkeys!TypeOK
  BY MonkeyCircumstance DEF MonkeyInv
<1>2. /\ seen'.stopped = seen.stopped /\ seen'.marks = seen.marks /\ seen'.lost = seen.lost
      /\ seen' \in [stopped : 0 .. Monkeys!MaxAttempts, marks : SUBSET Monkeys!Marks,
                     lost : BOOLEAN, reached : BOOLEAN]
  BY <1>1 DEF Monkeys!TypeOK
<1>3. Monkeys!TypeOK'
  BY <1>1, <1>2 DEF MonkeyRunner, Monkeys!Settled, Monkeys!TypeOK, Monkeys!ConstantsOK, Monkeys!Places, Monkeys!MaxAttempts
<1>4. MonkeyPaid'
  <2>1. /\ runner'.attempt \in Nat /\ runner'.reconnects \in Nat /\ MonkeyRecoveries' \in Nat
        /\ runner'.outcome = "none" /\ Monkeys!MaxAttempts' = Monkeys!MaxAttempts
        /\ result' = result /\ mCircumstance' = mCircumstance /\ runner'.at \in Monkeys!Places
    BY <1>1 DEF MonkeyRunner, MonkeyRecoveries, Monkeys!Kinds, Monkeys!Settled, Monkeys!MaxAttempts
  <2>2. "drift" \in result.marks => mCircumstance.guard
    BY DEF MonkeyInv, MonkeyPaid
  <2> QED BY <2>1, <2>2 DEF MonkeyPaid, Monkeys!Places
<1>5. MonkeyAlone'
  BY <1>1 DEF MonkeyInv, MonkeyAlone, Monkeys!TypeOK
<1>6. MonkeyHalted'
  BY <1>1, <1>2 DEF MonkeyInv, MonkeyHalted, MonkeyExcused, Monkeys!Settled, Monkeys!TypeOK, MonkeyRunner
<1>7. Monkeys!GivesUpOnlyWhenSpent'
  BY DEF Monkeys!GivesUpOnlyWhenSpent
<1> QED BY <1>3, <1>4, <1>5, <1>6, <1>7 DEF MonkeyInv

LEMMA MonkeyStart ==
  ASSUME MonkeyInv, Monkeys!Start
  PROVE  MonkeyInv'
<1>1. mCircumstance \in Monkeys!Config /\ Monkeys!TypeOK /\ Monkeys!Settled
  BY MonkeyCircumstance DEF MonkeyInv, Monkeys!Start
<1>2. /\ runner.at = "start" /\ runner.attempt = 0 /\ MonkeyRecoveries + runner.reconnects = 0
      /\ runner.outcome = "none" /\ host = "none" /\ seen.stopped = 0
      /\ UNCHANGED <<monkeys, host, result, seen>>
  BY <1>1 DEF MonkeyInv, Monkeys!Start, MonkeyPaid, MonkeyHalted, Monkeys!TypeOK, Monkeys!Places
<1>3. CASE Monkeys!Go("loop")
  <2>1. /\ runner' \in MonkeyRunner /\ runner'.at = "loop" /\ runner'.attempt = runner.attempt
        /\ runner'.count = runner.count /\ runner'.reconnects = runner.reconnects
        /\ runner'.outcome = runner.outcome
    BY <1>1, <1>3, MonkeyGo DEF Monkeys!Places
  <2>2. \A k \in Monkeys!Kinds : runner'.count[k] <= mCircumstance.limit[k]
    BY <1>1, <2>1 DEF Monkeys!TypeOK
  <2>3. 0 < Monkeys!MaxAttempts
    BY <1>1 DEF Monkeys!MaxAttempts, Monkeys!Config, Monkeys!Kinds
  <2>4. MonkeyRecoveries' = MonkeyRecoveries
    BY <2>1 DEF MonkeyRecoveries
  <2> QED BY <1>1, <1>2, <2>1, <2>2, <2>3, <2>4, MonkeyMoves
<1>4. CASE Monkeys!End("failed") \/ Monkeys!End("offline")
  <2>1. runner'.attempt = 0
    BY <1>1, <1>2, <1>4, MonkeyEnd
  <2>2. Monkeys!GivesUpOnlyWhenSpent'
    BY <2>1 DEF Monkeys!GivesUpOnlyWhenSpent
  <2> QED BY <1>1, <1>2, <1>4, <2>2, MonkeyEnds
<1> QED BY <1>3, <1>4 DEF Monkeys!Start

LEMMA MonkeyBegin ==
  ASSUME MonkeyInv, Monkeys!Begin
  PROVE  MonkeyInv'
<1>1. mCircumstance \in Monkeys!Config /\ Monkeys!TypeOK /\ Monkeys!Settled
  BY MonkeyCircumstance DEF MonkeyInv, Monkeys!Begin
<1>2. /\ runner.at = "loop" /\ runner.attempt = MonkeyRecoveries + runner.reconnects
      /\ runner.attempt < Monkeys!MaxAttempts /\ seen.stopped <= runner.attempt
      /\ runner.outcome = "none" /\ host = "none"
      /\ seen.stopped # 0 => MonkeyExcused
      /\ UNCHANGED <<monkeys, host, result, seen>>
  BY <1>1 DEF MonkeyInv, Monkeys!Begin, MonkeyPaid, MonkeyHalted, Monkeys!TypeOK, Monkeys!Places
<1>3. CASE Monkeys!Late
  <2>1. Monkeys!End("timeout")
    BY <1>3 DEF Monkeys!Begin
  <2> QED BY <1>1, <1>2, <2>1, MonkeyEnds
<1>4. CASE ~Monkeys!Late
  <2>1. runner' = [runner EXCEPT !.at = "clear", !.attempt = @ + 1]
    BY <1>4 DEF Monkeys!Begin
  <2>2. runner.attempt + 1 \in 0 .. Monkeys!MaxAttempts /\ runner.attempt \in Nat /\ seen.stopped \in Nat
    BY <1>1, <1>2 DEF Monkeys!TypeOK, Monkeys!MaxAttempts, Monkeys!Config, Monkeys!Kinds
  <2>3. /\ runner' \in MonkeyRunner /\ runner'.at = "clear" /\ runner'.attempt = runner.attempt + 1
        /\ runner'.count = runner.count /\ runner'.reconnects = runner.reconnects
        /\ runner'.outcome = runner.outcome
    BY <1>1, <2>1, <2>2 DEF Monkeys!TypeOK, MonkeyRunner, Monkeys!Places
  <2>4. \A k \in Monkeys!Kinds : runner'.count[k] <= mCircumstance.limit[k]
    BY <1>1, <2>3 DEF Monkeys!TypeOK
  <2>5. MonkeyRecoveries' = MonkeyRecoveries
    BY <2>3 DEF MonkeyRecoveries
  <2>6. seen.stopped < runner'.attempt /\ runner.attempt <= runner'.attempt
    BY <1>2, <2>2, <2>3
  <2> QED BY <1>1, <1>2, <2>3, <2>4, <2>5, <2>6, MonkeyMoves
<1> QED BY <1>3, <1>4

LEMMA MonkeyClear ==
  ASSUME MonkeyInv, Monkeys!Clear
  PROVE  MonkeyInv'
<1>1. mCircumstance \in Monkeys!Config /\ Monkeys!TypeOK /\ Monkeys!Settled /\ Monkeys!Go("launch")
  BY MonkeyCircumstance DEF MonkeyInv, Monkeys!Clear
<1>2. /\ runner.at = "clear" /\ runner.attempt = MonkeyRecoveries + runner.reconnects + 1
      /\ seen.stopped < runner.attempt
      /\ runner.outcome = "none" /\ host = "none"
      /\ seen.stopped # 0 => MonkeyExcused
      /\ monkeys' = Monkeys!Cleared /\ seen' = [seen EXCEPT !.reached = online]
      /\ UNCHANGED <<host, result>>
  BY <1>1 DEF MonkeyInv, Monkeys!Clear, MonkeyPaid, MonkeyHalted, Monkeys!TypeOK, Monkeys!Places
<1>3. /\ runner' \in MonkeyRunner /\ runner'.at = "launch" /\ runner'.attempt = runner.attempt
      /\ runner'.count = runner.count /\ runner'.reconnects = runner.reconnects
      /\ runner'.outcome = runner.outcome
  BY <1>1, MonkeyGo DEF Monkeys!Places
<1>4. \A k \in Monkeys!Kinds : runner'.count[k] <= mCircumstance.limit[k]
  BY <1>1, <1>3 DEF Monkeys!TypeOK
<1>5. MonkeyRecoveries' = MonkeyRecoveries
  BY <1>3 DEF MonkeyRecoveries
<1>6. /\ online \in BOOLEAN /\ seen' = [seen EXCEPT !.reached = online]
      /\ online => monkeys' = {}
      /\ monkeys' \subseteq monkeys
  BY <1>1, <1>2 DEF Monkeys!TypeOK, Monkeys!Cleared
<1>7. \E b \in BOOLEAN : seen' = [seen EXCEPT !.reached = b] /\ (b => monkeys' = {})
  BY <1>6
<1>8. runner'.attempt = MonkeyRecoveries' + runner'.reconnects + 1 /\ runner.attempt <= runner'.attempt
  BY <1>1, <1>2, <1>3, <1>5 DEF Monkeys!TypeOK
<1> QED BY <1>1, <1>2, <1>3, <1>4, <1>5, <1>6, <1>7, <1>8, MonkeyMoves

LEMMA MonkeyRecover ==
  ASSUME MonkeyInv, Monkeys!Recover
  PROVE  MonkeyInv'
<1>1. mCircumstance \in Monkeys!Config /\ Monkeys!TypeOK /\ Monkeys!Settled /\ Monkeys!Go("loop")
  BY MonkeyCircumstance DEF MonkeyInv, Monkeys!Recover
<1>2. /\ runner.at = "recover" /\ runner.attempt = MonkeyRecoveries + runner.reconnects
      /\ runner.attempt < Monkeys!MaxAttempts
      /\ runner.outcome = "none" /\ host = "none"
      /\ seen.stopped # 0 => MonkeyExcused
      /\ monkeys' = Monkeys!Cleared
      /\ UNCHANGED <<host, result, seen>>
  BY <1>1 DEF MonkeyInv, Monkeys!Recover, MonkeyPaid, MonkeyHalted, Monkeys!TypeOK, Monkeys!Places
<1>3. /\ runner' \in MonkeyRunner /\ runner'.at = "loop" /\ runner'.attempt = runner.attempt
      /\ runner'.count = runner.count /\ runner'.reconnects = runner.reconnects
      /\ runner'.outcome = runner.outcome
  BY <1>1, MonkeyGo DEF Monkeys!Places
<1>4. \A k \in Monkeys!Kinds : runner'.count[k] <= mCircumstance.limit[k]
  BY <1>1, <1>3 DEF Monkeys!TypeOK
<1>5. MonkeyRecoveries' = MonkeyRecoveries
  BY <1>3 DEF MonkeyRecoveries
<1>6. monkeys' \subseteq monkeys
  BY <1>2 DEF Monkeys!Cleared
<1>7. /\ runner'.attempt = MonkeyRecoveries' + runner'.reconnects + 0 /\ runner.attempt <= runner'.attempt
      /\ runner'.attempt < Monkeys!MaxAttempts
  BY <1>1, <1>2, <1>3, <1>5 DEF Monkeys!TypeOK, MonkeyRecoveries, Monkeys!Kinds
<1> QED BY <1>1, <1>2, <1>3, <1>4, <1>6, <1>7, MonkeyMoves

LEMMA MonkeyWait ==
  ASSUME MonkeyInv, Monkeys!Wait
  PROVE  MonkeyInv'
<1>1. mCircumstance \in Monkeys!Config /\ Monkeys!TypeOK /\ Monkeys!Settled
  BY MonkeyCircumstance DEF MonkeyInv, Monkeys!Wait
<1>2. /\ runner.at = "wait" /\ runner.attempt = MonkeyRecoveries + runner.reconnects
      /\ runner.attempt < Monkeys!MaxAttempts
      /\ runner.outcome = "none" /\ host = "none"
      /\ seen.stopped # 0 => MonkeyExcused
      /\ UNCHANGED <<monkeys, host, result, seen>>
  BY <1>1 DEF MonkeyInv, Monkeys!Wait, MonkeyPaid, MonkeyHalted, Monkeys!TypeOK, Monkeys!Places
<1>3. CASE Monkeys!Go("recover")
  <2>1. /\ runner' \in MonkeyRunner /\ runner'.at = "recover" /\ runner'.attempt = runner.attempt
        /\ runner'.count = runner.count /\ runner'.reconnects = runner.reconnects
        /\ runner'.outcome = runner.outcome
    BY <1>1, <1>3, MonkeyGo DEF Monkeys!Places
  <2>2. \A k \in Monkeys!Kinds : runner'.count[k] <= mCircumstance.limit[k]
    BY <1>1, <2>1 DEF Monkeys!TypeOK
  <2>3. MonkeyRecoveries' = MonkeyRecoveries
    BY <2>1 DEF MonkeyRecoveries
  <2>4. /\ runner'.attempt = MonkeyRecoveries' + runner'.reconnects + 0 /\ runner.attempt <= runner'.attempt
        /\ runner'.attempt < Monkeys!MaxAttempts
    BY <1>1, <1>2, <2>1, <2>3 DEF Monkeys!TypeOK, MonkeyRecoveries, Monkeys!Kinds
  <2> QED BY <1>1, <1>2, <2>1, <2>2, <2>4, MonkeyMoves
<1>4. CASE Monkeys!End("offline")
  BY <1>1, <1>2, <1>4, MonkeyEnds
<1> QED BY <1>3, <1>4 DEF Monkeys!Wait

LEMMA MonkeyReconnect ==
  ASSUME MonkeyInv, Monkeys!Reconnect
  PROVE  MonkeyInv'
<1>1. mCircumstance \in Monkeys!Config /\ Monkeys!TypeOK /\ Monkeys!Settled
  BY MonkeyCircumstance DEF MonkeyInv, Monkeys!Reconnect
<1>2. /\ runner.at = "reconnect" /\ runner.attempt = MonkeyRecoveries + runner.reconnects + 1
      /\ runner.attempt < Monkeys!MaxAttempts
      /\ runner.outcome = "none" /\ host = "none"
      /\ seen.stopped # 0 => MonkeyExcused
      /\ UNCHANGED <<monkeys, host, result, seen>>
  BY <1>1 DEF MonkeyInv, Monkeys!Reconnect, MonkeyPaid, MonkeyHalted, Monkeys!TypeOK, Monkeys!Places
<1>3. CASE online
  <2>1. runner' = [runner EXCEPT !.at = "loop", !.reconnects = @ + 1]
    BY <1>3 DEF Monkeys!Reconnect
  <2>0. runner \in MonkeyRunner /\ runner.reconnects + 1 \in Nat
    BY <1>1 DEF Monkeys!TypeOK, MonkeyRunner
  <2>2. /\ runner' \in MonkeyRunner /\ runner'.at = "loop" /\ runner'.attempt = runner.attempt
        /\ runner'.count = runner.count /\ runner'.reconnects = runner.reconnects + 1
        /\ runner'.outcome = runner.outcome
    BY <2>0, <2>1 DEF MonkeyRunner, Monkeys!Places
  <2>3. \A k \in Monkeys!Kinds : runner'.count[k] <= mCircumstance.limit[k]
    BY <1>1, <2>2 DEF Monkeys!TypeOK
  <2>4. MonkeyRecoveries' = MonkeyRecoveries
    BY <2>2 DEF MonkeyRecoveries
  <2>5. /\ runner'.attempt = MonkeyRecoveries' + runner'.reconnects + 0 /\ runner.attempt <= runner'.attempt
        /\ runner'.attempt < Monkeys!MaxAttempts
    BY <1>1, <1>2, <2>2, <2>4 DEF Monkeys!TypeOK, MonkeyRecoveries, Monkeys!Kinds
  <2> QED BY <1>1, <1>2, <2>2, <2>3, <2>5, MonkeyMoves
<1>4. CASE ~online
  <2>1. Monkeys!End("offline")
    BY <1>4 DEF Monkeys!Reconnect
  <2> QED BY <1>1, <1>2, <2>1, MonkeyEnds
<1> QED BY <1>3, <1>4

LEMMA MonkeyLaunch ==
  ASSUME MonkeyInv, Monkeys!Launch
  PROVE  MonkeyInv'
<1>1. mCircumstance \in Monkeys!Config /\ Monkeys!TypeOK /\ Monkeys!Settled
  BY MonkeyCircumstance DEF MonkeyInv, Monkeys!Launch
<1>2. /\ runner.at = "launch" /\ host' = "running" /\ runner' = [runner EXCEPT !.at = "running", !.since = clock]
      /\ monkeys' = IF online THEN monkeys \cup {runner.attempt} ELSE monkeys
      /\ UNCHANGED <<result, seen>>
  BY DEF Monkeys!Launch
<1>3. /\ runner' \in MonkeyRunner /\ runner'.at = "running" /\ runner'.attempt = runner.attempt
      /\ runner'.count = runner.count /\ runner'.reconnects = runner.reconnects
      /\ runner'.outcome = runner.outcome
  <2>1. clock \in Nat /\ runner \in MonkeyRunner
    BY <1>1 DEF Monkeys!TypeOK, MonkeyRunner
  <2> QED BY <1>2, <2>1 DEF MonkeyRunner, Monkeys!Places
<1>4. Monkeys!TypeOK'
  BY <1>1, <1>2, <1>3 DEF MonkeyRunner, Monkeys!Settled, Monkeys!TypeOK, Monkeys!ConstantsOK, Monkeys!MaxAttempts
<1>5. MonkeyPaid'
  BY <1>1, <1>2, <1>3 DEF MonkeyInv, MonkeyPaid, MonkeyRecoveries, Monkeys!Settled, Monkeys!MaxAttempts
<1>6. MonkeyAlone'
  BY <1>1, <1>2, <1>3 DEF MonkeyInv, MonkeyAlone
<1>7. MonkeyHalted'
  BY <1>1, <1>2, <1>3 DEF MonkeyInv, MonkeyHalted, MonkeyExcused, Monkeys!Settled, Monkeys!TypeOK
<1>8. Monkeys!GivesUpOnlyWhenSpent'
  BY <1>1, <1>2, <1>3 DEF MonkeyInv, MonkeyPaid, Monkeys!GivesUpOnlyWhenSpent
<1> QED BY <1>4, <1>5, <1>6, <1>7, <1>8 DEF MonkeyInv

\* The command ends.
LEMMA MonkeyEnding ==
  ASSUME MonkeyInv, NEW code \in {Monkeys!TimedOut, 0, 1, 245, 255}, NEW marks \in SUBSET Monkeys!Marks,
         NEW remain \in SUBSET monkeys, Monkeys!Ending(code, marks, remain), runner.at = "running",
         "drift" \in marks => mCircumstance.guard,
         host = "terminated" => code = 1 \/ marks # {}
  PROVE  MonkeyInv'
<1>1. mCircumstance \in Monkeys!Config /\ Monkeys!TypeOK /\ Monkeys!Settled
  BY MonkeyCircumstance DEF MonkeyInv, Monkeys!Ending
<1>2. /\ runner' \in MonkeyRunner /\ runner'.at = "ended" /\ runner'.attempt = runner.attempt
      /\ runner'.count = runner.count /\ runner'.reconnects = runner.reconnects
      /\ runner'.outcome = runner.outcome
  BY <1>1, MonkeyGo DEF Monkeys!Ending, Monkeys!Places
<1>3. PICK noise \in SUBSET mCircumstance.noisy :
        /\ result' = [code |-> code, marks |-> marks \cup noise]
        /\ seen' = IF seen.stopped = runner.attempt THEN [seen EXCEPT !.marks = marks \cup noise]
                   ELSE seen
  BY DEF Monkeys!Ending
<1>4. noise \subseteq {"inject", "closed"} /\ marks \cup noise \in SUBSET Monkeys!Marks
  BY <1>1, <1>3 DEF Monkeys!Marks, Monkeys!Config
<1>5. monkeys' = remain /\ host' = "none"
  BY DEF Monkeys!Ending
<1>6. /\ seen'.stopped = seen.stopped /\ seen'.lost = seen.lost /\ seen'.reached = seen.reached
      /\ seen'.marks = IF seen.stopped = runner.attempt THEN marks \cup noise ELSE seen.marks
      /\ seen' \in [stopped : 0 .. Monkeys!MaxAttempts, marks : SUBSET Monkeys!Marks,
                     lost : BOOLEAN, reached : BOOLEAN]
  BY <1>1, <1>3, <1>4 DEF Monkeys!TypeOK
<1>7. Monkeys!TypeOK'
  BY <1>1, <1>2, <1>3, <1>4, <1>5, <1>6
  DEF MonkeyRunner, Monkeys!Settled, Monkeys!TypeOK, Monkeys!ConstantsOK, Monkeys!MaxAttempts, Monkeys!Result
<1>8. MonkeyPaid'
  BY <1>1, <1>2, <1>3, <1>4
  DEF MonkeyInv, MonkeyPaid, MonkeyRecoveries, Monkeys!Settled, Monkeys!MaxAttempts
<1>9. MonkeyAlone'
  BY <1>2 DEF MonkeyAlone
<1>10. MonkeyHalted'
  <2>1. seen.stopped # 0 /\ runner.attempt = seen.stopped => host = "terminated"
    BY <1>1 DEF MonkeyInv, MonkeyHalted, Monkeys!TypeOK
  <2>2. seen'.stopped # 0 /\ runner'.attempt = seen'.stopped =>
          result'.marks = seen'.marks /\ (result'.code = 1 \/ result'.marks # {})
    BY <1>2, <1>3, <1>4, <1>6, <2>1
  <2>3. seen.stopped # 0 /\ runner.attempt > seen.stopped => MonkeyExcused'
    BY <1>1, <1>6 DEF MonkeyInv, MonkeyHalted, MonkeyExcused, Monkeys!TypeOK
  <2> QED
    BY <1>1, <1>2, <1>5, <1>6, <2>2, <2>3 DEF MonkeyInv, MonkeyHalted, Monkeys!Settled
<1>11. Monkeys!GivesUpOnlyWhenSpent'
  BY <1>1, <1>2 DEF MonkeyInv, MonkeyPaid, Monkeys!GivesUpOnlyWhenSpent
<1> QED BY <1>7, <1>8, <1>9, <1>10, <1>11 DEF MonkeyInv

LEMMA MonkeyCommandEnds ==
  ASSUME MonkeyInv,
         Monkeys!Finish \/ Monkeys!Lose \/ Monkeys!Drift \/ Monkeys!TimeOut \/ Monkeys!Stopped
  PROVE  MonkeyInv'
<1>1. CASE Monkeys!Finish
  <2>1. PICK code \in {0, 1} : Monkeys!Ending(code, {}, monkeys \ {runner.attempt})
    BY <1>1 DEF Monkeys!Finish
  <2>2. monkeys \ {runner.attempt} \in SUBSET monkeys
    OBVIOUS
  <2> QED BY <1>1, <2>1, <2>2, MonkeyEnding DEF Monkeys!Finish, Monkeys!Running
<1>2. CASE Monkeys!Lose
  <2>1. PICK code \in {1, 255}, marks \in SUBSET {"closed"} : Monkeys!Ending(code, marks, monkeys)
    BY <1>2 DEF Monkeys!Lose
  <2>2. marks \in SUBSET Monkeys!Marks /\ "drift" \notin marks
    BY DEF Monkeys!Marks
  <2> QED BY <1>2, <2>1, <2>2, MonkeyEnding DEF Monkeys!Lose, Monkeys!Running
<1>3. CASE Monkeys!Drift
  <2>1. {"drift"} \in SUBSET Monkeys!Marks /\ {} \in SUBSET monkeys
    BY DEF Monkeys!Marks
  <2> QED BY <1>3, <2>1, MonkeyEnding DEF Monkeys!Drift, Monkeys!Running
<1>4. CASE Monkeys!TimeOut
  <2>1. PICK remain \in (IF mCircumstance.guard THEN {Monkeys!Cleared} ELSE {monkeys, monkeys \ {runner.attempt}}) :
          Monkeys!Ending(Monkeys!TimedOut, {}, remain)
    BY <1>4 DEF Monkeys!TimeOut
  <2>2. remain \in SUBSET monkeys
    BY DEF Monkeys!Cleared
  <2> QED BY <1>4, <2>1, <2>2, MonkeyEnding DEF Monkeys!TimeOut, Monkeys!Running
<1>5. CASE Monkeys!Stopped
  BY <1>5, MonkeyEnding DEF Monkeys!Stopped
<1> QED BY <1>1, <1>2, <1>3, <1>4, <1>5

\* Another recovery, within its budget.
LEMMA MonkeyRecovers ==
  ASSUME MonkeyInv, runner.at = "ended", Monkeys!Settled, UNCHANGED <<monkeys, host, result, seen>>,
         NEW kind \in Monkeys!Kinds, NEW place \in {"recover", "wait"},
         Monkeys!Again(kind), Monkeys!Recovering(kind, place), seen.stopped # 0 => MonkeyExcused
  PROVE  MonkeyInv'
<1>1. mCircumstance \in Monkeys!Config /\ Monkeys!TypeOK
  BY MonkeyCircumstance DEF MonkeyInv
<1>2. /\ runner.attempt = MonkeyRecoveries + runner.reconnects + 1 /\ host = "none"
      /\ runner.outcome = "none"
  BY <1>1 DEF MonkeyInv, MonkeyPaid, MonkeyHalted, Monkeys!TypeOK
<1>3. /\ runner.attempt < Monkeys!MaxAttempts /\ runner.count[kind] < mCircumstance.limit[kind]
  BY DEF Monkeys!Again
<1>4. place \in Monkeys!Places
  BY DEF Monkeys!Places
<1>5. /\ runner' \in MonkeyRunner /\ runner'.at = place
      /\ runner'.attempt = runner.attempt
      /\ runner'.count[kind] = runner.count[kind] + 1
      /\ \A k \in Monkeys!Kinds \ {kind} : runner'.count[k] = runner.count[k]
      /\ runner'.reconnects = runner.reconnects /\ runner'.outcome = runner.outcome
  BY <1>1, <1>4, MonkeyRecovering
<1>6. /\ \A k \in Monkeys!Kinds : runner.count[k] \in Nat /\ mCircumstance.limit[k] \in Nat
      /\ \A k \in Monkeys!Kinds : runner.count[k] <= mCircumstance.limit[k]
      /\ runner.attempt \in Nat /\ runner.reconnects \in Nat
  BY <1>1 DEF Monkeys!TypeOK, Monkeys!Config
<1>7. \A k \in Monkeys!Kinds : runner'.count[k] <= mCircumstance.limit[k]
  BY <1>3, <1>5, <1>6
<1>8. MonkeyRecoveries' = MonkeyRecoveries + 1
  BY <1>5, <1>6 DEF MonkeyRecoveries, Monkeys!Kinds
<1>9. MonkeyRecoveries \in Nat
  BY <1>6 DEF MonkeyRecoveries, Monkeys!Kinds
<1>10. /\ runner'.attempt = MonkeyRecoveries' + runner'.reconnects + 0
       /\ runner.attempt <= runner'.attempt /\ runner'.attempt < Monkeys!MaxAttempts
  BY <1>2, <1>3, <1>5, <1>6, <1>8, <1>9
<1> QED BY <1>2, <1>5, <1>7, <1>10, MonkeyMoves

LEMMA MonkeyJudge ==
  ASSUME MonkeyInv, Monkeys!Judge
  PROVE  MonkeyInv'
<1>1. mCircumstance \in Monkeys!Config /\ Monkeys!TypeOK /\ Monkeys!Settled
  BY MonkeyCircumstance DEF MonkeyInv, Monkeys!Judge
<1>2. runner.at = "ended" /\ UNCHANGED <<monkeys, host, result, seen>>
  BY DEF Monkeys!Judge
<1>3. /\ runner.attempt = MonkeyRecoveries + runner.reconnects + 1 /\ host = "none"
      /\ runner.outcome = "none"
  BY <1>1, <1>2 DEF MonkeyInv, MonkeyPaid, MonkeyHalted, Monkeys!TypeOK
<1>4. seen.stopped # 0 /\ ~MonkeyExcused =>
        result.code = 1 /\ result.marks = {} /\ online
  BY <1>1, <1>2 DEF MonkeyInv, MonkeyHalted, MonkeyExcused, Monkeys!TypeOK
<1>5. CASE Monkeys!End("timeout")
  BY <1>1, <1>2, <1>5, MonkeyEnds
<1>6. CASE Monkeys!AfterInject /\ Monkeys!Recovering("inject", "recover")
  BY <1>1, <1>2, <1>4, <1>6, MonkeyRecovers DEF Monkeys!AfterInject, Monkeys!Kinds
<1>7. CASE Monkeys!AfterDrift /\ Monkeys!Recovering("drift", "recover")
  BY <1>1, <1>2, <1>4, <1>7, MonkeyRecovers DEF Monkeys!AfterDrift, Monkeys!Kinds
<1>8. CASE Monkeys!AfterTransport /\ Monkeys!Recovering("transport", "wait")
  BY <1>1, <1>2, <1>4, <1>8, MonkeyRecovers DEF Monkeys!AfterTransport, Monkeys!LooksLost, Monkeys!Kinds
<1>9. CASE Monkeys!AfterDisconnect /\ Monkeys!Go("reconnect")
  <2>1. /\ runner' \in MonkeyRunner /\ runner'.at = "reconnect" /\ runner'.attempt = runner.attempt
        /\ runner'.count = runner.count /\ runner'.reconnects = runner.reconnects
        /\ runner'.outcome = runner.outcome
    BY <1>1, <1>9, MonkeyGo DEF Monkeys!Places
  <2>2. \A k \in Monkeys!Kinds : runner'.count[k] <= mCircumstance.limit[k]
    BY <1>1, <2>1 DEF Monkeys!TypeOK
  <2>3. MonkeyRecoveries' = MonkeyRecoveries
    BY <2>1 DEF MonkeyRecoveries
  <2>4. /\ runner'.attempt = MonkeyRecoveries' + runner'.reconnects + 1 /\ runner.attempt <= runner'.attempt
        /\ runner'.attempt < Monkeys!MaxAttempts
    BY <1>1, <1>3, <1>9, <2>1, <2>3 DEF Monkeys!AfterDisconnect, Monkeys!TypeOK
  <2>5. seen.stopped # 0 => MonkeyExcused
    BY <1>4, <1>9 DEF Monkeys!AfterDisconnect, Monkeys!LooksLost
  <2> QED BY <1>1, <1>2, <1>3, <2>1, <2>2, <2>4, <2>5, MonkeyMoves
<1>10. CASE /\ ~Monkeys!AfterInject /\ ~Monkeys!AfterDrift /\ Monkeys!End(Monkeys!Outcome)
  <2>1. Monkeys!Outcome \in {"success", "failed", "timeout", "offline"}
    BY DEF Monkeys!Outcome
  <2>2. /\ runner'.count = runner.count /\ runner'.attempt = runner.attempt
        /\ runner'.reconnects = runner.reconnects
    BY <1>1, <1>10, <2>1, MonkeyEnd
  <2>3. /\ \A k \in Monkeys!Kinds : runner.count[k] \in Nat /\ mCircumstance.limit[k] \in Nat
        /\ \A k \in Monkeys!Kinds : runner.count[k] <= mCircumstance.limit[k]
        /\ runner.attempt \in 0 .. Monkeys!MaxAttempts /\ runner.reconnects \in Nat
    BY <1>1 DEF Monkeys!TypeOK, Monkeys!Config
  <2>4. ASSUME NEW k \in Monkeys!Kinds \ {"transport"}, k \in result.marks,
               k = "drift" \/ k \in mCircumstance.recover
        PROVE  \/ runner.count[k] = mCircumstance.limit[k]
               \/ runner.attempt = Monkeys!MaxAttempts /\ runner.reconnects > 0
    <3>1. "drift" \in result.marks => mCircumstance.guard
      BY DEF MonkeyInv, MonkeyPaid
    <3>2. ~Monkeys!Again(k)
      BY <1>10, <2>4 DEF Monkeys!AfterInject, Monkeys!AfterDrift, Monkeys!Kinds
    <3>3. ~(runner.attempt < Monkeys!MaxAttempts /\ runner.count[k] < mCircumstance.limit[k])
      BY <2>4, <3>1, <3>2 DEF Monkeys!Again
    <3>4. CASE ~(runner.count[k] < mCircumstance.limit[k])
      BY <2>3, <3>4
    <3>5. CASE ~(runner.attempt < Monkeys!MaxAttempts) /\ runner.reconnects = 0
      BY <1>3, <2>3, <3>5 DEF MonkeyRecoveries, Monkeys!MaxAttempts, Monkeys!Kinds
    <3>6. CASE ~(runner.attempt < Monkeys!MaxAttempts) /\ runner.reconnects > 0
      <4>1. Monkeys!MaxAttempts \in Nat
        BY <2>3 DEF Monkeys!MaxAttempts, Monkeys!Kinds
      <4> QED BY <2>3, <3>6, <4>1
    <3> QED BY <2>3, <3>3, <3>4, <3>5, <3>6
  <2>5. Monkeys!GivesUpOnlyWhenSpent'
    BY <1>1, <1>2, <2>2, <2>4 DEF Monkeys!GivesUpOnlyWhenSpent, Monkeys!Settled, Monkeys!MaxAttempts
  <2> QED BY <1>1, <1>2, <1>10, <2>1, <2>5, MonkeyEnds
<1> QED BY <1>5, <1>6, <1>7, <1>8, <1>9, <1>10 DEF Monkeys!Judge

LEMMA MonkeyStep ==
  ASSUME MonkeyInv, [Monkeys!Next]_(Monkeys!vars)
  PROVE  MonkeyInv'
<1>1. CASE UNCHANGED Monkeys!vars
  <2>1. UNCHANGED <<mCircumstance, clock, online, drops, monkeys, runner, host, result, stop, seen>>
    BY <1>1 DEF Monkeys!vars
  <2>2. Monkeys!TypeOK'
    BY <2>1 DEF MonkeyInv, Monkeys!TypeOK, Monkeys!ConstantsOK, Monkeys!MaxAttempts
  <2>3. MonkeyPaid' /\ MonkeyAlone' /\ MonkeyHalted' /\ Monkeys!GivesUpOnlyWhenSpent'
    BY <2>1 DEF MonkeyInv, MonkeyPaid, MonkeyRecoveries, MonkeyAlone, MonkeyHalted, MonkeyExcused,
       Monkeys!GivesUpOnlyWhenSpent, Monkeys!MaxAttempts
  <2> QED BY <2>2, <2>3 DEF MonkeyInv
<1> QED
  BY <1>1, MonkeyTick, MonkeyComeOrGo, MonkeyOrphanEnds, MonkeyStopHost, MonkeyStopDevice, MonkeyStart,
     MonkeyConnect, MonkeyBegin, MonkeyClear, MonkeyLaunch, MonkeyCommandEnds, MonkeyJudge, MonkeyRecover,
     MonkeyWait, MonkeyReconnect
  DEF Monkeys!Next

LEMMA MonkeyInvariant ==
  ASSUME Monkeys!ConstantsOK
  PROVE  Monkeys!Spec => []MonkeyInv
<1>1. Monkeys!Init => MonkeyInv
  BY MonkeyInit
<1> QED BY <1>1, MonkeyStep, PTL DEF Monkeys!Spec

LEMMA MonkeyInvSafe ==
  ASSUME MonkeyInv
  PROVE  MonkeySafe
<1>1. Monkeys!AloneAfterClearing
  BY DEF MonkeyInv, MonkeyAlone, Monkeys!AloneAfterClearing
<1>2. Monkeys!GivesUpOnlyWhenSpent
  BY DEF MonkeyInv
<1>3. Monkeys!StopHolds
  BY DEF MonkeyInv, MonkeyHalted, MonkeyExcused, Monkeys!StopHolds
<1> QED BY <1>1, <1>2, <1>3 DEF MonkeySafe, Monkeys!MonkeySafe

-----------------------------------------------------------------------------
(* Submissions.                                                            *)

SubmissionEvent ==
  [run : Nat \ {0}, runStatus : Submissions!RunStatus,
   status : {"received", "run_created", "executed", "admission_synced"},
   synced : Submissions!Decisions \cup {"none"}]
\* Each record is of a run of its own, of the runs there are.
SubmissionFile(file, known) ==
  /\ file \subseteq Submissions!Record
  /\ \A r, s \in file : r.run = s.run => r = s
  /\ \A r \in file : r.run \in known
SubmissionTypes ==
  /\ Submissions!TypeOK
  /\ request \in [Requesters -> Submissions!Command]
  /\ SubmissionFile(records, DOMAIN runs) /\ events \in Seq(SubmissionEvent)
  /\ \A p \in Requesters :
       request[p] # Submissions!Idle =>
         /\ p \in sCircumstance.requesters
         /\ request[p].new.run \in DOMAIN runs
         /\ SubmissionFile(request[p].saved, DOMAIN runs)
\* The last word on a record.
SubmissionTold(r) ==
  \E i \in DOMAIN events :
    events[i] = Submissions!Event(r) /\ \A j \in DOMAIN events : j > i => events[j].run # r.run
\* Two at work on one submission have crossed.  Unless a file was written over what was
\* not read: who is about to announce has its record, which is as it is told if nobody
\* crossed it, and every other record nobody crossed has been announced as it is.
SubmissionCrossing ==
  \A p, q \in Requesters :
    /\ p # q /\ request[p] # Submissions!Idle /\ request[q] # Submissions!Idle
    /\ request[p].new.run = request[q].new.run
    => request[p].new.run \in mishap.crossed
SubmissionAnnounced ==
  \A i \in DOMAIN events : \E r \in records : r.run = events[i].run
SubmissionAnnouncing ==
  \A q \in Requesters :
    request[q].at = "announce" =>
      /\ \E r \in records : r.run = request[q].new.run
      /\ request[q].new.run \notin mishap.crossed => request[q].new \in records
SubmissionToldOrTelling ==
  \A r \in records :
    r.run \notin mishap.crossed =>
      SubmissionTold(r) \/ \E q \in Requesters : request[q].at = "announce" /\ request[q].new = r
SubmissionOrder ==
  /\ SubmissionCrossing
  /\ ~mishap.stale => SubmissionAnnounced /\ SubmissionAnnouncing /\ SubmissionToldOrTelling
\* What a record, or an event, says of its run, which has the given ends.
SubmissionAgrees(ends, r) ==
  r.runStatus \in Submissions!Ended \ {"failed"} => ends[r.run] = r.runStatus
SubmissionSound(ends, r) ==
  /\ SubmissionAgrees(ends, r)
  /\ r.status = Submissions!Status(r.immediate, r.runStatus, r.synced # "none")
SubmissionHonest(ends, c) ==
  /\ SubmissionSound(ends, c.new) /\ \A r \in c.saved : SubmissionSound(ends, r)
  /\ c.at = "execute" => c.new.immediate = TRUE /\ c.new.synced = "none"
SubmissionTruth ==
  /\ \A r \in records : SubmissionSound(runs, r)
  /\ \A i \in DOMAIN events : SubmissionAgrees(runs, events[i])
  /\ \A p \in Requesters : request[p] # Submissions!Idle => SubmissionHonest(runs, request[p])
SubmissionInv == SubmissionTypes /\ SubmissionOrder /\ SubmissionTruth

LEMMA SubmissionIdle ==
  ASSUME SubmissionTypes, NEW p \in Requesters
  PROVE  /\ Submissions!Idle.at = "idle"
         /\ request[p] = Submissions!Idle <=> request[p].at = "idle"
         /\ request[p] # Submissions!Idle =>
              /\ request[p].at \in {"execute", "load", "save", "announce"}
              /\ request[p].new \in Submissions!Record /\ request[p].old \in Submissions!Record
              /\ request[p].saved \in SUBSET Submissions!Record
              /\ request[p] \in [at : {"execute"}, old : Submissions!Record, new : Submissions!Record, saved : {{}}]
                 \cup [at : {"load", "save", "announce"}, old : Submissions!Record, new : Submissions!Record,
                       saved : SUBSET Submissions!Record]
BY DEF SubmissionTypes, Submissions!Command, Submissions!Idle

LEMMA SubmissionInit ==
  ASSUME Submissions!ConstantsOK, Submissions!Init
  PROVE  SubmissionInv
<1>1. runs = <<>> /\ events = <<>> /\ records = {} /\ request = [p \in Requesters |-> Submissions!Idle]
  BY DEF Submissions!Init
<1>2. sCircumstance \in SubmissionCircumstances /\ sCircumstance.submissions \in Nat /\ sCircumstance.syncs \in Nat
  BY DEF Submissions!Init, Submissions!ConstantsOK
<1>3. Submissions!TypeOK
  BY <1>1, <1>2 DEF Submissions!Init, Submissions!TypeOK
<1>4. SubmissionTypes
  BY <1>1, <1>3 DEF SubmissionTypes, SubmissionFile, Submissions!Command
<1>5. SubmissionOrder
  BY <1>1 DEF SubmissionOrder, SubmissionCrossing, SubmissionAnnounced, SubmissionAnnouncing,
     SubmissionToldOrTelling, Submissions!Idle
<1>6. SubmissionTruth
  BY <1>1 DEF SubmissionTruth
<1> QED BY <1>4, <1>5, <1>6 DEF SubmissionInv

LEMMA SubmissionFileGrows ==
  ASSUME NEW file, NEW known, NEW more, known \subseteq more, SubmissionFile(file, known)
  PROVE  SubmissionFile(file, more)
BY DEF SubmissionFile

\* A requester goes on, and the files are as they were.
LEMMA SubmissionTypesKept ==
  ASSUME SubmissionTypes, UNCHANGED <<sCircumstance, decision, records, events>>,
         runs' \in Seq(Submissions!RunStatus), DOMAIN runs \subseteq DOMAIN runs',
         sLeft' \in [submissions : 0 .. sCircumstance.submissions, syncs : 0 .. sCircumstance.syncs],
         mishap' \in [stale : BOOLEAN, crossed : SUBSET DOMAIN runs'],
         NEW p \in Requesters, NEW c \in Submissions!Command,
         request' = [request EXCEPT ![p] = c],
         c # Submissions!Idle =>
           /\ p \in sCircumstance.requesters /\ c.new.run \in DOMAIN runs'
           /\ c.new \in Submissions!Record /\ c.old \in Submissions!Record
           /\ SubmissionFile(c.saved, DOMAIN runs')
  PROVE  SubmissionTypes'
<1>1. request' \in [Requesters -> Submissions!Command]
  BY DEF SubmissionTypes
<1>2. SubmissionFile(records', DOMAIN runs')
  BY SubmissionFileGrows DEF SubmissionTypes
<1>3. ASSUME NEW q \in Requesters, request'[q] # Submissions!Idle
      PROVE  /\ q \in sCircumstance.requesters /\ request'[q].new.run \in DOMAIN runs'
             /\ SubmissionFile(request'[q].saved, DOMAIN runs')
             /\ request'[q].new \in Submissions!Record /\ request'[q].old \in Submissions!Record
  <2>1. CASE q = p
    BY <1>3, <2>1 DEF SubmissionTypes
  <2>2. CASE q # p
    <3>1. request'[q] = request[q] /\ request[q] # Submissions!Idle
      BY <1>3, <2>2 DEF SubmissionTypes
    <3>2. SubmissionFile(request[q].saved, DOMAIN runs')
      BY <3>1, SubmissionFileGrows DEF SubmissionTypes
    <3> QED BY <3>1, <3>2, SubmissionIdle DEF SubmissionTypes
  <2> QED BY <2>1, <2>2
<1>4. Submissions!Idle' = Submissions!Idle
  BY DEF Submissions!Idle
<1>5. Submissions!TypeOK'
  BY <1>2, <1>3, <1>4 DEF SubmissionTypes, Submissions!TypeOK, Submissions!ConstantsOK, SubmissionFile
<1> QED BY <1>1, <1>2, <1>3, <1>4, <1>5 DEF SubmissionTypes

LEMMA SubmissionOrderKept ==
  ASSUME SubmissionTypes, SubmissionOrder, UNCHANGED <<records, events>>,
         mishap'.stale = mishap.stale, mishap.crossed \subseteq mishap'.crossed,
         NEW p \in Requesters, NEW c, request' = [request EXCEPT ![p] = c],
         request[p].at # "announce", c.at # "announce",
         \A q \in Requesters \ {p} :
           c # Submissions!Idle /\ request[q] # Submissions!Idle /\ request[q].new.run = c.new.run =>
             c.new.run \in mishap'.crossed
  PROVE  SubmissionOrder'
<1>1. \A q \in Requesters : request'[q] = IF q = p THEN c ELSE request[q]
  BY DEF SubmissionTypes
<1>2. Submissions!Idle' = Submissions!Idle
  BY DEF Submissions!Idle
<1>3. SubmissionCrossing'
  BY <1>1, <1>2 DEF SubmissionOrder, SubmissionCrossing
<1>4. ASSUME ~mishap'.stale
      PROVE  SubmissionAnnounced' /\ SubmissionAnnouncing' /\ SubmissionToldOrTelling'
  <2>1. SubmissionAnnounced /\ SubmissionAnnouncing /\ SubmissionToldOrTelling
    BY <1>4 DEF SubmissionOrder
  <2>2. SubmissionAnnounced' /\ SubmissionAnnouncing'
    BY <1>1, <2>1 DEF SubmissionAnnounced, SubmissionAnnouncing
  <2>3. ASSUME NEW r \in records', r.run \notin mishap'.crossed
        PROVE  SubmissionTold(r)' \/ \E q \in Requesters : request'[q].at = "announce" /\ request'[q].new = r
    <3>1. CASE SubmissionTold(r)
      BY <3>1 DEF SubmissionTold, Submissions!Event
    <3>2. CASE ~SubmissionTold(r)
      <4>1. PICK q \in Requesters : request[q].at = "announce" /\ request[q].new = r
        BY <2>1, <2>3, <3>2 DEF SubmissionToldOrTelling
      <4>2. request'[q] = request[q]
        BY <1>1, <4>1
      <4> QED BY <4>1, <4>2
    <3> QED BY <3>1, <3>2
  <2> QED BY <2>2, <2>3 DEF SubmissionToldOrTelling
<1> QED BY <1>3, <1>4 DEF SubmissionOrder

\* A run that has ended stays as it ended, and so does what is said of it.
LEMMA SubmissionStillTrue ==
  ASSUME NEW known, NEW ends, NEW after, \A n \in known : ends[n] \in Submissions!Ended => after[n] = ends[n],
         NEW r, r.run \in known
  PROVE  /\ SubmissionAgrees(ends, r) => SubmissionAgrees(after, r)
         /\ SubmissionSound(ends, r) => SubmissionSound(after, r)
BY DEF SubmissionAgrees, SubmissionSound

LEMMA SubmissionTruthKept ==
  ASSUME SubmissionTypes, SubmissionTruth,
         \A n \in DOMAIN runs : runs[n] \in Submissions!Ended => runs'[n] = runs[n],
         \A r \in records' : r \in records \/ SubmissionSound(runs', r),
         \A i \in DOMAIN events' : (i \in DOMAIN events /\ events'[i] = events[i]) \/ SubmissionAgrees(runs', events'[i]),
         NEW p \in Requesters, NEW c,
         c # Submissions!Idle => SubmissionHonest(runs', c),
         request' = [request EXCEPT ![p] = c] \/ request' = request
  PROVE  SubmissionTruth'
<1>1. \A r \in records' : SubmissionSound(runs', r)
  BY SubmissionStillTrue DEF SubmissionTypes, SubmissionFile, SubmissionTruth
<1>2. \A i \in DOMAIN events' : SubmissionAgrees(runs', events'[i])
  <2>1. \A i \in DOMAIN events : events[i].run \in DOMAIN runs
    BY DEF SubmissionTypes, Submissions!TypeOK
  <2> QED BY <2>1, SubmissionStillTrue DEF SubmissionTruth
<1>3. ASSUME NEW q \in Requesters, request'[q] # Submissions!Idle
      PROVE  SubmissionHonest(runs', request'[q])
  <2>1. request'[q] = c \/ request'[q] = request[q]
    BY DEF SubmissionTypes
  <2>2. CASE request'[q] = c
    BY <1>3, <2>2
  <2>3. CASE request'[q] = request[q]
    <3>1. request[q] # Submissions!Idle /\ SubmissionHonest(runs, request[q])
      BY <1>3, <2>3 DEF SubmissionTruth
    <3>2. /\ request[q].new.run \in DOMAIN runs
          /\ \A r \in request[q].saved : r.run \in DOMAIN runs
      BY <3>1 DEF SubmissionTypes, SubmissionFile
    <3>3. SubmissionSound(runs', request[q].new) /\ \A r \in request[q].saved : SubmissionSound(runs', r)
      BY <3>1, <3>2, SubmissionStillTrue DEF SubmissionHonest
    <3> QED BY <2>3, <3>1, <3>3 DEF SubmissionHonest
  <2> QED BY <2>1, <2>2, <2>3
<1> QED BY <1>1, <1>2, <1>3 DEF SubmissionTruth, SubmissionSound, SubmissionHonest, SubmissionAgrees, Submissions!Idle,
           Submissions!Ended, Submissions!Status

LEMMA SubmissionCreate ==
  ASSUME SubmissionInv, NEW p \in Requesters, Submissions!Create(p)
  PROVE  SubmissionInv'
<1>1. SubmissionTypes /\ SubmissionOrder /\ SubmissionTruth /\ Submissions!TypeOK
  BY DEF SubmissionInv, SubmissionTypes
<1>2. /\ UNCHANGED <<sCircumstance, decision, records, events, mishap>>
      /\ sLeft' = [sLeft EXCEPT !.submissions = @ - 1] /\ sLeft.submissions > 0
      /\ runs' = Append(runs, "queued")
      /\ p \in sCircumstance.requesters /\ request[p] = Submissions!Idle
  BY DEF Submissions!Create, Submissions!Free
<1>3. PICK q \in Requests, soon \in Submissions!Immediate :
        LET new == [request |-> q, run |-> Len(runs) + 1, immediate |-> soon, runStatus |-> "queued",
                    status |-> "run_created", synced |-> "none"]
        IN  request' = [request EXCEPT ![p] =
              [at |-> IF soon THEN "execute" ELSE "load", old |-> new, new |-> new, saved |-> {}]]
  BY DEF Submissions!Create, Submissions!Become
<1> DEFINE new == [request |-> q, run |-> Len(runs) + 1, immediate |-> soon, runStatus |-> "queued",
                   status |-> "run_created", synced |-> "none"]
           c == [at |-> IF soon THEN "execute" ELSE "load", old |-> new, new |-> new, saved |-> {}]
<1>4. /\ runs \in Seq(Submissions!RunStatus) /\ Len(runs) + 1 \in Nat \ {0}
      /\ "queued" \in Submissions!RunStatus
  BY <1>1 DEF Submissions!TypeOK, Submissions!RunStatus
<1>5. /\ runs' \in Seq(Submissions!RunStatus) /\ DOMAIN runs' = 1 .. Len(runs) + 1 /\ DOMAIN runs = 1 .. Len(runs)
  BY <1>2, <1>4
<1>6. new \in Submissions!Record
  BY <1>4 DEF Submissions!Record
<1>7. c \in Submissions!Command /\ c.at \in {"execute", "load"} /\ c.new = new /\ c.old = new /\ c.saved = {}
  BY <1>6 DEF Submissions!Command
<1>8. sLeft' \in [submissions : 0 .. sCircumstance.submissions, syncs : 0 .. sCircumstance.syncs]
  <2>1. sCircumstance.submissions \in Nat
    BY <1>1 DEF Submissions!TypeOK, Submissions!ConstantsOK
  <2> QED BY <1>1, <1>2, <2>1 DEF Submissions!TypeOK
<1>9. SubmissionFile(c.saved, DOMAIN runs') /\ c.new.run \in DOMAIN runs' /\ DOMAIN runs \subseteq DOMAIN runs'
  BY <1>4, <1>5, <1>7 DEF SubmissionFile
<1>10. request' = [request EXCEPT ![p] = c]
  BY <1>3
<1>14. SubmissionSound(runs', new) /\ c.new.immediate = soon /\ new.synced = "none"
  BY <1>7 DEF SubmissionSound, SubmissionAgrees, Submissions!Status, Submissions!Ended
<1>15. c # Submissions!Idle => SubmissionHonest(runs', c)
  BY <1>7, <1>14 DEF SubmissionHonest
<1> HIDE DEF c
<1>16. mishap' \in [stale : BOOLEAN, crossed : SUBSET DOMAIN runs']
  BY <1>1, <1>2, <1>9 DEF Submissions!TypeOK
<1>11. SubmissionTypes'
  BY <1>1, <1>2, <1>5, <1>6, <1>7, <1>8, <1>9, <1>10, <1>16, SubmissionTypesKept
<1>12. request[p].at # "announce"
  BY <1>2 DEF Submissions!Idle
<1>17. \A other \in Requesters : request[other] # Submissions!Idle => request[other].new.run # c.new.run
  <2>1. \A other \in Requesters : request[other] # Submissions!Idle => request[other].new.run \in 1 .. Len(runs)
    BY <1>1, <1>5 DEF SubmissionTypes
  <2>2. c.new.run = Len(runs) + 1 /\ Len(runs) \in Nat
    BY <1>4, <1>7
  <2> QED BY <2>1, <2>2
<1>13. SubmissionOrder'
  BY <1>1, <1>2, <1>7, <1>10, <1>12, <1>17, SubmissionOrderKept
<1>18. \A n \in DOMAIN runs : runs'[n] = runs[n]
  BY <1>2, <1>4
<1>19. SubmissionTruth'
  BY <1>1, <1>2, <1>10, <1>15, <1>18, SubmissionTruthKept
<1> QED BY <1>11, <1>13, <1>19 DEF SubmissionInv

LEMMA SubmissionRun ==
  ASSUME SubmissionInv, NEW p \in Requesters, Submissions!Execute(p) \/ Submissions!FindEnded(p)
  PROVE  SubmissionInv'
<1>1. SubmissionTypes /\ SubmissionOrder /\ SubmissionTruth /\ Submissions!TypeOK
  BY DEF SubmissionInv, SubmissionTypes
<1> DEFINE old == request[p]
           After(told) == [old.new EXCEPT !.runStatus = told, !.status = Submissions!Status(TRUE, told, FALSE)]
           Ready(told) == [old EXCEPT !.at = "load", !.old = After(told), !.new = After(told)]
<1>2. /\ UNCHANGED <<sCircumstance, decision, records, events, sLeft, mishap>> /\ old.at = "execute"
  BY DEF Submissions!Execute, Submissions!FindEnded, Submissions!At
<1>3. /\ old # Submissions!Idle /\ old.new \in Submissions!Record /\ p \in sCircumstance.requesters
      /\ old.new.run \in DOMAIN runs
      /\ old \in [at : {"execute"}, old : Submissions!Record, new : Submissions!Record, saved : {{}}]
  BY <1>1, <1>2, SubmissionIdle DEF SubmissionTypes, Submissions!Idle
<1>4. runs \in Seq(Submissions!RunStatus) /\ runs[old.new.run] \in Submissions!RunStatus
  BY <1>1, <1>3 DEF Submissions!TypeOK
<1>13. old.new.immediate = TRUE /\ old.new.synced = "none"
  BY <1>1, <1>2, <1>3 DEF SubmissionTruth, SubmissionHonest
<1>5. PICK told \in Submissions!RunStatus :
        /\ request' = [request EXCEPT ![p] = Ready(told)]
        /\ runs' \in Seq(Submissions!RunStatus) /\ DOMAIN runs' = DOMAIN runs
        /\ \A n \in DOMAIN runs : runs[n] \in Submissions!Ended => runs'[n] = runs[n]
        /\ told \in Submissions!Ended \ {"failed"} => runs'[old.new.run] = told
  <2>1. CASE Submissions!Execute(p)
    <3>1. PICK end \in Submissions!RunStatus :
            /\ runs' = [runs EXCEPT ![old.new.run] = end] /\ runs[old.new.run] = "queued"
            /\ request' = [request EXCEPT ![p] = Ready(IF end \in Submissions!Ended THEN end ELSE "failed")]
      BY <2>1 DEF Submissions!Execute, Submissions!Become
    <3>2. "failed" \in Submissions!RunStatus /\ "queued" \notin Submissions!Ended
      BY DEF Submissions!RunStatus, Submissions!Ended
    <3>3. runs' \in Seq(Submissions!RunStatus) /\ DOMAIN runs' = DOMAIN runs
      BY <1>3, <1>4, <3>1, ExceptSeq
    <3>4. \A n \in DOMAIN runs : runs'[n] = IF n = old.new.run THEN end ELSE runs[n]
      BY <1>3, <1>4, <3>1
    <3>5. CASE end \notin Submissions!Ended
      <4>1. request' = [request EXCEPT ![p] = Ready("failed")]
        BY <3>1, <3>5
      <4>2. \A n \in DOMAIN runs : runs[n] \in Submissions!Ended => runs'[n] = runs[n]
        BY <3>1, <3>2, <3>4
      <4> HIDE DEF Ready, After
      <4> QED BY <3>2, <3>3, <4>1, <4>2
    <3>6. CASE end \in Submissions!Ended
      <4>1. request' = [request EXCEPT ![p] = Ready(end)]
        BY <3>1, <3>6
      <4>2. \A n \in DOMAIN runs : runs[n] \in Submissions!Ended => runs'[n] = runs[n]
        BY <3>1, <3>2, <3>4
      <4>3. runs'[old.new.run] = end
        BY <1>3, <3>4
      <4> HIDE DEF Ready, After
      <4> QED BY <3>1, <3>3, <4>1, <4>2, <4>3
    <3> QED BY <3>5, <3>6
  <2>2. CASE Submissions!FindEnded(p)
    BY <1>4, <2>2 DEF Submissions!FindEnded, Submissions!Become
  <2> QED BY <2>1, <2>2
<1>6. Submissions!Status(TRUE, told, FALSE) \in {"received", "run_created", "executed", "admission_synced"}
  BY DEF Submissions!Status
<1>7. /\ After(told) \in Submissions!Record /\ After(told).run = old.new.run
  BY <1>3, <1>6 DEF Submissions!Record
<1>8. /\ Ready(told) \in Submissions!Command /\ Ready(told).at = "load"
      /\ Ready(told).new = After(told) /\ Ready(told).old = After(told) /\ Ready(told).saved = {}
  BY <1>3, <1>7 DEF Submissions!Command
<1>9. SubmissionFile({}, DOMAIN runs')
  BY DEF SubmissionFile
<1>14. SubmissionHonest(runs', Ready(told))
  <2>1. /\ After(told).runStatus = told /\ After(told).synced = "none" /\ After(told).immediate = TRUE
        /\ After(told).status = Submissions!Status(TRUE, told, FALSE)
    BY <1>3, <1>13 DEF Submissions!Record
  <2>2. SubmissionSound(runs', After(told))
    BY <1>5, <1>7, <2>1 DEF SubmissionSound, SubmissionAgrees
  <2> QED BY <1>8, <2>2 DEF SubmissionHonest
<1>15. mishap' \in [stale : BOOLEAN, crossed : SUBSET DOMAIN runs']
  BY <1>1, <1>2, <1>5 DEF Submissions!TypeOK
<1>10. sLeft' \in [submissions : 0 .. sCircumstance.submissions, syncs : 0 .. sCircumstance.syncs]
  BY <1>1, <1>2 DEF Submissions!TypeOK
<1> HIDE DEF After, Ready
<1>11. SubmissionTypes'
  BY <1>1, <1>2, <1>3, <1>5, <1>7, <1>8, <1>9, <1>10, <1>15, SubmissionTypesKept
<1>16. \A q \in Requesters \ {p} :
         Ready(told) # Submissions!Idle /\ request[q] # Submissions!Idle /\ request[q].new.run = Ready(told).new.run =>
           Ready(told).new.run \in mishap'.crossed
  <2>1. \A q \in Requesters \ {p} :
          request[q] # Submissions!Idle /\ request[q].new.run = old.new.run => old.new.run \in mishap.crossed
    BY <1>1, <1>3 DEF SubmissionOrder, SubmissionCrossing
  <2> QED BY <1>2, <1>7, <1>8, <2>1
<1>18. /\ UNCHANGED <<records, events>> /\ mishap'.stale = mishap.stale /\ mishap.crossed \subseteq mishap'.crossed
       /\ request[p].at # "announce" /\ Ready(told).at # "announce"
  BY <1>2, <1>8
<1>12. SubmissionOrder'
  BY <1>1, <1>5, <1>16, <1>18, SubmissionOrderKept
<1>17. SubmissionTruth'
  BY <1>1, <1>2, <1>5, <1>14, SubmissionTruthKept
<1> QED BY <1>11, <1>12, <1>17 DEF SubmissionInv

LEMMA SubmissionSync ==
  ASSUME SubmissionInv, NEW p \in Requesters, Submissions!Sync(p)
  PROVE  SubmissionInv'
<1>1. SubmissionTypes /\ SubmissionOrder /\ SubmissionTruth /\ Submissions!TypeOK
  BY DEF SubmissionInv, SubmissionTypes
<1> DEFINE After(r) == [r EXCEPT !.synced = decision, !.status = Submissions!Status(r.immediate, r.runStatus, TRUE)]
           Asked(r) == [at |-> "load", old |-> r, saved |-> {}, new |-> After(r)]
<1>2. /\ UNCHANGED <<sCircumstance, runs, decision, records, events>>
      /\ sLeft' = [sLeft EXCEPT !.syncs = @ - 1] /\ sLeft.syncs > 0
      /\ p \in sCircumstance.requesters /\ request[p] = Submissions!Idle
  BY DEF Submissions!Sync, Submissions!Free
<1>3. PICK r \in records :
        /\ request' = [request EXCEPT ![p] = Asked(r)]
        /\ mishap' = [mishap EXCEPT !.crossed = @ \cup {n \in {r.run} : Submissions!Crosses(p, n)}]
  BY DEF Submissions!Sync, Submissions!Become
<1>4. /\ runs \in Seq(Submissions!RunStatus) /\ decision \in Submissions!Decisions
      /\ r \in Submissions!Record /\ r.run \in DOMAIN runs
  BY <1>1, <1>3 DEF Submissions!TypeOK, SubmissionTypes, SubmissionFile
<1>5. /\ After(r) \in Submissions!Record /\ After(r).run = r.run
  BY <1>4 DEF Submissions!Record, Submissions!Status
<1>6. /\ Asked(r) \in Submissions!Command /\ Asked(r).at = "load"
      /\ Asked(r).new = After(r) /\ Asked(r).old = r /\ Asked(r).saved = {}
  BY <1>4, <1>5 DEF Submissions!Command
<1>7. sLeft' \in [submissions : 0 .. sCircumstance.submissions, syncs : 0 .. sCircumstance.syncs]
  <2>1. sCircumstance.syncs \in Nat
    BY <1>1 DEF Submissions!TypeOK, Submissions!ConstantsOK
  <2> QED BY <1>1, <1>2, <2>1 DEF Submissions!TypeOK
<1>8. SubmissionFile({}, DOMAIN runs') /\ DOMAIN runs' = DOMAIN runs /\ runs' = runs
  BY <1>2 DEF SubmissionFile
<1>9. request[p].at # "announce"
  BY <1>2 DEF Submissions!Idle
<1>12. decision # "none" /\ mishap \in [stale : BOOLEAN, crossed : SUBSET DOMAIN runs]
  BY <1>1 DEF Submissions!TypeOK, Submissions!Decisions
<1>13. /\ mishap' \in [stale : BOOLEAN, crossed : SUBSET DOMAIN runs']
       /\ mishap'.stale = mishap.stale /\ mishap.crossed \subseteq mishap'.crossed
  BY <1>3, <1>4, <1>8, <1>12
<1>14. \A q \in Requesters \ {p} :
         Asked(r) # Submissions!Idle /\ request[q] # Submissions!Idle /\ request[q].new.run = Asked(r).new.run =>
           Asked(r).new.run \in mishap'.crossed
  <2>1. \A q \in Requesters \ {p} :
          request[q] # Submissions!Idle /\ request[q].new.run = r.run => r.run \in mishap'.crossed
    BY <1>3, <1>12 DEF Submissions!Crosses
  <2> QED BY <1>5, <1>6, <2>1
<1>17. /\ UNCHANGED <<records, events>> /\ request[p].at # "announce" /\ Asked(r).at # "announce"
  BY <1>2, <1>6, <1>9
<1>15. SubmissionHonest(runs', Asked(r))
  <2>1. /\ After(r).runStatus = r.runStatus /\ After(r).synced # "none" /\ After(r).immediate = r.immediate
        /\ After(r).status = Submissions!Status(r.immediate, r.runStatus, TRUE)
    BY <1>4, <1>12 DEF Submissions!Record
  <2>2. SubmissionSound(runs, r)
    BY <1>1 DEF SubmissionTruth
  <2>3. SubmissionSound(runs', After(r))
    BY <1>2, <1>5, <2>1, <2>2 DEF SubmissionSound, SubmissionAgrees
  <2> QED BY <1>6, <2>3 DEF SubmissionHonest
<1> HIDE DEF After, Asked
<1>10. SubmissionTypes'
  BY <1>1, <1>2, <1>3, <1>4, <1>5, <1>6, <1>7, <1>8, <1>13, SubmissionTypesKept
<1>11. SubmissionOrder'
  BY <1>1, <1>3, <1>13, <1>14, <1>17, SubmissionOrderKept
<1>16. SubmissionTruth'
  BY <1>1, <1>2, <1>3, <1>15, SubmissionTruthKept
<1> QED BY <1>10, <1>11, <1>16 DEF SubmissionInv

LEMMA SubmissionLoad ==
  ASSUME SubmissionInv, NEW p \in Requesters, Submissions!Load(p)
  PROVE  SubmissionInv'
<1>1. SubmissionTypes /\ SubmissionOrder /\ SubmissionTruth /\ Submissions!TypeOK
  BY DEF SubmissionInv, SubmissionTypes
<1> DEFINE c == [request[p] EXCEPT !.at = "save", !.saved = records]
<1>2. /\ UNCHANGED <<sCircumstance, runs, decision, records, events, sLeft, mishap>> /\ request[p].at = "load"
      /\ request' = [request EXCEPT ![p] = c]
  BY DEF Submissions!Load, Submissions!At, Submissions!Become
<1>3. /\ request[p] # Submissions!Idle /\ p \in sCircumstance.requesters
      /\ request[p].new.run \in DOMAIN runs /\ SubmissionFile(records, DOMAIN runs)
      /\ request[p].new \in Submissions!Record /\ request[p].old \in Submissions!Record
      /\ request[p] \in [at : {"load", "save", "announce"}, old : Submissions!Record, new : Submissions!Record,
                         saved : SUBSET Submissions!Record]
  BY <1>1, <1>2, SubmissionIdle DEF SubmissionTypes, Submissions!Idle
<1>4. records \in SUBSET Submissions!Record
  BY <1>3 DEF SubmissionFile
<1>5. /\ c \in Submissions!Command /\ c.at = "save" /\ c.new = request[p].new /\ c.old = request[p].old
      /\ c.saved = records
  BY <1>3, <1>4 DEF Submissions!Command
<1>6. sLeft' \in [submissions : 0 .. sCircumstance.submissions, syncs : 0 .. sCircumstance.syncs]
  BY <1>1, <1>2 DEF Submissions!TypeOK
<1>7. runs' \in Seq(Submissions!RunStatus) /\ DOMAIN runs' = DOMAIN runs
  BY <1>1, <1>2 DEF Submissions!TypeOK
<1>10. mishap' \in [stale : BOOLEAN, crossed : SUBSET DOMAIN runs']
  BY <1>1, <1>2 DEF Submissions!TypeOK
<1>11. \A q \in Requesters \ {p} :
         c # Submissions!Idle /\ request[q] # Submissions!Idle /\ request[q].new.run = c.new.run =>
           c.new.run \in mishap'.crossed
  BY <1>1, <1>2, <1>3, <1>5 DEF SubmissionOrder, SubmissionCrossing
<1>14. /\ UNCHANGED <<records, events>> /\ mishap'.stale = mishap.stale /\ mishap.crossed \subseteq mishap'.crossed
       /\ request[p].at # "announce" /\ c.at # "announce"
  BY <1>2, <1>5
<1>12. SubmissionHonest(runs', c)
  BY <1>1, <1>2, <1>3, <1>5 DEF SubmissionTruth, SubmissionHonest
<1> HIDE DEF c
<1>8. SubmissionTypes'
  BY <1>1, <1>2, <1>3, <1>5, <1>6, <1>7, <1>10, SubmissionTypesKept
<1>9. SubmissionOrder'
  BY <1>1, <1>2, <1>11, <1>14, SubmissionOrderKept
<1>13. SubmissionTruth'
  BY <1>1, <1>2, <1>12, SubmissionTruthKept
<1> QED BY <1>8, <1>9, <1>13 DEF SubmissionInv

\* The platform's file is written whole.
LEMMA SubmissionWritten ==
  ASSUME NEW file, NEW known, SubmissionFile(file, known), NEW r \in Submissions!Record, r.run \in known
  PROVE  SubmissionFile(Submissions!WithRecord(file, r), known)
BY DEF SubmissionFile, Submissions!WithRecord

LEMMA SubmissionTypesOfIdle ==
  ASSUME SubmissionTypes, UNCHANGED <<sCircumstance, runs, decision, sLeft>>,
         mishap' \in [stale : BOOLEAN, crossed : SUBSET DOMAIN runs],
         SubmissionFile(records', DOMAIN runs), events' \in Seq(SubmissionEvent),
         \A i \in DOMAIN events' : events'[i].run \in DOMAIN runs,
         NEW p \in Requesters, NEW c \in Submissions!Command, request' = [request EXCEPT ![p] = c],
         c # Submissions!Idle =>
           /\ request[p] # Submissions!Idle
           /\ c.new = request[p].new /\ c.old = request[p].old /\ c.saved = request[p].saved
  PROVE  SubmissionTypes'
<1>1. request' \in [Requesters -> Submissions!Command]
  BY DEF SubmissionTypes
<1>2. ASSUME NEW q \in Requesters, request'[q] # Submissions!Idle
      PROVE  /\ request[q] # Submissions!Idle
             /\ request'[q].new = request[q].new /\ request'[q].old = request[q].old
             /\ request'[q].saved = request[q].saved
  BY <1>2 DEF SubmissionTypes
<1>3. Submissions!Idle' = Submissions!Idle
  BY DEF Submissions!Idle
<1>4. Submissions!TypeOK'
  BY <1>2, <1>3, SubmissionIdle DEF SubmissionTypes, Submissions!TypeOK, Submissions!ConstantsOK, SubmissionFile
<1> QED BY <1>1, <1>2, <1>3, <1>4 DEF SubmissionTypes

LEMMA SubmissionSave ==
  ASSUME SubmissionInv, NEW p \in Requesters, Submissions!Save(p)
  PROVE  SubmissionInv'
<1>1. SubmissionTypes /\ SubmissionOrder /\ SubmissionTruth /\ Submissions!TypeOK
  BY DEF SubmissionInv, SubmissionTypes
<1> DEFINE c == [request[p] EXCEPT !.at = "announce"]
           r == request[p].new
<1>2. /\ UNCHANGED <<sCircumstance, runs, decision, events, sLeft>> /\ request[p].at = "save"
      /\ records' = Submissions!WithRecord(request[p].saved, r)
      /\ mishap' = [mishap EXCEPT !.stale = @ \/ request[p].saved # records]
      /\ request' = [request EXCEPT ![p] = c]
  BY DEF Submissions!Save, Submissions!At, Submissions!Become
<1>3. /\ request[p] # Submissions!Idle /\ p \in sCircumstance.requesters
      /\ r \in Submissions!Record /\ r.run \in DOMAIN runs
      /\ SubmissionFile(request[p].saved, DOMAIN runs)
      /\ request[p] \in [at : {"load", "save", "announce"}, old : Submissions!Record, new : Submissions!Record,
                         saved : SUBSET Submissions!Record]
  BY <1>1, <1>2, SubmissionIdle DEF SubmissionTypes, Submissions!Idle
<1>4. /\ c \in Submissions!Command /\ c.at = "announce" /\ c.new = r /\ c.old = request[p].old
      /\ c.saved = request[p].saved
  BY <1>3 DEF Submissions!Command
<1>5. SubmissionFile(records', DOMAIN runs)
  BY <1>2, <1>3, SubmissionWritten
<1>6. events' \in Seq(SubmissionEvent) /\ \A i \in DOMAIN events' : events'[i].run \in DOMAIN runs
  BY <1>1, <1>2 DEF SubmissionTypes, Submissions!TypeOK
<1>9. /\ mishap' \in [stale : BOOLEAN, crossed : SUBSET DOMAIN runs] /\ mishap'.crossed = mishap.crossed
      /\ ~mishap'.stale => ~mishap.stale /\ request[p].saved = records
  <2>1. mishap \in [stale : BOOLEAN, crossed : SUBSET DOMAIN runs]
    BY <1>1 DEF Submissions!TypeOK
  <2> QED BY <1>2, <2>1
<1>10. SubmissionHonest(runs', c)
  BY <1>1, <1>2, <1>3, <1>4 DEF SubmissionTruth, SubmissionHonest
<1> HIDE DEF c
<1>7. SubmissionTypes'
  BY <1>1, <1>2, <1>3, <1>4, <1>5, <1>6, <1>9, SubmissionTypesOfIdle
<1>11. request' = [request EXCEPT ![p] = c] /\ \A q \in Requesters : request'[q] = IF q = p THEN c ELSE request[q]
  BY <1>1, <1>2 DEF SubmissionTypes
<1>12. SubmissionCrossing'
  <2>1. Submissions!Idle' = Submissions!Idle
    BY DEF Submissions!Idle
  <2>2. \A q \in Requesters :
          request'[q] # Submissions!Idle =>
            request[q] # Submissions!Idle /\ request'[q].new.run = request[q].new.run
    BY <1>3, <1>4, <1>11
  <2> QED BY <1>1, <1>9, <2>1, <2>2 DEF SubmissionOrder, SubmissionCrossing
<1>8. ASSUME ~mishap'.stale
      PROVE  SubmissionAnnounced' /\ SubmissionAnnouncing' /\ SubmissionToldOrTelling'
  <2>1. SubmissionAnnounced /\ SubmissionAnnouncing /\ SubmissionToldOrTelling
    BY <1>1, <1>8, <1>9 DEF SubmissionOrder
  <2>2. records' = {s \in records : s.run # r.run} \cup {r}
    BY <1>2, <1>8, <1>9 DEF Submissions!WithRecord
  <2>3. SubmissionAnnounced'
    BY <1>2, <2>1, <2>2 DEF SubmissionAnnounced
  <2>4. ASSUME NEW q \in Requesters, request'[q].at = "announce"
        PROVE  /\ \E s \in records' : s.run = request'[q].new.run
               /\ request'[q].new.run \notin mishap'.crossed => request'[q].new \in records'
    <3>1. CASE q = p
      BY <1>4, <1>11, <2>2, <3>1
    <3>2. CASE q # p
      <4>1. request'[q] = request[q] /\ request[q].at = "announce" /\ request[q] # Submissions!Idle
        BY <1>11, <2>4, <3>2 DEF Submissions!Idle
      <4>2. \E s \in records' : s.run = request[q].new.run
        BY <2>1, <2>2, <4>1 DEF SubmissionAnnouncing
      <4>3. request[q].new.run \notin mishap.crossed => request[q].new.run # r.run
        BY <1>1, <1>3, <3>2, <4>1 DEF SubmissionOrder, SubmissionCrossing
      <4>4. request[q].new.run \notin mishap.crossed => request[q].new \in records
        BY <2>1, <4>1 DEF SubmissionAnnouncing
      <4> QED BY <1>9, <2>2, <4>1, <4>2, <4>3, <4>4
    <3> QED BY <3>1, <3>2
  <2>5. ASSUME NEW s \in records', s.run \notin mishap'.crossed
        PROVE  SubmissionTold(s)' \/ \E q \in Requesters : request'[q].at = "announce" /\ request'[q].new = s
    <3>1. CASE s = r
      BY <1>4, <1>11, <3>1
    <3>2. CASE s # r
      <4>1. s \in records
        BY <2>2, <2>5, <3>2
      <4>2. CASE SubmissionTold(s)
        BY <1>2, <4>2 DEF SubmissionTold, Submissions!Event
      <4>3. CASE ~SubmissionTold(s)
        <5>1. PICK q \in Requesters : request[q].at = "announce" /\ request[q].new = s
          BY <1>9, <2>1, <2>5, <4>1, <4>3 DEF SubmissionToldOrTelling
        <5>2. q # p
          BY <1>2, <5>1
        <5> QED BY <1>11, <5>1, <5>2
      <4> QED BY <4>2, <4>3
    <3> QED BY <3>1, <3>2
  <2> QED BY <2>3, <2>4, <2>5 DEF SubmissionAnnouncing, SubmissionToldOrTelling
<1>13. SubmissionTruth'
  <2>1. \A s \in records' : s \in records \/ SubmissionSound(runs', s)
    BY <1>1, <1>2, <1>3 DEF SubmissionTruth, SubmissionHonest, Submissions!WithRecord
  <2> QED BY <1>1, <1>2, <1>10, <1>11, <2>1, SubmissionTruthKept
<1> QED BY <1>7, <1>8, <1>12, <1>13 DEF SubmissionInv, SubmissionOrder

\* What is announced of a submission is its last word, and its requester is done.
LEMMA SubmissionSaid ==
  ASSUME SubmissionTypes, SubmissionOrder, UNCHANGED <<records, mishap>>,
         NEW p \in Requesters, request[p].at = "announce", request[p] # Submissions!Idle,
         request' = [request EXCEPT ![p] = Submissions!Idle],
         NEW e, e = Submissions!Event(request[p].new),
         NEW k \in {1, 2}, Len(events') = Len(events) + k, DOMAIN events' = 1 .. Len(events'),
         \A i \in 1 .. Len(events') : events'[i] = IF i <= Len(events) THEN events[i] ELSE e
  PROVE  SubmissionOrder'
<1> DEFINE r == request[p].new
<1>1. /\ events \in Seq(SubmissionEvent) /\ Len(events) \in Nat /\ DOMAIN events = 1 .. Len(events)
      /\ e.run = r.run
  BY DEF SubmissionTypes, Submissions!Event
<1>2. /\ \A q \in Requesters : request'[q] = IF q = p THEN Submissions!Idle ELSE request[q]
      /\ Submissions!Idle' = Submissions!Idle /\ Submissions!Idle.at # "announce"
  BY DEF SubmissionTypes, Submissions!Idle
<1>3. SubmissionCrossing'
  BY <1>2 DEF SubmissionOrder, SubmissionCrossing
<1>4. ASSUME ~mishap'.stale
      PROVE  SubmissionAnnounced' /\ SubmissionAnnouncing' /\ SubmissionToldOrTelling'
  <2>1. SubmissionAnnounced /\ SubmissionAnnouncing /\ SubmissionToldOrTelling
    BY <1>4 DEF SubmissionOrder
  <2>2. SubmissionAnnouncing'
    BY <1>2, <2>1 DEF SubmissionAnnouncing
  <2>3. ASSUME NEW i \in DOMAIN events' PROVE \E s \in records : s.run = events'[i].run
    <3>1. CASE i <= Len(events)
      BY <1>1, <2>1, <2>3, <3>1 DEF SubmissionAnnounced
    <3>2. CASE ~(i <= Len(events))
      BY <1>1, <2>1, <2>3, <3>2 DEF SubmissionAnnouncing
    <3> QED BY <3>1, <3>2
  <2>4. ASSUME NEW s \in records', s.run \notin mishap'.crossed
        PROVE  SubmissionTold(s)' \/ \E q \in Requesters : request'[q].at = "announce" /\ request'[q].new = s
    <3>1. CASE s.run = r.run
      <4>1. s = r
        BY <2>1, <2>4, <3>1 DEF SubmissionAnnouncing, SubmissionTypes, SubmissionFile
      <4>2. /\ Len(events') \in DOMAIN events' /\ events'[Len(events')] = e
            /\ \A j \in DOMAIN events' : ~(j > Len(events'))
        BY <1>1
      <4>3. e = Submissions!Event(s)'
        BY <4>1 DEF Submissions!Event
      <4> QED BY <4>2, <4>3 DEF SubmissionTold
    <3>2. CASE s.run # r.run
      <4>1. CASE SubmissionTold(s)
        <5>1. PICK i \in DOMAIN events :
                events[i] = Submissions!Event(s) /\ \A j \in DOMAIN events : j > i => events[j].run # s.run
          BY <4>1 DEF SubmissionTold
        <5>2. i \in DOMAIN events' /\ events'[i] = Submissions!Event(s)
          BY <1>1, <5>1
        <5>3. \A j \in DOMAIN events' : j > i => events'[j].run # s.run
          BY <1>1, <3>2, <5>1
        <5> QED BY <5>2, <5>3 DEF SubmissionTold, Submissions!Event
      <4>2. CASE ~SubmissionTold(s)
        <5>1. PICK q \in Requesters : request[q].at = "announce" /\ request[q].new = s
          BY <2>1, <2>4, <4>2 DEF SubmissionToldOrTelling
        <5>2. request'[q] = request[q]
          BY <1>2, <3>2, <5>1
        <5> QED BY <5>1, <5>2
      <4> QED BY <4>1, <4>2
    <3> QED BY <3>1, <3>2
  <2>5. SubmissionAnnounced'
    BY <2>3 DEF SubmissionAnnounced
  <2> QED BY <2>2, <2>4, <2>5 DEF SubmissionToldOrTelling
<1> QED BY <1>3, <1>4 DEF SubmissionOrder

LEMMA SubmissionAnnounce ==
  ASSUME SubmissionInv, NEW p \in Requesters, Submissions!Announce(p)
  PROVE  SubmissionInv'
<1>1. SubmissionTypes /\ SubmissionOrder /\ SubmissionTruth /\ Submissions!TypeOK
  BY DEF SubmissionInv, SubmissionTypes
<1> DEFINE r == request[p].new
           e == Submissions!Event(r)
           news == Submissions!News(request[p])
<1>2. /\ UNCHANGED <<sCircumstance, runs, decision, records, sLeft, mishap>> /\ request[p].at = "announce"
      /\ events' = events \o news
      /\ request' = [request EXCEPT ![p] = Submissions!Idle]
  BY DEF Submissions!Announce, Submissions!At, Submissions!Become
<1>3. /\ request[p] # Submissions!Idle /\ p \in sCircumstance.requesters
      /\ r \in Submissions!Record /\ r.run \in DOMAIN runs
  BY <1>1, <1>2, SubmissionIdle DEF SubmissionTypes, Submissions!Idle
<1>4. /\ e \in SubmissionEvent /\ e.run = r.run
  BY <1>3 DEF SubmissionEvent, Submissions!Event, Submissions!Record
<1>5. news = <<e>> \/ news = <<e, e>>
  BY DEF Submissions!News
<1> HIDE DEF e, news
<1>6. /\ news \in Seq(SubmissionEvent) /\ Len(news) \in {1, 2} /\ \A i \in 1 .. Len(news) : news[i] = e
  <2>1. CASE news = <<e>>
    BY <1>4, <2>1
  <2>2. CASE news = <<e, e>>
    <3>1. Len(news) = 2 /\ news[1] = e /\ news[2] = e /\ news \in Seq(SubmissionEvent)
      BY <1>4, <2>2
    <3> QED BY <3>1
  <2> QED BY <1>5, <2>1, <2>2
<1>7. events \in Seq(SubmissionEvent)
  BY <1>1 DEF SubmissionTypes
<1>8. /\ events' \in Seq(SubmissionEvent) /\ Len(events') = Len(events) + Len(news)
      /\ DOMAIN events' = 1 .. Len(events') /\ DOMAIN events = 1 .. Len(events) /\ Len(events) \in Nat
      /\ \A i \in 1 .. Len(events') : events'[i] = IF i <= Len(events) THEN events[i] ELSE e
  BY <1>2, <1>6, <1>7
<1>9. \A i \in DOMAIN events' : events'[i].run \in DOMAIN runs
  <2>1. \A i \in DOMAIN events : events[i].run \in DOMAIN runs
    BY <1>1 DEF Submissions!TypeOK
  <2> QED BY <1>3, <1>4, <1>8, <2>1
<1>10. SubmissionTypes'
  <2>1. mishap' \in [stale : BOOLEAN, crossed : SUBSET DOMAIN runs]
    BY <1>1, <1>2 DEF Submissions!TypeOK
  <2> QED BY <1>1, <1>2, <1>8, <1>9, <2>1, SubmissionTypesOfIdle DEF SubmissionTypes, Submissions!Command
<1>11. SubmissionOrder'
  BY <1>1, <1>2, <1>3, <1>6, <1>8, SubmissionSaid DEF e
<1>12. SubmissionTruth'
  <2>1. SubmissionAgrees(runs', e)
    BY <1>1, <1>2, <1>3 DEF e, SubmissionTruth, SubmissionHonest, SubmissionSound, SubmissionAgrees, Submissions!Event
  <2>2. \A i \in DOMAIN events' : (i \in DOMAIN events /\ events'[i] = events[i]) \/ SubmissionAgrees(runs', events'[i])
    BY <1>8, <2>1
  <2> QED BY <1>1, <1>2, <2>2, SubmissionTruthKept
<1> QED BY <1>10, <1>11, <1>12 DEF SubmissionInv

LEMMA SubmissionDie ==
  ASSUME SubmissionInv, NEW p \in Requesters, Submissions!Die(p)
  PROVE  SubmissionInv'
<1>1. /\ SubmissionTypes /\ SubmissionOrder /\ SubmissionTruth /\ Submissions!TypeOK
      /\ mishap \in [stale : BOOLEAN, crossed : SUBSET DOMAIN runs] /\ events \in Seq(SubmissionEvent)
      /\ SubmissionFile(records, DOMAIN runs) /\ \A i \in DOMAIN events : events[i].run \in DOMAIN runs
  BY DEF SubmissionInv, SubmissionTypes, Submissions!TypeOK
<1>2. /\ UNCHANGED <<sCircumstance, runs, decision, sLeft>> /\ request[p] # Submissions!Idle
      /\ request' = [request EXCEPT ![p] = Submissions!Idle] /\ Submissions!Idle \in Submissions!Command
  BY DEF Submissions!Die, Submissions!Become, Submissions!Command
<1>3. /\ request[p].new \in Submissions!Record /\ request[p].new.run \in DOMAIN runs
      /\ SubmissionHonest(runs, request[p])
  BY <1>1, <1>2, SubmissionIdle DEF SubmissionTypes, SubmissionTruth
<1>4. SubmissionCrossing
  BY <1>1 DEF SubmissionOrder
<1>5. CASE request[p].at = "save" /\ records' = {} /\ mishap' = [mishap EXCEPT !.stale = TRUE] /\ events' = events
  <2>1. /\ mishap' \in [stale : BOOLEAN, crossed : SUBSET DOMAIN runs] /\ mishap'.stale
        /\ mishap'.crossed = mishap.crossed /\ SubmissionFile(records', DOMAIN runs)
    BY <1>1, <1>5 DEF SubmissionFile
  <2>2. SubmissionTypes'
    BY <1>1, <1>2, <1>5, <2>1, SubmissionTypesOfIdle
  <2>3. SubmissionOrder'
    BY <1>1, <1>2, <1>4, <2>1 DEF SubmissionOrder, SubmissionCrossing, SubmissionTypes, Submissions!Idle
  <2>4. SubmissionTruth'
    BY <1>1, <1>2, <1>5, SubmissionTruthKept
  <2> QED BY <2>2, <2>3, <2>4 DEF SubmissionInv
<1>6. CASE /\ request[p].at = "announce" /\ events' = Append(events, Submissions!News(request[p])[1])
           /\ UNCHANGED <<records, mishap>>
  <2> DEFINE e == Submissions!Event(request[p].new)
  <2>1. events' = Append(events, e)
    BY <1>6 DEF Submissions!News
  <2>2. e \in SubmissionEvent /\ e.run = request[p].new.run
    BY <1>3 DEF SubmissionEvent, Submissions!Event, Submissions!Record
  <2>3. SubmissionAgrees(runs', e)
    BY <1>2, <1>3 DEF SubmissionHonest, SubmissionSound, SubmissionAgrees, Submissions!Event
  <2> HIDE DEF e
  <2>4. /\ events' \in Seq(SubmissionEvent) /\ Len(events') = Len(events) + 1 /\ Len(events) \in Nat
        /\ DOMAIN events' = 1 .. Len(events') /\ DOMAIN events = 1 .. Len(events)
        /\ \A i \in 1 .. Len(events') : events'[i] = IF i <= Len(events) THEN events[i] ELSE e
    BY <1>1, <2>1, <2>2
  <2>5. \A i \in DOMAIN events' : events'[i].run \in DOMAIN runs
    BY <1>1, <1>3, <2>2, <2>4
  <2>6. SubmissionTypes'
    BY <1>1, <1>2, <1>6, <2>4, <2>5, SubmissionTypesOfIdle
  <2>7. SubmissionOrder'
    BY <1>1, <1>2, <1>6, <2>4, SubmissionSaid DEF e
  <2>8. \A i \in DOMAIN events' : (i \in DOMAIN events /\ events'[i] = events[i]) \/ SubmissionAgrees(runs', events'[i])
    BY <2>3, <2>4
  <2>9. SubmissionTruth'
    BY <1>1, <1>2, <1>6, <2>8, SubmissionTruthKept
  <2> QED BY <2>6, <2>7, <2>9 DEF SubmissionInv
<1>7. CASE /\ mishap' = [mishap EXCEPT !.crossed = @ \cup {n \in {request[p].new.run} : Submissions!At(p, "announce")}]
           /\ UNCHANGED <<records, events>>
  <2>1. /\ mishap' \in [stale : BOOLEAN, crossed : SUBSET DOMAIN runs] /\ mishap'.stale = mishap.stale
        /\ mishap.crossed \subseteq mishap'.crossed
        /\ request[p].at = "announce" => request[p].new.run \in mishap'.crossed
    BY <1>1, <1>3, <1>7 DEF Submissions!At
  <2>2. SubmissionTypes'
    BY <1>1, <1>2, <1>7, <2>1, SubmissionTypesOfIdle
  <2>3. /\ \A q \in Requesters : request'[q] = IF q = p THEN Submissions!Idle ELSE request[q]
        /\ Submissions!Idle' = Submissions!Idle /\ Submissions!Idle.at # "announce"
    BY <1>1, <1>2 DEF SubmissionTypes, Submissions!Idle
  <2>4. SubmissionCrossing'
    BY <1>4, <2>1, <2>3 DEF SubmissionCrossing
  <2>5. ASSUME ~mishap'.stale
        PROVE  SubmissionAnnounced' /\ SubmissionAnnouncing' /\ SubmissionToldOrTelling'
    <3>1. SubmissionAnnounced /\ SubmissionAnnouncing /\ SubmissionToldOrTelling
      BY <1>1, <2>1, <2>5 DEF SubmissionOrder
    <3>2. SubmissionAnnounced' /\ SubmissionAnnouncing'
      BY <1>7, <2>1, <2>3, <3>1 DEF SubmissionAnnounced, SubmissionAnnouncing
    <3>3. ASSUME NEW r \in records', r.run \notin mishap'.crossed
          PROVE  SubmissionTold(r)' \/ \E q \in Requesters : request'[q].at = "announce" /\ request'[q].new = r
      <4>1. CASE SubmissionTold(r)
        BY <1>7, <4>1 DEF SubmissionTold, Submissions!Event
      <4>2. CASE ~SubmissionTold(r)
        <5>1. PICK q \in Requesters : request[q].at = "announce" /\ request[q].new = r
          BY <1>7, <2>1, <3>1, <3>3, <4>2 DEF SubmissionToldOrTelling
        <5>2. q # p
          BY <2>1, <3>3, <5>1
        <5> QED BY <2>3, <5>1, <5>2
      <4> QED BY <4>1, <4>2
    <3> QED BY <3>2, <3>3 DEF SubmissionToldOrTelling
  <2>6. SubmissionOrder'
    BY <2>4, <2>5 DEF SubmissionOrder
  <2>7. SubmissionTruth'
    BY <1>1, <1>2, <1>7, SubmissionTruthKept
  <2> QED BY <2>2, <2>6, <2>7 DEF SubmissionInv
<1> QED BY <1>5, <1>6, <1>7 DEF Submissions!Die, Submissions!At

\* Somebody else executes a run, or the case is decided anew.
LEMMA SubmissionOutside ==
  ASSUME SubmissionInv, Submissions!RunEnds \/ Submissions!Decide
  PROVE  SubmissionInv'
<1>1. SubmissionTypes /\ SubmissionOrder /\ SubmissionTruth /\ Submissions!TypeOK
  BY DEF SubmissionInv, SubmissionTypes
<1>2. UNCHANGED <<sCircumstance, records, events, sLeft, request, mishap>>
  BY DEF Submissions!RunEnds, Submissions!Decide
<1>3. runs' \in Seq(Submissions!RunStatus) /\ DOMAIN runs' = DOMAIN runs /\ decision' \in Submissions!Decisions
      /\ \A n \in DOMAIN runs : runs[n] \in Submissions!Ended => runs'[n] = runs[n]
  <2>1. runs \in Seq(Submissions!RunStatus) /\ decision \in Submissions!Decisions
    BY <1>1 DEF Submissions!TypeOK
  <2>2. CASE Submissions!RunEnds
    <3>1. PICK r \in DOMAIN runs, end \in Submissions!Ended : runs' = [runs EXCEPT ![r] = end] /\ runs[r] \notin Submissions!Ended
      BY <2>2 DEF Submissions!RunEnds
    <3> QED BY <2>1, <2>2, <3>1, ExceptSeq DEF Submissions!RunEnds, Submissions!RunStatus
  <2>3. CASE Submissions!Decide
    BY <2>1, <2>3 DEF Submissions!Decide
  <2> QED BY <2>2, <2>3
<1>4. Submissions!TypeOK'
  BY <1>1, <1>2, <1>3 DEF Submissions!TypeOK, Submissions!ConstantsOK, Submissions!Idle
<1>5. SubmissionTypes'
  BY <1>1, <1>2, <1>3, <1>4 DEF SubmissionTypes, Submissions!Idle
<1>6. SubmissionOrder'
  BY <1>1, <1>2 DEF SubmissionOrder, SubmissionCrossing, SubmissionAnnounced, SubmissionAnnouncing,
     SubmissionToldOrTelling, SubmissionTold, Submissions!Event, Submissions!Idle
<1>7. SubmissionTruth'
  <2>1. CASE Requesters = {}
    <3>1. \A r \in records' : SubmissionSound(runs', r)
      BY <1>1, <1>2, <1>3, SubmissionStillTrue DEF SubmissionTypes, SubmissionFile, SubmissionTruth
    <3>2. \A i \in DOMAIN events' : SubmissionAgrees(runs', events'[i])
      <4>1. \A i \in DOMAIN events : events[i].run \in DOMAIN runs /\ SubmissionAgrees(runs, events[i])
        BY <1>1 DEF Submissions!TypeOK, SubmissionTruth
      <4> QED BY <1>2, <1>3, <4>1, SubmissionStillTrue
    <3> QED BY <2>1, <3>1, <3>2 DEF SubmissionTruth, SubmissionSound, SubmissionAgrees
  <2>2. CASE Requesters # {}
    <3>1. PICK p \in Requesters : TRUE
      BY <2>2
    <3> QED BY <1>1, <1>2, <1>3, <3>1, SubmissionTruthKept
  <2> QED BY <2>1, <2>2
<1> QED BY <1>5, <1>6, <1>7 DEF SubmissionInv

LEMMA SubmissionStep ==
  ASSUME SubmissionInv, [Submissions!Next]_(Submissions!vars)
  PROVE  SubmissionInv'
<1>1. CASE UNCHANGED Submissions!vars
  <2>1. UNCHANGED <<sCircumstance, runs, decision, records, events, sLeft, request, mishap>>
    BY <1>1 DEF Submissions!vars
  <2>2. Submissions!TypeOK'
    BY <2>1 DEF SubmissionInv, SubmissionTypes, Submissions!TypeOK, Submissions!ConstantsOK, Submissions!Idle
  <2> QED
    BY <2>1, <2>2 DEF SubmissionInv, SubmissionTypes, SubmissionOrder, SubmissionCrossing, SubmissionAnnounced,
       SubmissionAnnouncing, SubmissionToldOrTelling, SubmissionTold, SubmissionTruth, Submissions!Event,
       Submissions!Idle
<1> QED
  BY <1>1, SubmissionCreate, SubmissionRun, SubmissionSync, SubmissionLoad, SubmissionSave,
     SubmissionAnnounce, SubmissionDie, SubmissionOutside
  DEF Submissions!Next

LEMMA SubmissionInvariant ==
  ASSUME Submissions!ConstantsOK
  PROVE  Submissions!Spec => []SubmissionInv
<1>1. Submissions!Init => SubmissionInv
  BY SubmissionInit
<1> QED BY <1>1, SubmissionStep, PTL DEF Submissions!Spec

LEMMA SubmissionInvSafe ==
  ASSUME SubmissionInv
  PROVE  SubmissionsSafe
<1>1. Submissions!AnnouncedIsKept
  BY DEF SubmissionInv, SubmissionOrder, SubmissionAnnounced, Submissions!AnnouncedIsKept
<1>2. Submissions!LastWordIsRecord
  BY DEF SubmissionInv, SubmissionOrder, SubmissionToldOrTelling, SubmissionTold, Submissions!LastWordIsRecord,
     Submissions!Idle
<1>3. Submissions!TellsTruth
  BY DEF SubmissionInv, SubmissionTruth, SubmissionSound, SubmissionAgrees, Submissions!TellsTruth, Submissions!Agrees
<1> QED BY <1>1, <1>2, <1>3 DEF SubmissionsSafe, Submissions!SubmissionsSafe

-----------------------------------------------------------------------------
(* Readings of the collector.                                              *)

ReadingOfSource(t) == calls[t].at \in {"compute", "store"}
\* What a reading lags behind the beginning of the call that makes it.
ReadingSlack == IF CollectorOf!OfApp THEN 1 ELSE TextAge

\* Calls that do not overlap are one at a time.
ReadingAlone ==
  ~history.overlapped =>
    \A t, u \in Readers : t # u => calls[t].at = "idle" \/ calls[u].at = "idle"
ReadingPlaces ==
  \A t \in Readers :
    /\ calls[t].at # "idle" => calls[t].since <= kNow
    /\ ReadingOfSource(t) => calls[t].data.by \in CollectorOf!Sources
    /\ CollectorOf!OfApp => /\ calls[t].at \in {"idle", "batch", "keep", "stamp"}
                            /\ calls[t].at \in {"keep", "stamp"} => calls[t].data.by = "app"
ReadingTimes ==
  /\ \A s \in {"dev", "netstats"} : texts[s].kept => texts[s].read = texts[s].at
  /\ \A t \in Readers :
       calls[t].data # CollectorOf!Empty => calls[t].since - calls[t].data.asOf < ReadingSlack
  /\ kept.data # CollectorOf!Empty => kept.at - kept.data.asOf < ReadingSlack

\* Unless calls overlap, what is kept is what was stamped, but between the two.
ReadingStamped ==
  /\ stamp >= 0 \/ stamp = -Interval
  /\ ~history.overlapped =>
       /\ \A t \in Readers :
            calls[t].at = "stamp" => kept = [data |-> calls[t].data, at |-> calls[t].since]
       /\ (\A t \in Readers : calls[t].at # "stamp") =>
            /\ kept.data # CollectorOf!Empty => kept.at = stamp
            /\ CollectorOf!OfApp /\ stamp >= 0 => kept.data # CollectorOf!Empty /\ kept.at = stamp
ReadingFreshInv ==
  /\ CollectorOf!TypeOK /\ ReadingAlone /\ ReadingPlaces /\ ReadingTimes /\ ReadingStamped
  /\ CollectorOf!ReadingsAreFresh

\* What has moved since the counters before.
Ahead(now_, before) == IF now_ > before THEN now_ - before ELSE 0
Unread == IF last.by = "nobody" THEN 0 ELSE Ahead(CollectorOf!Count(last.by), last.count)
Room == kDevice.moved - kCircumstance.before
\* The traffic told, and what is to be told of the counters in the call and after them, has
\* moved; a text has the counters that were read last, or those of the call.
ReadingDue(t) ==
  LET d == calls[t].data
  IN  /\ ReadingOfSource(t) /\ last.by \in {"nobody", d.by} =>
           history.told + (IF calls[t].at = "compute" THEN CollectorOf!Gain(d.count) ELSE d.traffic)
             + Ahead(CollectorOf!Count(d.by), d.count) <= Room
      /\ calls[t].at = "keep" => history.told + d.traffic + Unread <= Room
      /\ ReadingOfSource(t) /\ d.by # "whole" => texts[d.by].kept /\ texts[d.by].count = d.count
ReadingHeld(s) ==
  texts[s].kept => \/ last.by \notin {"nobody", s}
                   \/ last.by = s /\ last.count = texts[s].count
                   \/ \E t \in Readers : ReadingOfSource(t) /\ calls[t].data.by = s
ReadingCounts ==
  /\ Room >= 0
  /\ ~history.mixed /\ ~history.overlapped =>
       /\ history.told + Unread <= Room
       /\ \A t \in Readers : ReadingDue(t)
       /\ \A s \in {"dev", "netstats"} : ReadingHeld(s)
ReadingInv == ReadingFreshInv /\ ReadingCounts

ReadingPlace == {"idle", "batch", "compute", "store", "keep", "stamp"} \cup CollectorOf!Sources

\* A thread goes there, in a call since then and with this reading; the others stay.
ReadingGoes(t, place, began, data) ==
  /\ calls' \in [Readers -> [at : ReadingPlace, since : Nat, data : CollectorOf!Readings]]
  /\ calls'[t].at = place /\ calls'[t].since = began /\ calls'[t].data = data
  /\ \A u \in Readers \ {t} : calls'[u] = calls[u]

LEMMA ReadingGo ==
  ASSUME CollectorOf!TypeOK, NEW t \in Readers, NEW place \in ReadingPlace, NEW data \in CollectorOf!Readings,
         CollectorOf!Go(t, place, data)
  PROVE  ReadingGoes(t, place, calls[t].since, data)
<1>1. calls \in [Readers -> [at : ReadingPlace, since : Nat, data : CollectorOf!Readings]]
  BY DEF CollectorOf!TypeOK, ReadingPlace
<1>2. calls' = [calls EXCEPT ![t] = [calls[t] EXCEPT !.at = place, !.data = data]]
  BY <1>1 DEF CollectorOf!Go
<1> QED BY <1>1, <1>2 DEF ReadingGoes

\* What is given and read has its type.
LEMMA ReadingTypes ==
  ASSUME CollectorOf!TypeOK
  PROVE  /\ TextAge \in Nat \ {0} /\ DataAge \in Nat \ {0} /\ Interval \in Nat \ {0} /\ Interval <= DataAge
         /\ kCircumstance \in CollectorOf!Config
         /\ CollectorOf!Empty \in CollectorOf!Readings /\ CollectorOf!Empty.by = "nobody"
         /\ CollectorOf!Zeros \in CollectorOf!Readings /\ CollectorOf!Zeros.by = "zeros"
         /\ CollectorOf!Zeros.traffic = 0 /\ CollectorOf!Zeros.asOf = kNow /\ CollectorOf!Empty.traffic = 0
         /\ CollectorOf!NoText \in [kept : BOOLEAN, count : Nat, at : Nat, read : Nat]
         /\ \A s \in CollectorOf!Sources : CollectorOf!Count(s) \in Nat
         /\ \A c \in Nat : CollectorOf!Gain(c) \in Nat
         /\ \A a, b \in Nat : Ahead(a, b) \in Nat
         /\ ReadingSlack \in Nat \ {0}
<1>1. /\ TextAge \in Nat \ {0} /\ DataAge \in Nat \ {0} /\ Interval \in Nat \ {0} /\ Interval <= DataAge
      /\ kCircumstance \in CollectorOf!Config
  <2>1. {TextAge, DataAge, Interval} \subseteq Nat \ {0}
    BY DEF CollectorOf!TypeOK, CollectorOf!ConstantsOK
  <2>2. TextAge \in Nat \ {0} /\ DataAge \in Nat \ {0} /\ Interval \in Nat \ {0}
    BY <2>1, Zenon
  <2> QED BY <2>2 DEF CollectorOf!TypeOK, CollectorOf!ConstantsOK
<1>2. kNow \in Nat
  BY DEF CollectorOf!TypeOK
<1>3. \A s \in CollectorOf!Sources : CollectorOf!Count(s) \in Nat
  BY <1>1 DEF CollectorOf!Sources, CollectorOf!Count, CollectorOf!TypeOK, CollectorOf!Config
<1>4. \A c \in Nat : CollectorOf!Gain(c) \in Nat
  BY DEF CollectorOf!Gain, CollectorOf!TypeOK
<1>5. /\ CollectorOf!Empty \in CollectorOf!Readings /\ CollectorOf!Empty.by = "nobody"
      /\ CollectorOf!Zeros \in CollectorOf!Readings /\ CollectorOf!Zeros.by = "zeros"
      /\ CollectorOf!Zeros.traffic = 0 /\ CollectorOf!Zeros.asOf = kNow /\ CollectorOf!Empty.traffic = 0
      /\ CollectorOf!NoText \in [kept : BOOLEAN, count : Nat, at : Nat, read : Nat]
  BY <1>2 DEF CollectorOf!Empty, CollectorOf!Zeros, CollectorOf!Reading, CollectorOf!Readings, CollectorOf!NoText,
     CollectorOf!Sources
<1> QED BY <1>1, <1>3, <1>4, <1>5 DEF Ahead, ReadingSlack

\* A step within a call, that gives nothing and keeps nothing.
LEMMA ReadingWithin ==
  ASSUME ReadingFreshInv, NEW t \in Readers, NEW place \in ReadingPlace \ {"idle", "stamp"},
         NEW began \in Nat, began <= kNow, NEW data \in CollectorOf!Readings, ReadingGoes(t, place, began, data),
         calls[t].at \notin {"idle", "stamp"}, CollectorOf!InCall,
         UNCHANGED <<kept, stamp, given>>, history'.overlapped = history.overlapped,
         texts' \in [{"dev", "netstats"} -> [kept : BOOLEAN, count : Nat, at : Nat, read : Nat]],
         last' \in [by : CollectorOf!Sources \cup {"nobody"}, count : Nat],
         history' \in [told : Nat, mixed : BOOLEAN, overlapped : BOOLEAN],
         \A s \in {"dev", "netstats"} : texts'[s].kept => texts'[s].read = texts'[s].at,
         place \in {"compute", "store"} => data.by \in CollectorOf!Sources,
         CollectorOf!OfApp => place = "keep" /\ data.by = "app",
         data # CollectorOf!Empty => began - data.asOf < ReadingSlack
  PROVE  ReadingFreshInv'
<1> USE DEF ReadingFreshInv
<1>1. /\ calls' \in [Readers -> [at : ReadingPlace, since : Nat, data : CollectorOf!Readings]]
      /\ calls'[t].at = place /\ calls'[t].since = began /\ calls'[t].data = data
      /\ \A u \in Readers \ {t} : calls'[u] = calls[u]
  BY DEF ReadingGoes
<1>2. UNCHANGED <<kCircumstance, kNow, asks, kDevice, kept, stamp, given>> 
  BY DEF CollectorOf!InCall
<1>3. CollectorOf!TypeOK'
  BY <1>1, <1>2 DEF CollectorOf!TypeOK, CollectorOf!ConstantsOK, ReadingPlace
<1>4. ReadingAlone'
  BY <1>1 DEF ReadingAlone
<1>5. ReadingPlaces'
  BY <1>1, <1>2 DEF ReadingPlaces, ReadingOfSource, CollectorOf!OfApp
<1>6. ReadingTimes'
  BY <1>1, <1>2 DEF ReadingTimes, ReadingSlack, CollectorOf!OfApp, CollectorOf!Empty
<1>7. ReadingStamped'
  BY <1>1, <1>2 DEF ReadingStamped, CollectorOf!OfApp, CollectorOf!Empty
<1>8. CollectorOf!ReadingsAreFresh'
  BY <1>2 DEF CollectorOf!ReadingsAreFresh, CollectorOf!OfApp, CollectorOf!Empty
<1> QED BY <1>3, <1>4, <1>5, <1>6, <1>7, <1>8
LEMMA ReadingDevice ==
  ASSUME ReadingFreshInv,
         \/ CollectorOf!Tick \/ CollectorOf!Traffic \/ CollectorOf!Reboot \/ CollectorOf!Disconnect
         \/ CollectorOf!Reconnect \/ UNCHANGED CollectorOf!vars
  PROVE  ReadingFreshInv'
<1> USE DEF ReadingFreshInv
<1>1. /\ UNCHANGED <<kCircumstance, asks, texts, last, kept, stamp, calls, given, history>>
      /\ kNow' \in Nat /\ kNow' >= kNow
  BY DEF CollectorOf!Tick, CollectorOf!Traffic, CollectorOf!Reboot, CollectorOf!Disconnect, CollectorOf!Reconnect,
     CollectorOf!vars, CollectorOf!collector, CollectorOf!OfDevice, CollectorOf!TypeOK
<1>2. CollectorOf!TypeOK'
  <2>1. kDevice' \in [link : BOOLEAN, counter : Nat, moved : Nat, outages : Nat, reboots : Nat]
    <3>0. kDevice \in [link : BOOLEAN, counter : Nat, moved : Nat, outages : Nat, reboots : Nat]
      BY DEF CollectorOf!TypeOK
    <3> HIDE DEF ReadingFreshInv
    <3>1. CASE CollectorOf!Tick \/ UNCHANGED CollectorOf!vars
      BY <3>0, <3>1 DEF CollectorOf!Tick, CollectorOf!vars
    <3>2. CASE CollectorOf!Traffic
      <4>1. kDevice' = [kDevice EXCEPT !.moved = @ + 1, !.counter = @ + 1]
        BY <3>2 DEF CollectorOf!Traffic
      <4>2. kDevice.moved + 1 \in Nat /\ kDevice.counter + 1 \in Nat
        BY <3>0, <4>1
      <4> QED BY <3>0, <4>1, <4>2
    <3>3. CASE CollectorOf!Reboot
      <4>1. kDevice' = [kDevice EXCEPT !.counter = 0, !.reboots = @ - 1] /\ kDevice.reboots > 0
        BY <3>3 DEF CollectorOf!Reboot
      <4>2. kDevice.reboots - 1 \in Nat
        BY <3>0, <4>1
      <4> QED BY <3>0, <4>1, <4>2
    <3>4. CASE CollectorOf!Disconnect
      <4>1. kDevice' = [kDevice EXCEPT !.link = FALSE, !.outages = @ - 1] /\ kDevice.outages > 0
        BY <3>4 DEF CollectorOf!Disconnect
      <4>2. kDevice.outages - 1 \in Nat
        BY <3>0, <4>1
      <4> QED BY <3>0, <4>1, <4>2
    <3>5. CASE CollectorOf!Reconnect
      BY <3>0, <3>5 DEF CollectorOf!Reconnect
    <3> QED BY <3>1, <3>2, <3>3, <3>4, <3>5
  <2> QED BY <1>1, <2>1 DEF CollectorOf!TypeOK, CollectorOf!ConstantsOK
<1>3. ReadingPlaces'
  BY <1>1, <1>2 DEF ReadingPlaces, ReadingOfSource, CollectorOf!OfApp, CollectorOf!TypeOK
<1> QED
  BY <1>1, <1>2, <1>3 DEF ReadingAlone, ReadingTimes, ReadingSlack, ReadingStamped, CollectorOf!OfApp,
     CollectorOf!Empty, CollectorOf!ReadingsAreFresh

LEMMA ReadingText ==
  ASSUME ReadingFreshInv, NEW t \in Readers, NEW s \in {"dev", "netstats"}, CollectorOf!ReadText(t, s)
  PROVE  ReadingFreshInv'
<1> DEFINE new == IF CollectorOf!Answers(s)
                  THEN [kept |-> TRUE, count |-> CollectorOf!Count(s), at |-> kNow, read |-> kNow]
                  ELSE CollectorOf!NoText
           text == IF CollectorOf!Kept(s) # CollectorOf!NoText THEN CollectorOf!Kept(s) ELSE new
           data == IF text # CollectorOf!NoText THEN CollectorOf!Reading(s, text.count, text.read)
                   ELSE CollectorOf!Zeros
           place == IF text # CollectorOf!NoText THEN "compute" ELSE IF s = "dev" THEN "netstats" ELSE "keep"
<1>1. /\ calls[t].at = s /\ texts' = [texts EXCEPT ![s] = text] /\ CollectorOf!Go(t, place, data)
      /\ CollectorOf!InCall /\ UNCHANGED <<last, kept, stamp, given, history>>
  BY DEF CollectorOf!ReadText, CollectorOf!At
<1>2. CollectorOf!TypeOK /\ kNow \in Nat /\ s \in CollectorOf!Sources
      /\ texts \in [{"dev", "netstats"} -> [kept : BOOLEAN, count : Nat, at : Nat, read : Nat]]
      /\ calls[t].since \in Nat
  BY DEF ReadingFreshInv, CollectorOf!TypeOK, CollectorOf!Sources
<1>3. ~CollectorOf!OfApp /\ calls[t].since <= kNow
  BY <1>1 DEF ReadingFreshInv, ReadingPlaces
<1>4. new \in [kept : BOOLEAN, count : Nat, at : Nat, read : Nat] /\ (new.kept => new.at = kNow /\ new.read = kNow)
      /\ (~new.kept => new = CollectorOf!NoText)
  BY <1>2, ReadingTypes DEF CollectorOf!NoText
<1>5. CollectorOf!Kept(s) # CollectorOf!NoText =>
        /\ CollectorOf!Kept(s) = texts[s] /\ texts[s].kept /\ kNow - texts[s].at < TextAge
        /\ texts[s].read = texts[s].at
  BY DEF CollectorOf!Kept, ReadingFreshInv, ReadingTimes
<1>6. /\ text \in [kept : BOOLEAN, count : Nat, at : Nat, read : Nat]
      /\ text.kept => text.read = text.at
      /\ text # CollectorOf!NoText => kNow - text.read < TextAge
  <2> HIDE DEF new
  <2>1. CASE CollectorOf!Kept(s) # CollectorOf!NoText
    BY <1>2, <1>5, <2>1
  <2>2. CASE CollectorOf!Kept(s) = CollectorOf!NoText
    <3>1. text = new
      BY <2>2
    <3>2. kNow - kNow < TextAge
      BY <1>2, ReadingTypes
    <3> QED BY <1>4, <3>1, <3>2
  <2> QED BY <2>1, <2>2
<1> HIDE DEF text
<1>7. /\ data \in CollectorOf!Readings /\ place \in ReadingPlace \ {"idle", "stamp"}
      /\ place \in {"compute", "store"} => data.by \in CollectorOf!Sources
      /\ data.asOf \in Nat /\ kNow - data.asOf < TextAge
  <2>1. CASE text # CollectorOf!NoText
    BY <1>2, <1>6, <2>1 DEF CollectorOf!Reading, CollectorOf!Readings, ReadingPlace
  <2>2. CASE text = CollectorOf!NoText
    <3>1. data = CollectorOf!Zeros /\ place \in {"netstats", "keep"}
      BY <2>2
    <3>2. kNow - kNow < TextAge
      BY <1>2, ReadingTypes
    <3> QED BY <1>2, <3>1, <3>2, ReadingTypes DEF ReadingPlace, CollectorOf!Sources
  <2> QED BY <2>1, <2>2
<1>8. texts' \in [{"dev", "netstats"} -> [kept : BOOLEAN, count : Nat, at : Nat, read : Nat]]
  BY <1>1, <1>2, <1>6
<1>9. \A r \in {"dev", "netstats"} : texts'[r].kept => texts'[r].read = texts'[r].at
  BY <1>1, <1>2, <1>6 DEF ReadingFreshInv, ReadingTimes
<1>10. calls[t].since - data.asOf < ReadingSlack
  <2>1. ReadingSlack = TextAge /\ TextAge \in Nat
    BY <1>2, <1>3, ReadingTypes DEF ReadingSlack
  <2> HIDE DEF data
  <2> QED BY <1>2, <1>3, <1>7, <2>1
<1> HIDE DEF place, data
<1>11. /\ last' \in [by : CollectorOf!Sources \cup {"nobody"}, count : Nat]
       /\ history' \in [told : Nat, mixed : BOOLEAN, overlapped : BOOLEAN]
       /\ calls[t].at \notin {"idle", "stamp"}
  BY <1>1, <1>2 DEF CollectorOf!TypeOK
<1>12. ReadingGoes(t, place, calls[t].since, data)
  BY <1>1, <1>2, <1>7, ReadingGo
<1> QED BY <1>1, <1>2, <1>3, <1>7, <1>8, <1>9, <1>10, <1>11, <1>12, ReadingWithin
LEMMA ReadingAgain ==
  ASSUME ReadingFreshInv, NEW t \in Readers, CollectorOf!Garbled(t) \/ CollectorOf!ReadWhole(t)
  PROVE  ReadingFreshInv'
<1>1. /\ calls[t].at \in {"dev", "netstats", "keep", "whole"} /\ CollectorOf!InCall
      /\ UNCHANGED <<texts, last, kept, stamp, given, history>>
  BY DEF CollectorOf!Garbled, CollectorOf!ReadWhole, CollectorOf!At, CollectorOf!collector
<1>2. CollectorOf!TypeOK /\ kNow \in Nat /\ calls[t].since \in Nat
      /\ last' \in [by : CollectorOf!Sources \cup {"nobody"}, count : Nat]
      /\ history' \in [told : Nat, mixed : BOOLEAN, overlapped : BOOLEAN]
      /\ texts' \in [{"dev", "netstats"} -> [kept : BOOLEAN, count : Nat, at : Nat, read : Nat]]
      /\ \A s \in {"dev", "netstats"} : texts'[s].kept => texts'[s].read = texts'[s].at
  BY <1>1 DEF ReadingFreshInv, ReadingTimes, CollectorOf!TypeOK
<1>3. ~CollectorOf!OfApp /\ calls[t].since <= kNow
  <2>1. calls[t].at = "keep" => calls[t].data.by \in {"dev", "netstats"}
    BY DEF CollectorOf!Garbled, CollectorOf!ReadWhole, CollectorOf!At
  <2> QED BY <1>1, <2>1 DEF ReadingFreshInv, ReadingPlaces
<1>4. ReadingSlack = TextAge /\ TextAge \in Nat \ {0}
  BY <1>2, <1>3, ReadingTypes DEF ReadingSlack
<1>5. CASE CollectorOf!Garbled(t)
  <2>1. ReadingGoes(t, "whole", calls[t].since, CollectorOf!Empty)
    BY <1>2, <1>5, ReadingGo, ReadingTypes DEF CollectorOf!Garbled, ReadingPlace, CollectorOf!Sources
  <2> QED BY <1>1, <1>2, <1>3, <2>1, ReadingTypes, ReadingWithin DEF ReadingPlace, CollectorOf!Sources
<1>6. CASE CollectorOf!ReadWhole(t)
  <2>1. CASE CollectorOf!Answers("whole")
    <3> DEFINE data == CollectorOf!Reading("whole", CollectorOf!Count("whole"), kNow)
    <3>1. CollectorOf!Go(t, "compute", data)
      BY <1>6, <2>1 DEF CollectorOf!ReadWhole
    <3>2. data \in CollectorOf!Readings /\ data.by = "whole" /\ data.asOf = kNow
      BY <1>2, ReadingTypes DEF CollectorOf!Reading, CollectorOf!Readings, CollectorOf!Sources
    <3> HIDE DEF data
    <3>3. ReadingGoes(t, "compute", calls[t].since, data)
      BY <1>2, <3>1, <3>2, ReadingGo DEF ReadingPlace
    <3>4. calls[t].since - data.asOf < ReadingSlack
      BY <1>2, <1>3, <1>4, <3>2
    <3> QED
      BY <1>1, <1>2, <1>3, <3>2, <3>3, <3>4, ReadingWithin DEF ReadingPlace, CollectorOf!Sources
  <2>2. CASE ~CollectorOf!Answers("whole") /\ kDevice.link
    <3>1. ReadingGoes(t, "keep", calls[t].since, CollectorOf!Zeros)
      BY <1>2, <1>6, <2>2, ReadingGo, ReadingTypes DEF CollectorOf!ReadWhole, ReadingPlace
    <3>2. calls[t].since - CollectorOf!Zeros.asOf < ReadingSlack
      <4>1. CollectorOf!Zeros.asOf = kNow
        BY <1>2, ReadingTypes
      <4> QED BY <1>2, <1>3, <1>4, <4>1
    <3> QED
      BY <1>1, <1>2, <1>3, <3>1, <3>2, ReadingTypes, ReadingWithin DEF ReadingPlace
  <2>3. CASE ~CollectorOf!Answers("whole") /\ ~kDevice.link
    <3>1. ReadingGoes(t, "keep", kNow, CollectorOf!Empty)
      <4>1. calls' = [calls EXCEPT ![t] = [at |-> "keep", since |-> kNow, data |-> CollectorOf!Empty]]
        BY <1>6, <2>3 DEF CollectorOf!ReadWhole
      <4>2. calls \in [Readers -> [at : ReadingPlace, since : Nat, data : CollectorOf!Readings]]
        BY <1>2 DEF CollectorOf!TypeOK, ReadingPlace
      <4>3. CollectorOf!Empty \in CollectorOf!Readings
        BY <1>2, ReadingTypes
      <4> QED BY <1>2, <4>1, <4>2, <4>3 DEF ReadingPlace, ReadingGoes
    <3>2. kNow <= kNow /\ CollectorOf!Empty \in CollectorOf!Readings
      BY <1>2, ReadingTypes
    <3>3. "keep" \in ReadingPlace \ {"idle", "stamp"}
      BY DEF ReadingPlace
    <3> QED
      BY <1>1, <1>2, <1>3, <3>1, <3>2, <3>3, ReadingWithin
  <2> QED BY <2>1, <2>2, <2>3
<1> QED BY <1>5, <1>6
LEMMA ReadingComputed ==
  ASSUME ReadingFreshInv, NEW t \in Readers, CollectorOf!Compute(t)
  PROVE  ReadingFreshInv'
<1> DEFINE d == calls[t].data
           data == [d EXCEPT !.traffic = CollectorOf!Gain(d.count)]
<1>1. /\ calls[t].at = "compute" /\ CollectorOf!Go(t, "store", data) /\ CollectorOf!InCall
      /\ UNCHANGED <<texts, last, kept, stamp, given, history>>
  BY DEF CollectorOf!Compute, CollectorOf!At, CollectorOf!collector
<1>2. /\ CollectorOf!TypeOK /\ d \in CollectorOf!Readings /\ calls[t].since \in Nat /\ calls[t].since <= kNow
      /\ d.by \in CollectorOf!Sources /\ ~CollectorOf!OfApp
      /\ d # CollectorOf!Empty => calls[t].since - d.asOf < ReadingSlack
  BY <1>1 DEF ReadingFreshInv, ReadingPlaces, ReadingOfSource, ReadingTimes, CollectorOf!TypeOK
<1>3. CollectorOf!Gain(d.count) \in Nat
  BY <1>2, ReadingTypes DEF CollectorOf!Readings
<1> HIDE DEF d
<1>4. data \in CollectorOf!Readings /\ data.by = d.by /\ data.asOf = d.asOf
  BY <1>2, <1>3 DEF CollectorOf!Readings
<1>5. d # CollectorOf!Empty
  BY <1>2, ReadingTypes DEF CollectorOf!Sources
<1> HIDE DEF data
<1>6. ReadingGoes(t, "store", calls[t].since, data)
  BY <1>1, <1>2, <1>4, ReadingGo DEF ReadingPlace
<1>7. /\ last' \in [by : CollectorOf!Sources \cup {"nobody"}, count : Nat]
      /\ history' \in [told : Nat, mixed : BOOLEAN, overlapped : BOOLEAN]
      /\ texts' \in [{"dev", "netstats"} -> [kept : BOOLEAN, count : Nat, at : Nat, read : Nat]]
      /\ \A s \in {"dev", "netstats"} : texts'[s].kept => texts'[s].read = texts'[s].at
  BY <1>1 DEF ReadingFreshInv, ReadingTimes, CollectorOf!TypeOK
<1>8. "store" \in ReadingPlace \ {"idle", "stamp"}
  BY DEF ReadingPlace
<1> QED BY <1>1, <1>2, <1>4, <1>5, <1>6, <1>7, <1>8, ReadingWithin

LEMMA ReadingStored ==
  ASSUME ReadingFreshInv, NEW t \in Readers, CollectorOf!Store(t)
  PROVE  ReadingFreshInv'
<1> DEFINE d == calls[t].data
           place == IF d.by = "dev" /\ d.count = 0 THEN "netstats" ELSE "keep"
<1>1. /\ calls[t].at = "store" /\ CollectorOf!Go(t, place, d) /\ CollectorOf!InCall
      /\ UNCHANGED <<texts, kept, stamp, given>>
      /\ last' = [by |-> d.by, count |-> d.count]
      /\ history' = [history EXCEPT !.mixed = @ \/ last.by \notin {"nobody", d.by}]
  BY DEF CollectorOf!Store, CollectorOf!At
<1>2. /\ CollectorOf!TypeOK /\ d \in CollectorOf!Readings /\ calls[t].since \in Nat /\ calls[t].since <= kNow
      /\ d.by \in CollectorOf!Sources /\ ~CollectorOf!OfApp
      /\ d # CollectorOf!Empty => calls[t].since - d.asOf < ReadingSlack
  BY <1>1 DEF ReadingFreshInv, ReadingPlaces, ReadingOfSource, ReadingTimes, CollectorOf!TypeOK
<1>3. place \in ReadingPlace \ {"idle", "stamp"} /\ place \notin {"compute", "store"}
  BY DEF ReadingPlace, CollectorOf!Sources
<1> HIDE DEF place
<1>4. ReadingGoes(t, place, calls[t].since, d)
  BY <1>1, <1>2, <1>3, ReadingGo
<1>5. history' \in [told : Nat, mixed : BOOLEAN, overlapped : BOOLEAN] /\ history'.overlapped = history.overlapped
  BY <1>1, <1>2 DEF CollectorOf!TypeOK
<1>6. /\ last' \in [by : CollectorOf!Sources \cup {"nobody"}, count : Nat]
      /\ texts' \in [{"dev", "netstats"} -> [kept : BOOLEAN, count : Nat, at : Nat, read : Nat]]
      /\ \A s \in {"dev", "netstats"} : texts'[s].kept => texts'[s].read = texts'[s].at
  BY <1>1, <1>2 DEF ReadingFreshInv, ReadingTimes, CollectorOf!TypeOK, CollectorOf!Readings
<1> HIDE DEF d
<1> QED BY <1>1, <1>2, <1>3, <1>4, <1>5, <1>6, ReadingWithin

LEMMA ReadingBatch ==
  ASSUME ReadingFreshInv, NEW t \in Readers, CollectorOf!Batch(t)
  PROVE  ReadingFreshInv'
<1> DEFINE data == CollectorOf!Reading("app", 0, kNow)
<1>1. /\ calls[t].at = "batch" /\ CollectorOf!Go(t, "keep", data) /\ CollectorOf!InCall
      /\ UNCHANGED <<texts, last, kept, stamp, given, history>>
  BY DEF CollectorOf!Batch, CollectorOf!At, CollectorOf!collector
<1>2. /\ CollectorOf!TypeOK /\ calls[t].since \in Nat /\ kNow \in Nat /\ calls[t].since <= kNow
      /\ last' \in [by : CollectorOf!Sources \cup {"nobody"}, count : Nat]
      /\ history' \in [told : Nat, mixed : BOOLEAN, overlapped : BOOLEAN]
      /\ texts' \in [{"dev", "netstats"} -> [kept : BOOLEAN, count : Nat, at : Nat, read : Nat]]
      /\ \A s \in {"dev", "netstats"} : texts'[s].kept => texts'[s].read = texts'[s].at
  BY <1>1 DEF ReadingFreshInv, ReadingPlaces, ReadingTimes, CollectorOf!TypeOK
<1>3. data \in CollectorOf!Readings /\ data.by = "app" /\ data.asOf = kNow
  BY <1>2 DEF CollectorOf!Reading, CollectorOf!Readings
<1> HIDE DEF data
<1>4. ReadingGoes(t, "keep", calls[t].since, data) /\ "keep" \in ReadingPlace \ {"idle", "stamp"}
  BY <1>1, <1>2, <1>3, ReadingGo DEF ReadingPlace
<1>5. calls[t].since - data.asOf < ReadingSlack
  <2>1. ReadingSlack \in Nat \ {0}
    BY <1>2, ReadingTypes
  <2> QED BY <1>2, <1>3, <2>1
<1> QED BY <1>1, <1>2, <1>3, <1>4, <1>5, ReadingWithin

\* The reading is kept, and then stamped.
LEMMA ReadingKept ==
  ASSUME ReadingFreshInv, NEW t \in Readers, CollectorOf!Keep(t)
  PROVE  ReadingFreshInv'
<1>1. /\ calls[t].at = "keep" /\ CollectorOf!Go(t, "stamp", calls[t].data)
      /\ UNCHANGED <<kCircumstance, kNow, asks, kDevice, texts, last, stamp, given>>
      /\ kept' = [data |-> calls[t].data, at |-> calls[t].since]
      /\ history' = [history EXCEPT !.told = @ + calls[t].data.traffic]
  BY DEF CollectorOf!Keep, CollectorOf!At, CollectorOf!InCall
<1>2. /\ CollectorOf!TypeOK /\ calls[t].data \in CollectorOf!Readings /\ calls[t].since \in Nat
      /\ history \in [told : Nat, mixed : BOOLEAN, overlapped : BOOLEAN]
  BY DEF ReadingFreshInv, CollectorOf!TypeOK
<1>3. ReadingGoes(t, "stamp", calls[t].since, calls[t].data)
  BY <1>1, <1>2, ReadingGo DEF ReadingPlace
<1>4. /\ history' \in [told : Nat, mixed : BOOLEAN, overlapped : BOOLEAN]
      /\ history'.overlapped = history.overlapped /\ history'.mixed = history.mixed
      /\ history'.told = history.told + calls[t].data.traffic
  <2>1. calls[t].data.traffic \in Nat
    BY <1>2 DEF CollectorOf!Readings
  <2> QED BY <1>1, <1>2, <2>1
<1>5. CollectorOf!TypeOK'
  BY <1>1, <1>2, <1>3, <1>4 DEF CollectorOf!TypeOK, CollectorOf!ConstantsOK, ReadingGoes, ReadingPlace
<1>6. ReadingAlone' /\ ReadingPlaces'
  BY <1>1, <1>3, <1>4 DEF ReadingFreshInv, ReadingAlone, ReadingPlaces, ReadingOfSource, ReadingGoes,
     CollectorOf!OfApp
<1>7. ReadingTimes'
  BY <1>1, <1>3 DEF ReadingFreshInv, ReadingTimes, ReadingGoes, ReadingSlack, CollectorOf!OfApp, CollectorOf!Empty
<1>8. ReadingStamped'
  <2>1. stamp' >= 0 \/ stamp' = -Interval
    BY <1>1 DEF ReadingFreshInv, ReadingStamped
  <2>2. \A u \in Readers : ~history'.overlapped /\ calls'[u].at = "stamp" => u = t
    BY <1>1, <1>3, <1>4 DEF ReadingFreshInv, ReadingAlone, ReadingGoes
  <2> QED BY <1>1, <1>3, <2>1, <2>2 DEF ReadingStamped, ReadingGoes
<1>9. CollectorOf!ReadingsAreFresh'
  BY <1>1, <1>4 DEF ReadingFreshInv, CollectorOf!ReadingsAreFresh, CollectorOf!OfApp, CollectorOf!Empty
<1> QED BY <1>5, <1>6, <1>7, <1>8, <1>9 DEF ReadingFreshInv

LEMMA ReadingStamp ==
  ASSUME ReadingFreshInv, NEW t \in Readers, CollectorOf!Stamp(t)
  PROVE  ReadingFreshInv'
<1>1. /\ calls[t].at = "stamp" /\ CollectorOf!Go(t, "idle", CollectorOf!Empty)
      /\ UNCHANGED <<kCircumstance, kNow, asks, kDevice, texts, last, kept, history>>
      /\ stamp' = calls[t].since
      /\ given' = [given EXCEPT ![t] = [data |-> calls[t].data, asked |-> calls[t].since]]
  BY DEF CollectorOf!Stamp, CollectorOf!At, CollectorOf!InCall
<1>2. /\ CollectorOf!TypeOK /\ calls[t].data \in CollectorOf!Readings /\ calls[t].since \in Nat
      /\ given \in [Readers -> [data : CollectorOf!Readings, asked : Int]]
  BY DEF ReadingFreshInv, CollectorOf!TypeOK
<1>3. ReadingGoes(t, "idle", calls[t].since, CollectorOf!Empty)
  BY <1>1, <1>2, ReadingGo, ReadingTypes DEF ReadingPlace
<1>4. given' \in [Readers -> [data : CollectorOf!Readings, asked : Int]]
  BY <1>1, <1>2
<1>5. CollectorOf!TypeOK'
  BY <1>1, <1>2, <1>3, <1>4 DEF CollectorOf!TypeOK, CollectorOf!ConstantsOK, ReadingGoes, ReadingPlace
<1>6. ReadingAlone' /\ ReadingPlaces'
  BY <1>1, <1>3 DEF ReadingFreshInv, ReadingAlone, ReadingPlaces, ReadingOfSource, ReadingGoes,
     CollectorOf!OfApp
<1>7. ReadingTimes'
  BY <1>1, <1>3 DEF ReadingFreshInv, ReadingTimes, ReadingGoes, ReadingSlack, CollectorOf!OfApp, CollectorOf!Empty
<1>8. CollectorOf!OfApp => calls[t].data # CollectorOf!Empty
  BY <1>1, <1>2, ReadingTypes DEF ReadingFreshInv, ReadingPlaces
<1>9. ReadingStamped'
  <2>1. stamp' >= 0
    BY <1>1, <1>2
  <2>2. \A u \in Readers : ~history.overlapped => calls'[u].at # "stamp"
    BY <1>1, <1>3 DEF ReadingFreshInv, ReadingAlone, ReadingGoes
  <2>3. ~history.overlapped => kept = [data |-> calls[t].data, at |-> calls[t].since]
    BY <1>1 DEF ReadingFreshInv, ReadingStamped
  <2> QED BY <1>1, <1>8, <2>1, <2>2, <2>3 DEF ReadingStamped, CollectorOf!OfApp, CollectorOf!Empty
<1>10. CollectorOf!ReadingsAreFresh'
  <2> SUFFICES ASSUME NEW u \in Readers
      PROVE  LET g == given'[u]
                 long == IF history.overlapped THEN DataAge ELSE Interval
             IN  /\ g.data # CollectorOf!Empty =>
                      g.asked - g.data.asOf < long + (IF CollectorOf!OfApp THEN 0 ELSE TextAge)
                 /\ CollectorOf!OfApp /\ g.asked >= 0 /\ ~history.overlapped => g.data # CollectorOf!Empty
    BY <1>1 DEF CollectorOf!ReadingsAreFresh, CollectorOf!OfApp, CollectorOf!Empty
  <2>1. CASE u = t
    <3>1. given'[u] = [data |-> calls[t].data, asked |-> calls[t].since]
      BY <1>1, <1>2, <2>1
    <3>2. calls[t].data # CollectorOf!Empty => calls[t].since - calls[t].data.asOf < ReadingSlack
      BY DEF ReadingFreshInv, ReadingTimes
    <3>3. calls[t].data.asOf \in Nat
      BY <1>2 DEF CollectorOf!Readings
    <3>4. TextAge \in Nat \ {0} /\ DataAge \in Nat \ {0} /\ Interval \in Nat \ {0}
      BY <1>2, ReadingTypes
    <3> QED BY <1>2, <1>8, <3>1, <3>2, <3>3, <3>4 DEF ReadingSlack
  <2>2. CASE u # t
    BY <1>1, <1>2, <2>2 DEF ReadingFreshInv, CollectorOf!ReadingsAreFresh
  <2> QED BY <2>1, <2>2
<1> QED BY <1>5, <1>6, <1>7, <1>9, <1>10 DEF ReadingFreshInv
\* What is kept is given only while it is fresh, and an app that is asked for again so soon
\* is still there.
LEMMA ReadingUsable ==
  ASSUME ReadingFreshInv, NEW t \in Readers, CollectorOf!IsRecent, CollectorOf!Usable \/ CollectorOf!OfApp,
         NEW overlapped \in BOOLEAN, history.overlapped => overlapped,
         ~overlapped => \A u \in Readers : calls[u].at = "idle"
  PROVE  LET data == IF CollectorOf!Usable THEN kept.data ELSE CollectorOf!Empty
             long == IF overlapped THEN DataAge ELSE Interval
         IN  /\ data # CollectorOf!Empty =>
                  kNow - data.asOf < long + (IF CollectorOf!OfApp THEN 0 ELSE TextAge)
             /\ CollectorOf!OfApp /\ ~overlapped => CollectorOf!Usable
<1>1. /\ CollectorOf!TypeOK /\ kNow \in Nat /\ kept.data \in CollectorOf!Readings /\ kept.at \in Nat /\ stamp \in Int
      /\ kNow - stamp < Interval
  BY DEF ReadingFreshInv, CollectorOf!TypeOK, CollectorOf!IsRecent
<1>2. TextAge \in Nat \ {0} /\ DataAge \in Nat \ {0} /\ Interval \in Nat \ {0} /\ Interval <= DataAge
  BY <1>1, ReadingTypes
<1>3. stamp >= 0
  BY <1>1, <1>2 DEF ReadingFreshInv, ReadingStamped
<1>4. ~overlapped => /\ kept.data # CollectorOf!Empty => kept.at = stamp
                     /\ CollectorOf!OfApp => kept.data # CollectorOf!Empty /\ kept.at = stamp
  BY <1>3 DEF ReadingFreshInv, ReadingStamped
<1>5. kept.data.asOf \in Nat
  BY <1>1 DEF CollectorOf!Readings
<1>6. kept.data # CollectorOf!Empty => kept.at - kept.data.asOf < ReadingSlack
  BY DEF ReadingFreshInv, ReadingTimes
<1>7. CollectorOf!Usable <=> kept.data # CollectorOf!Empty /\ kNow - kept.at < DataAge
  BY DEF CollectorOf!Usable
<1>8. CollectorOf!OfApp /\ ~overlapped => CollectorOf!Usable
  BY <1>1, <1>2, <1>4, <1>7
<1>9. CASE CollectorOf!Usable
  <2>1. kNow - kept.at < IF overlapped THEN DataAge ELSE Interval
    BY <1>1, <1>4, <1>7, <1>9
  <2>2. kept.at - kept.data.asOf < ReadingSlack
    BY <1>6, <1>7, <1>9
  <2> QED BY <1>1, <1>2, <1>5, <1>8, <1>9, <2>1, <2>2 DEF ReadingSlack
<1>10. CASE ~CollectorOf!Usable
  BY <1>8, <1>10
<1> QED BY <1>9, <1>10

LEMMA ReadingAsk ==
  ASSUME ReadingFreshInv, NEW t \in Readers, CollectorOf!Ask(t)
  PROVE  ReadingFreshInv'
<1> DEFINE again == CollectorOf!IsRecent /\ (CollectorOf!Usable \/ CollectorOf!OfApp)
           data == IF CollectorOf!Usable THEN kept.data ELSE CollectorOf!Empty
           place == IF CollectorOf!OfApp THEN "batch" ELSE "dev"
           others == \E u \in Readers \ {t} : calls[u].at # "idle"
<1>1. /\ calls[t].at = "idle" /\ asks > 0 /\ asks' = asks - 1
      /\ UNCHANGED <<kCircumstance, kNow, kDevice, texts, last, stamp>>
      /\ kept' = IF CollectorOf!IsRecent /\ ~CollectorOf!Usable THEN [kept EXCEPT !.data = CollectorOf!Empty] ELSE kept
      /\ history' = [history EXCEPT !.overlapped = @ \/ others]
      /\ again => given' = [given EXCEPT ![t] = [data |-> data, asked |-> kNow]] /\ calls' = calls
      /\ ~again => /\ calls' = [calls EXCEPT ![t] = [at |-> place, since |-> kNow, data |-> CollectorOf!Empty]]
                   /\ given' = given
  BY DEF CollectorOf!Ask, CollectorOf!At
<1>2. /\ CollectorOf!TypeOK /\ kNow \in Nat /\ asks \in Nat /\ history \in [told : Nat, mixed : BOOLEAN, overlapped : BOOLEAN]
      /\ kept \in [data : CollectorOf!Readings, at : Nat]
      /\ given \in [Readers -> [data : CollectorOf!Readings, asked : Int]]
      /\ calls \in [Readers -> [at : ReadingPlace, since : Nat, data : CollectorOf!Readings]]
  BY DEF ReadingFreshInv, CollectorOf!TypeOK, ReadingPlace
<1>3. CollectorOf!Empty \in CollectorOf!Readings
  BY <1>2, ReadingTypes
<1> HIDE DEF again, data, place, others
<1>4. /\ history' \in [told : Nat, mixed : BOOLEAN, overlapped : BOOLEAN]
      /\ history'.overlapped <=> history.overlapped \/ others
      /\ history'.mixed = history.mixed /\ history'.told = history.told
  <2>1. others \in BOOLEAN
    BY DEF others
  <2> QED BY <1>1, <1>2, <2>1
<1>5. ~history'.overlapped => ~history.overlapped /\ \A u \in Readers : calls[u].at = "idle"
  BY <1>1, <1>4 DEF others
<1>6. /\ kept' \in [data : CollectorOf!Readings, at : Nat] /\ kept'.at = kept.at
      /\ kept'.data \in {kept.data, CollectorOf!Empty}
      /\ ~CollectorOf!IsRecent \/ CollectorOf!Usable => kept' = kept
  BY <1>1, <1>2, <1>3
<1>7. /\ place \in ReadingPlace \ {"idle", "stamp", "compute", "store", "keep"}
      /\ CollectorOf!OfApp => place = "batch"
  BY DEF place, ReadingPlace, CollectorOf!Sources
<1>8. /\ calls' \in [Readers -> [at : ReadingPlace, since : Nat, data : CollectorOf!Readings]]
      /\ \A u \in Readers \ {t} : calls'[u] = calls[u]
      /\ \/ calls'[t] = calls[t]
         \/ calls'[t] = [at |-> place, since |-> kNow, data |-> CollectorOf!Empty]
  <2>1. [at |-> place, since |-> kNow, data |-> CollectorOf!Empty]
          \in [at : ReadingPlace, since : Nat, data : CollectorOf!Readings]
    BY <1>2, <1>3, <1>7
  <2> QED BY <1>1, <1>2, <2>1
<1>9. /\ given' \in [Readers -> [data : CollectorOf!Readings, asked : Int]]
      /\ \A u \in Readers \ {t} : given'[u] = given[u]
      /\ given'[t] = IF again THEN [data |-> data, asked |-> kNow] ELSE given[t]
  <2>1. data \in CollectorOf!Readings
    BY <1>2, <1>3 DEF data
  <2>2. [data |-> data, asked |-> kNow] \in [data : CollectorOf!Readings, asked : Int]
    BY <1>2, <2>1
  <2>3. given' = IF again THEN [given EXCEPT ![t] = [data |-> data, asked |-> kNow]] ELSE given
    BY <1>1
  <2>4. given \in [Readers -> [data : CollectorOf!Readings, asked : Int]]
    BY <1>2
  <2> HIDE DEF data, again
  <2> QED BY <2>2, <2>3, <2>4
<1>10. CollectorOf!TypeOK'
  BY <1>1, <1>2, <1>4, <1>6, <1>8, <1>9 DEF CollectorOf!TypeOK, CollectorOf!ConstantsOK, ReadingPlace
<1>11. ReadingAlone'
  BY <1>5, <1>8 DEF ReadingAlone
<1>12. ReadingPlaces'
  <2> SUFFICES ASSUME NEW u \in Readers
      PROVE  /\ calls'[u].at # "idle" => calls'[u].since <= kNow
             /\ ReadingOfSource(u)' => calls'[u].data.by \in CollectorOf!Sources
             /\ CollectorOf!OfApp => /\ calls'[u].at \in {"idle", "batch", "keep", "stamp"}
                                     /\ calls'[u].at \in {"keep", "stamp"} => calls'[u].data.by = "app"
    BY <1>1 DEF ReadingPlaces, CollectorOf!OfApp
  <2>1. CASE calls'[u] = calls[u]
    BY <2>1 DEF ReadingFreshInv, ReadingPlaces, ReadingOfSource
  <2>2. CASE calls'[u] # calls[u]
    BY <1>2, <1>7, <1>8, <2>2 DEF ReadingOfSource
  <2> QED BY <2>1, <2>2
<1>13. ReadingTimes'
  BY <1>1, <1>6, <1>8 DEF ReadingFreshInv, ReadingTimes, ReadingSlack, CollectorOf!OfApp, CollectorOf!Empty
<1>14. \A u : ~history'.overlapped => (CollectorOf!IsRecent /\ CollectorOf!OfApp => CollectorOf!Usable)
  BY <1>4, <1>5, <1>2, ReadingUsable
<1>15. ReadingStamped'
  <2>1. stamp' >= 0 \/ stamp' = -Interval
    BY <1>1 DEF ReadingFreshInv, ReadingStamped
  <2>2. \A u \in Readers : ~history'.overlapped => calls'[u].at # "stamp"
    BY <1>5, <1>7, <1>8
  <2>3. ~history'.overlapped =>
          /\ kept.data # CollectorOf!Empty => kept.at = stamp
          /\ CollectorOf!OfApp /\ stamp >= 0 => kept.data # CollectorOf!Empty /\ kept.at = stamp
    BY <1>5 DEF ReadingFreshInv, ReadingStamped
  <2>4. ~history'.overlapped =>
          /\ kept'.data # CollectorOf!Empty => kept'.at = stamp
          /\ CollectorOf!OfApp /\ stamp >= 0 => kept'.data # CollectorOf!Empty /\ kept'.at = stamp
    BY <1>6, <1>14, <2>3
  <2> QED BY <1>1, <2>1, <2>2, <2>4 DEF ReadingStamped, CollectorOf!OfApp, CollectorOf!Empty
<1>16. CollectorOf!ReadingsAreFresh'
  <2> SUFFICES ASSUME NEW u \in Readers
      PROVE  LET g == given'[u]
                 long == IF history'.overlapped THEN DataAge ELSE Interval
             IN  /\ g.data # CollectorOf!Empty =>
                      g.asked - g.data.asOf < long + (IF CollectorOf!OfApp THEN 0 ELSE TextAge)
                 /\ CollectorOf!OfApp /\ g.asked >= 0 /\ ~history'.overlapped => g.data # CollectorOf!Empty
    BY <1>1 DEF CollectorOf!ReadingsAreFresh, CollectorOf!OfApp, CollectorOf!Empty
  <2>1. CASE u = t /\ again
    <3>1. given'[u] = [data |-> data, asked |-> kNow]
      BY <1>9, <2>1
    <3>2. LET long == IF history'.overlapped THEN DataAge ELSE Interval
          IN  /\ data # CollectorOf!Empty =>
                   kNow - data.asOf < long + (IF CollectorOf!OfApp THEN 0 ELSE TextAge)
              /\ CollectorOf!OfApp /\ ~history'.overlapped => CollectorOf!Usable
      BY <1>2, <1>4, <1>5, <2>1, ReadingUsable DEF again, data
    <3>3. CollectorOf!Usable => data # CollectorOf!Empty
      BY DEF data, CollectorOf!Usable
    <3> QED BY <3>1, <3>2, <3>3
  <2>2. CASE ~(u = t /\ again)
    <3>1. given'[u] = given[u]
      BY <1>9, <2>2
    <3>2. TextAge \in Nat \ {0} /\ DataAge \in Nat \ {0} /\ Interval \in Nat \ {0} /\ Interval <= DataAge
      BY <1>2, ReadingTypes
    <3>3. given[u].asked \in Int /\ given[u].data.asOf \in Nat
      BY <1>2 DEF CollectorOf!Readings
    <3>4. LET g == given[u]
              long == IF history.overlapped THEN DataAge ELSE Interval
          IN  /\ g.data # CollectorOf!Empty =>
                   g.asked - g.data.asOf < long + (IF CollectorOf!OfApp THEN 0 ELSE TextAge)
              /\ CollectorOf!OfApp /\ g.asked >= 0 /\ ~history.overlapped => g.data # CollectorOf!Empty
      BY DEF ReadingFreshInv, CollectorOf!ReadingsAreFresh
    <3> QED BY <1>4, <3>1, <3>2, <3>3, <3>4
  <2> QED BY <2>1, <2>2
<1> QED BY <1>10, <1>11, <1>12, <1>13, <1>15, <1>16 DEF ReadingFreshInv
\* What the device counts.
LEMMA ReadingNumbers ==
  ASSUME CollectorOf!TypeOK
  PROVE  /\ Room \in Int /\ history.told \in Nat /\ Unread \in Nat
         /\ \A t \in Readers : /\ calls[t].data \in CollectorOf!Readings
                               /\ calls[t].data.count \in Nat /\ calls[t].data.traffic \in Nat
         /\ last.by \in CollectorOf!Sources \cup {"nobody"} /\ last.count \in Nat
         /\ \A s \in CollectorOf!Sources : CollectorOf!Count(s) \in Nat
         /\ \A s \in {"dev", "netstats"} : texts[s].count \in Nat /\ s \in CollectorOf!Sources
<1>1. /\ kDevice.moved \in Nat /\ kCircumstance.before \in Nat /\ history.told \in Nat
      /\ last.by \in CollectorOf!Sources \cup {"nobody"} /\ last.count \in Nat
  BY ReadingTypes DEF CollectorOf!TypeOK, CollectorOf!Config
<1>2. \A t \in Readers : /\ calls[t].data \in CollectorOf!Readings
                         /\ calls[t].data.count \in Nat /\ calls[t].data.traffic \in Nat
  <2>1. \A t \in Readers : calls[t].data \in CollectorOf!Readings
    BY DEF CollectorOf!TypeOK
  <2> QED BY <2>1 DEF CollectorOf!Readings
<1>3. \A s \in {"dev", "netstats"} : texts[s].count \in Nat /\ s \in CollectorOf!Sources
  BY DEF CollectorOf!TypeOK, CollectorOf!Sources
<1>4. Unread \in Nat
  <2>1. CASE last.by = "nobody"
    BY <2>1 DEF Unread
  <2>2. CASE last.by # "nobody"
    <3>1. CollectorOf!Count(last.by) \in Nat
      BY <1>1, <2>2, ReadingTypes
    <3> QED BY <1>1, <2>2, <3>1, ReadingTypes DEF Unread
  <2> QED BY <2>1, <2>2
<1>5. Room \in Int
  BY <1>1 DEF Room
<1> QED BY <1>1, <1>2, <1>3, <1>4, <1>5, ReadingTypes

\* Whatever the device does, what is counted anew has moved.
LEMMA ReadingCountsMove ==
  ASSUME CollectorOf!TypeOK, CollectorOf!TypeOK', ReadingPlaces, ReadingCounts,
         UNCHANGED <<kCircumstance, texts, last, calls, history>>,
         NEW more \in {0, 1}, kDevice'.moved = kDevice.moved + more,
         \A s \in CollectorOf!Sources : CollectorOf!Count(s)' <= CollectorOf!Count(s) + more
  PROVE  ReadingCounts'
<1>1. Room' = Room + more
  BY ReadingTypes DEF Room, CollectorOf!TypeOK, CollectorOf!Config
<1>2. \A s \in CollectorOf!Sources : CollectorOf!Count(s) \in Nat /\ CollectorOf!Count(s)' \in Nat
  <2>1. \A s \in CollectorOf!Sources : CollectorOf!Count(s)' \in Nat
    BY ReadingTypes DEF CollectorOf!Sources, CollectorOf!Count, CollectorOf!TypeOK, CollectorOf!Config
  <2> QED BY <2>1, ReadingTypes
<1>3. \A s \in CollectorOf!Sources, c \in Nat :
        Ahead(CollectorOf!Count(s)', c) <= Ahead(CollectorOf!Count(s), c) + more
        /\ Ahead(CollectorOf!Count(s)', c) \in Nat /\ Ahead(CollectorOf!Count(s), c) \in Nat
  BY <1>2 DEF Ahead
<1>4. Unread' <= Unread + more /\ Unread' \in Nat /\ Unread \in Nat
  <2>1. CASE last.by = "nobody"
    BY <2>1 DEF Unread
  <2>2. CASE last.by # "nobody"
    BY <1>3, <2>2, ReadingNumbers DEF Unread
  <2> QED BY <2>1, <2>2
<1>5. /\ \A t \in Readers : ReadingOfSource(t)' = ReadingOfSource(t)
      /\ \A c : CollectorOf!Gain(c)' = CollectorOf!Gain(c)
  BY DEF ReadingOfSource, CollectorOf!Gain
<1>6. Room' >= 0
  BY <1>1, ReadingNumbers DEF ReadingCounts
<1>7. ASSUME ~history.mixed, ~history.overlapped
      PROVE  history.told + Unread' <= Room'
  BY <1>1, <1>4, <1>7, ReadingNumbers DEF ReadingCounts
<1>8. ASSUME ~history.mixed, ~history.overlapped, NEW t \in Readers
      PROVE  ReadingDue(t)'
  <2> DEFINE d == calls[t].data
             gain == IF calls[t].at = "compute" THEN CollectorOf!Gain(d.count) ELSE d.traffic
  <2>1. ReadingDue(t)
    BY <1>8 DEF ReadingCounts
  <2>2. d.count \in Nat /\ d.traffic \in Nat /\ gain \in Nat
    BY ReadingNumbers, ReadingTypes
  <2>3. ReadingOfSource(t) => d.by \in CollectorOf!Sources
    BY DEF ReadingPlaces
  <2>4. ASSUME ReadingOfSource(t), last.by \in {"nobody", d.by}
        PROVE  history.told + gain + Ahead(CollectorOf!Count(d.by)', d.count) <= Room'
    <3>1. history.told + gain + Ahead(CollectorOf!Count(d.by), d.count) <= Room
      BY <2>1, <2>4 DEF ReadingDue
    <3>2. /\ Ahead(CollectorOf!Count(d.by)', d.count) <= Ahead(CollectorOf!Count(d.by), d.count) + more
          /\ Ahead(CollectorOf!Count(d.by)', d.count) \in Nat /\ Ahead(CollectorOf!Count(d.by), d.count) \in Nat
      BY <1>3, <2>2, <2>3, <2>4
    <3> HIDE DEF gain, d
    <3> QED BY <1>1, <2>2, <3>1, <3>2, ReadingNumbers
  <2>5. calls[t].at = "keep" => history.told + d.traffic + Unread' <= Room'
    <3> SUFFICES ASSUME calls[t].at = "keep" PROVE history.told + d.traffic + Unread' <= Room'
      OBVIOUS
    <3>1. history.told + d.traffic + Unread <= Room
      BY <2>1 DEF ReadingDue
    <3> HIDE DEF d
    <3> QED BY <1>1, <1>4, <2>2, <3>1, ReadingNumbers
  <2> QED BY <1>5, <2>1, <2>4, <2>5 DEF ReadingDue
<1>9. ASSUME ~history.mixed, ~history.overlapped, NEW s \in {"dev", "netstats"}
      PROVE  ReadingHeld(s)'
  BY <1>5, <1>9 DEF ReadingCounts, ReadingHeld
<1> QED BY <1>6, <1>7, <1>8, <1>9 DEF ReadingCounts

LEMMA ReadingCountsDevice ==
  ASSUME ReadingInv, CollectorOf!TypeOK',
         \/ CollectorOf!Tick \/ CollectorOf!Traffic \/ CollectorOf!Reboot \/ CollectorOf!Disconnect
         \/ CollectorOf!Reconnect \/ UNCHANGED CollectorOf!vars
  PROVE  ReadingCounts'
<1>1. UNCHANGED <<kCircumstance, texts, last, calls, history>>
  BY DEF CollectorOf!Tick, CollectorOf!Traffic, CollectorOf!Reboot, CollectorOf!Disconnect, CollectorOf!Reconnect,
     CollectorOf!vars, CollectorOf!collector, CollectorOf!OfDevice
<1>2. /\ CollectorOf!TypeOK /\ ReadingPlaces /\ ReadingCounts
      /\ kDevice \in [link : BOOLEAN, counter : Nat, moved : Nat, outages : Nat, reboots : Nat]
      /\ kCircumstance.earlier \in Nat /\ kCircumstance.looped \in Nat
  BY ReadingTypes DEF ReadingInv, ReadingFreshInv, CollectorOf!TypeOK, CollectorOf!Config
<1>3. CASE CollectorOf!Tick \/ CollectorOf!Disconnect \/ CollectorOf!Reconnect \/ UNCHANGED CollectorOf!vars
  <2>1. kDevice'.moved = kDevice.moved /\ kDevice'.counter = kDevice.counter
    BY <1>2, <1>3 DEF CollectorOf!Tick, CollectorOf!Disconnect, CollectorOf!Reconnect, CollectorOf!vars
  <2>2. \A s \in CollectorOf!Sources : CollectorOf!Count(s)' <= CollectorOf!Count(s) + 0
    BY <1>1, <1>2, <2>1 DEF CollectorOf!Count, CollectorOf!Sources
  <2> QED BY <1>1, <1>2, <2>1, <2>2, ReadingCountsMove
<1>4. CASE CollectorOf!Traffic
  <2>1. kDevice'.moved = kDevice.moved + 1 /\ kDevice'.counter = kDevice.counter + 1
    BY <1>2, <1>4 DEF CollectorOf!Traffic
  <2>2. \A s \in CollectorOf!Sources : CollectorOf!Count(s)' <= CollectorOf!Count(s) + 1
    BY <1>1, <1>2, <2>1 DEF CollectorOf!Count, CollectorOf!Sources
  <2> QED BY <1>1, <1>2, <2>1, <2>2, ReadingCountsMove
<1>5. CASE CollectorOf!Reboot
  <2>1. kDevice'.moved = kDevice.moved /\ kDevice'.counter = 0
    BY <1>2, <1>5 DEF CollectorOf!Reboot
  <2>2. \A s \in CollectorOf!Sources : CollectorOf!Count(s)' <= CollectorOf!Count(s) + 0
    BY <1>1, <1>2, <2>1 DEF CollectorOf!Count, CollectorOf!Sources
  <2> QED BY <1>1, <1>2, <2>1, <2>2, ReadingCountsMove
<1> QED BY <1>3, <1>4, <1>5
\* A step of a call: what it owes is all that is owed, as calls are one at a time.
LEMMA ReadingCountsCall ==
  ASSUME ReadingInv, NEW t \in Readers, calls[t].at # "idle",
         NEW place, NEW began, NEW data, ReadingGoes(t, place, began, data),
         UNCHANGED <<kCircumstance, kDevice>>, history'.overlapped = history.overlapped,
         ~history'.mixed /\ ~history.overlapped =>
           /\ history'.told + Unread' <= Room
           /\ ReadingDue(t)'
           /\ \A s \in {"dev", "netstats"} : ReadingHeld(s)'
  PROVE  ReadingCounts'
<1>1. Room' = Room /\ Room >= 0
  BY DEF Room, ReadingInv, ReadingCounts
<1>2. ASSUME ~history.overlapped, NEW u \in Readers \ {t}
      PROVE  calls'[u].at = "idle"
  BY <1>2 DEF ReadingGoes, ReadingInv, ReadingFreshInv, ReadingAlone
<1>3. ASSUME ~history.overlapped, ~history'.mixed, NEW u \in Readers
      PROVE  ReadingDue(u)'
  <2>1. CASE u = t
    BY <1>3, <2>1
  <2>2. CASE u # t
    BY <1>2, <1>3, <2>2 DEF ReadingDue, ReadingOfSource
  <2> QED BY <2>1, <2>2
<1> QED BY <1>1, <1>3 DEF ReadingCounts

\* Counters are read, or found: those found are the last ones.
LEMMA ReadingCountsRead ==
  ASSUME ReadingInv, NEW t \in Readers, CollectorOf!Count("whole") \in Nat,
         calls[t].at # "idle", ~ReadingOfSource(t), NEW began, NEW data, data.by \in CollectorOf!Sources,
         ReadingGoes(t, "compute", began, data), UNCHANGED <<kCircumstance, kDevice, last, history>>,
         NEW again \in BOOLEAN, data.count \in Nat,
         again => data.by # "whole" /\ texts[data.by].kept /\ texts[data.by].count = data.count,
         ~again => data.count = CollectorOf!Count(data.by),
         data.by # "whole" => texts'[data.by].kept /\ texts'[data.by].count = data.count,
         \A s \in {"dev", "netstats"} : s # data.by => texts'[s] = texts[s]
  PROVE  ReadingCounts'
<1>1. ReadingCounts /\ CollectorOf!TypeOK
  BY DEF ReadingInv, ReadingFreshInv
<1>2. /\ calls'[t].at = "compute" /\ calls'[t].data = data
      /\ \A u \in Readers \ {t} : calls'[u] = calls[u]
  BY DEF ReadingGoes
<1>3. /\ Unread' = Unread /\ Room' = Room
      /\ \A s \in CollectorOf!Sources : CollectorOf!Count(s)' = CollectorOf!Count(s)
      /\ CollectorOf!Gain(data.count)' = CollectorOf!Gain(data.count)
  BY DEF Unread, Room, CollectorOf!Count, CollectorOf!Gain, CollectorOf!Sources
<1>4. \A u \in Readers : ~history.overlapped => ~ReadingOfSource(u)
  BY DEF ReadingInv, ReadingFreshInv, ReadingAlone, ReadingOfSource
<1>5. CollectorOf!Count(data.by) \in Nat
  BY <1>1, ReadingNumbers
<1>6. ASSUME ~history.mixed, ~history.overlapped, last.by \in {"nobody", data.by}
      PROVE  history.told + CollectorOf!Gain(data.count) + Ahead(CollectorOf!Count(data.by), data.count) <= Room
  <2>1. history.told + Unread <= Room
    BY <1>1, <1>6 DEF ReadingCounts
  <2>2. CASE again
    <3>1. ReadingHeld(data.by)
      BY <1>1, <1>6, <2>2 DEF ReadingCounts, CollectorOf!Sources
    <3>2. last.by = data.by /\ last.count = data.count
      BY <1>4, <1>6, <2>2, <3>1 DEF ReadingHeld
    <3>3. CollectorOf!Gain(data.count) = 0
      BY <3>2 DEF CollectorOf!Gain
    <3>4. Unread = Ahead(CollectorOf!Count(data.by), data.count)
      BY <3>2 DEF Unread, CollectorOf!Sources
    <3> QED BY <1>1, <2>1, <3>3, <3>4, ReadingNumbers
  <2>3. CASE ~again
    <3>1. Ahead(CollectorOf!Count(data.by), data.count) = 0
      BY <1>5, <2>3 DEF Ahead
    <3>2. CollectorOf!Gain(data.count) = Unread
      BY <1>6, <2>3 DEF CollectorOf!Gain, Unread, Ahead, CollectorOf!Sources
    <3> QED BY <1>1, <2>1, <3>1, <3>2, ReadingNumbers
  <2> QED BY <2>2, <2>3
<1>7. ~history.mixed /\ ~history.overlapped => ReadingDue(t)'
  BY <1>2, <1>3, <1>6 DEF ReadingDue, ReadingOfSource
<1>8. ASSUME ~history.mixed, ~history.overlapped, NEW s \in {"dev", "netstats"}
      PROVE  ReadingHeld(s)'
  <2>1. CASE s = data.by
    BY <1>2, <2>1 DEF ReadingHeld, ReadingOfSource
  <2>2. CASE s # data.by
    BY <1>1, <1>4, <1>8, <2>2 DEF ReadingCounts, ReadingHeld
  <2> QED BY <2>1, <2>2
<1>9. ~history.mixed /\ ~history.overlapped => history.told + Unread' <= Room
  BY <1>1, <1>3 DEF ReadingCounts
<1> QED BY <1>7, <1>8, <1>9, ReadingCountsCall

\* A call goes on without counters.
LEMMA ReadingCountsWithout ==
  ASSUME ReadingInv, NEW t \in Readers, calls[t].at # "idle", ~ReadingOfSource(t),
         NEW place, place \notin {"compute", "store"}, NEW began, NEW data, ReadingGoes(t, place, began, data),
         place = "keep" => data.traffic = 0,
         UNCHANGED <<kCircumstance, kDevice, last, history>>,
         \A s \in {"dev", "netstats"} : texts'[s].kept => texts'[s] = texts[s]
  PROVE  ReadingCounts'
<1>1. ReadingCounts /\ CollectorOf!TypeOK
  BY DEF ReadingInv, ReadingFreshInv
<1>2. calls'[t].at = place /\ calls'[t].data = data
  BY DEF ReadingGoes
<1>3. Unread' = Unread /\ Room' = Room
  BY DEF Unread, Room, CollectorOf!Count
<1>4. \A u \in Readers : ~history.overlapped => ~ReadingOfSource(u)
  BY DEF ReadingInv, ReadingFreshInv, ReadingAlone, ReadingOfSource
<1>5. ~history.mixed /\ ~history.overlapped => history.told + Unread <= Room
  BY <1>1 DEF ReadingCounts
<1>6. ~history.mixed /\ ~history.overlapped => ReadingDue(t)'
  <2>1. place = "keep" => history.told + data.traffic + Unread = history.told + Unread
    BY <1>1, ReadingNumbers
  <2> QED BY <1>2, <1>3, <1>5, <2>1 DEF ReadingDue, ReadingOfSource
<1>7. ASSUME ~history.mixed, ~history.overlapped, NEW s \in {"dev", "netstats"}
      PROVE  ReadingHeld(s)'
  BY <1>1, <1>4, <1>7 DEF ReadingCounts, ReadingHeld
<1> QED BY <1>3, <1>5, <1>6, <1>7, ReadingCountsCall
LEMMA ReadingCountsText ==
  ASSUME ReadingInv, NEW t \in Readers, NEW s \in {"dev", "netstats"}, CollectorOf!ReadText(t, s)
  PROVE  ReadingCounts'
<1> DEFINE new == IF CollectorOf!Answers(s)
                  THEN [kept |-> TRUE, count |-> CollectorOf!Count(s), at |-> kNow, read |-> kNow]
                  ELSE CollectorOf!NoText
           again == CollectorOf!Kept(s) # CollectorOf!NoText
           text == IF again THEN CollectorOf!Kept(s) ELSE new
           data == CollectorOf!Reading(s, text.count, text.read)
           place == IF s = "dev" THEN "netstats" ELSE "keep"
<1>1. /\ calls[t].at = s /\ texts' = [texts EXCEPT ![s] = text]
      /\ UNCHANGED <<kCircumstance, kDevice, last, history>>
      /\ text # CollectorOf!NoText => CollectorOf!Go(t, "compute", data)
      /\ text = CollectorOf!NoText => CollectorOf!Go(t, place, CollectorOf!Zeros)
  BY DEF CollectorOf!ReadText, CollectorOf!At, CollectorOf!InCall
<1>2. /\ CollectorOf!TypeOK /\ s \in CollectorOf!Sources /\ kNow \in Nat
      /\ texts \in [{"dev", "netstats"} -> [kept : BOOLEAN, count : Nat, at : Nat, read : Nat]]
  BY DEF ReadingInv, ReadingFreshInv, CollectorOf!TypeOK, CollectorOf!Sources
<1>3. CollectorOf!Count(s) \in Nat /\ CollectorOf!Count("whole") \in Nat
  BY <1>2, ReadingTypes DEF CollectorOf!Sources
<1>4. calls[t].at # "idle" /\ ~ReadingOfSource(t)
  BY <1>1 DEF ReadingOfSource
<1>5. again => CollectorOf!Kept(s) = texts[s] /\ texts[s].kept
  BY DEF CollectorOf!Kept
<1>6. new \in [kept : BOOLEAN, count : Nat, at : Nat, read : Nat]
  BY <1>2, <1>3, ReadingTypes
<1>7. texts'[s] = text /\ \A r \in {"dev", "netstats"} : r # s => texts'[r] = texts[r]
  BY <1>1, <1>2
<1>8. CASE text # CollectorOf!NoText
  <2>1. /\ text \in [kept : BOOLEAN, count : Nat, at : Nat, read : Nat] /\ text.kept
        /\ again => text = texts[s]
        /\ ~again => text.count = CollectorOf!Count(s)
    <3>1. CASE again
      BY <1>2, <1>5, <3>1
    <3>2. CASE ~again
      BY <1>6, <1>8, <3>2
    <3> QED BY <3>1, <3>2
  <2> HIDE DEF text, again
  <2>2. data \in CollectorOf!Readings /\ data.by = s /\ data.count = text.count
    BY <1>2, <2>1 DEF CollectorOf!Reading, CollectorOf!Readings
  <2>3. text.count \in Nat /\ again \in BOOLEAN
    BY <2>1 DEF again
  <2> HIDE DEF data
  <2>4. ReadingGoes(t, "compute", calls[t].since, data)
    BY <1>1, <1>2, <1>8, <2>2, ReadingGo DEF ReadingPlace
  <2> QED BY <1>1, <1>2, <1>3, <1>4, <1>5, <1>7, <2>1, <2>2, <2>3, <2>4, ReadingCountsRead
<1>9. CASE text = CollectorOf!NoText
  <2>1. place \in ReadingPlace /\ place \notin {"compute", "store"}
    BY DEF ReadingPlace, CollectorOf!Sources
  <2> HIDE DEF place
  <2>2. ReadingGoes(t, place, calls[t].since, CollectorOf!Zeros) /\ CollectorOf!Zeros.traffic = 0
    BY <1>1, <1>2, <1>9, <2>1, ReadingGo, ReadingTypes
  <2>3. ~texts'[s].kept
    BY <1>7, <1>9 DEF CollectorOf!NoText
  <2> QED BY <1>1, <1>4, <1>7, <2>1, <2>2, <2>3, ReadingCountsWithout
<1> QED BY <1>8, <1>9

LEMMA ReadingCountsAgain ==
  ASSUME ReadingInv, NEW t \in Readers,
         CollectorOf!Garbled(t) \/ CollectorOf!ReadWhole(t) \/ CollectorOf!Batch(t)
  PROVE  ReadingCounts'
<1>1. /\ calls[t].at \notin {"idle", "compute", "store"}
      /\ UNCHANGED <<kCircumstance, kDevice, texts, last, history>>
  BY DEF CollectorOf!Garbled, CollectorOf!ReadWhole, CollectorOf!Batch, CollectorOf!At, CollectorOf!InCall,
     CollectorOf!collector
<1>2. CollectorOf!TypeOK /\ kNow \in Nat /\ ~ReadingOfSource(t)
      /\ calls \in [Readers -> [at : ReadingPlace, since : Nat, data : CollectorOf!Readings]]
  BY <1>1 DEF ReadingInv, ReadingFreshInv, ReadingOfSource, CollectorOf!TypeOK, ReadingPlace
<1>3. CASE CollectorOf!Garbled(t)
  <2>1. ReadingGoes(t, "whole", calls[t].since, CollectorOf!Empty)
    BY <1>2, <1>3, ReadingGo, ReadingTypes DEF CollectorOf!Garbled, ReadingPlace, CollectorOf!Sources
  <2> QED BY <1>1, <1>2, <2>1, ReadingCountsWithout
<1>4. CASE CollectorOf!Batch(t)
  <2> DEFINE data == CollectorOf!Reading("app", 0, kNow)
  <2>1. data \in CollectorOf!Readings /\ data.traffic = 0
    BY <1>2 DEF CollectorOf!Reading, CollectorOf!Readings
  <2>2. CollectorOf!Go(t, "keep", data)
    BY <1>4 DEF CollectorOf!Batch
  <2> HIDE DEF data
  <2>3. ReadingGoes(t, "keep", calls[t].since, data)
    BY <1>2, <2>1, <2>2, ReadingGo DEF ReadingPlace
  <2> QED BY <1>1, <1>2, <2>1, <2>3, ReadingCountsWithout
<1>5. CASE CollectorOf!ReadWhole(t)
  <2>1. CASE CollectorOf!Answers("whole")
    <3> DEFINE data == CollectorOf!Reading("whole", CollectorOf!Count("whole"), kNow)
    <3>1. CollectorOf!Count("whole") \in Nat
      BY <1>2, ReadingTypes DEF CollectorOf!Sources
    <3>2. /\ data \in CollectorOf!Readings /\ data.by = "whole" /\ data.by \in CollectorOf!Sources
          /\ data.count = CollectorOf!Count(data.by) /\ data.count \in Nat
      BY <1>2, <3>1 DEF CollectorOf!Reading, CollectorOf!Readings, CollectorOf!Sources
    <3>3. CollectorOf!Go(t, "compute", data)
      BY <1>5, <2>1 DEF CollectorOf!ReadWhole
    <3> HIDE DEF data
    <3>4. ReadingGoes(t, "compute", calls[t].since, data)
      BY <1>2, <3>2, <3>3, ReadingGo DEF ReadingPlace
    <3> QED BY <1>1, <1>2, <3>1, <3>2, <3>4, ReadingCountsRead
  <2>2. CASE ~CollectorOf!Answers("whole") /\ kDevice.link
    <3>1. ReadingGoes(t, "keep", calls[t].since, CollectorOf!Zeros) /\ CollectorOf!Zeros.traffic = 0
      BY <1>2, <1>5, <2>2, ReadingGo, ReadingTypes DEF CollectorOf!ReadWhole, ReadingPlace
    <3> QED BY <1>1, <1>2, <3>1, ReadingCountsWithout
  <2>3. CASE ~CollectorOf!Answers("whole") /\ ~kDevice.link
    <3>1. calls' = [calls EXCEPT ![t] = [at |-> "keep", since |-> kNow, data |-> CollectorOf!Empty]]
      BY <1>5, <2>3 DEF CollectorOf!ReadWhole
    <3>2. CollectorOf!Empty \in CollectorOf!Readings /\ CollectorOf!Empty.traffic = 0
      BY <1>2, ReadingTypes
    <3>3. ReadingGoes(t, "keep", kNow, CollectorOf!Empty)
      BY <1>2, <3>1, <3>2 DEF ReadingPlace, ReadingGoes
    <3> QED BY <1>1, <1>2, <3>2, <3>3, ReadingCountsWithout
  <2> QED BY <2>1, <2>2, <2>3
<1> QED BY <1>3, <1>4, <1>5

\* The gain is computed, and what was told to be due is due.
LEMMA ReadingCountsComputed ==
  ASSUME ReadingInv, NEW t \in Readers, CollectorOf!Compute(t)
  PROVE  ReadingCounts'
<1> DEFINE d == calls[t].data
           data == [d EXCEPT !.traffic = CollectorOf!Gain(d.count)]
<1>1. /\ calls[t].at = "compute" /\ CollectorOf!Go(t, "store", data)
      /\ UNCHANGED <<kCircumstance, kDevice, texts, last, history>>
  BY DEF CollectorOf!Compute, CollectorOf!At, CollectorOf!InCall, CollectorOf!collector
<1>2. /\ CollectorOf!TypeOK /\ ReadingCounts /\ d \in CollectorOf!Readings /\ d.by \in CollectorOf!Sources
      /\ ReadingOfSource(t)
  BY <1>1 DEF ReadingInv, ReadingFreshInv, ReadingPlaces, ReadingOfSource, CollectorOf!TypeOK
<1>3. CollectorOf!Gain(d.count) \in Nat
  BY <1>2, ReadingTypes DEF CollectorOf!Readings
<1> HIDE DEF d
<1>4. /\ data \in CollectorOf!Readings /\ data.by = d.by /\ data.count = d.count
      /\ data.traffic = CollectorOf!Gain(d.count)
  BY <1>2, <1>3 DEF CollectorOf!Readings
<1> HIDE DEF data
<1>5. ReadingGoes(t, "store", calls[t].since, data)
  BY <1>1, <1>2, <1>4, ReadingGo DEF ReadingPlace
<1>6. calls'[t].at = "store" /\ calls'[t].data = data
  BY <1>5 DEF ReadingGoes
<1>7. /\ Unread' = Unread /\ Room' = Room
      /\ \A s \in CollectorOf!Sources : CollectorOf!Count(s)' = CollectorOf!Count(s)
  BY <1>1 DEF Unread, Room, CollectorOf!Count, CollectorOf!Sources
<1>8. ~history.mixed /\ ~history.overlapped => ReadingDue(t)'
  BY <1>1, <1>2, <1>4, <1>6, <1>7 DEF ReadingCounts, ReadingDue, ReadingOfSource, d
<1>9. ASSUME ~history.mixed, ~history.overlapped, NEW s \in {"dev", "netstats"}
      PROVE  ReadingHeld(s)'
  <2>1. ReadingHeld(s)
    BY <1>2, <1>9 DEF ReadingCounts
  <2>2. ASSUME NEW u \in Readers, ReadingOfSource(u), calls[u].data.by = s
        PROVE  ReadingOfSource(u)' /\ calls'[u].data.by = s
    <3>1. CASE u = t
      BY <1>4, <1>6, <2>2, <3>1 DEF ReadingOfSource, d
    <3>2. CASE u # t
      BY <1>5, <2>2, <3>2 DEF ReadingGoes, ReadingOfSource
    <3> QED BY <3>1, <3>2
  <2> QED BY <1>1, <2>1, <2>2 DEF ReadingHeld
<1>10. ~history.mixed /\ ~history.overlapped => history.told + Unread' <= Room
  BY <1>2, <1>7 DEF ReadingCounts
<1>11. calls[t].at # "idle" /\ history'.overlapped = history.overlapped /\ history' = history
  BY <1>1
<1> QED BY <1>1, <1>5, <1>8, <1>9, <1>10, <1>11, ReadingCountsCall
LEMMA ReadingCountsStored ==
  ASSUME ReadingInv, NEW t \in Readers, CollectorOf!Store(t)
  PROVE  ReadingCounts'
<1> DEFINE d == calls[t].data
           place == IF d.by = "dev" /\ d.count = 0 THEN "netstats" ELSE "keep"
<1>1. /\ calls[t].at = "store" /\ CollectorOf!Go(t, place, d)
      /\ UNCHANGED <<kCircumstance, kDevice, texts>>
      /\ last' = [by |-> d.by, count |-> d.count]
      /\ history' = [history EXCEPT !.mixed = @ \/ last.by \notin {"nobody", d.by}]
  BY DEF CollectorOf!Store, CollectorOf!At, CollectorOf!InCall
<1>2. /\ CollectorOf!TypeOK /\ ReadingCounts /\ d \in CollectorOf!Readings /\ d.by \in CollectorOf!Sources
      /\ ReadingOfSource(t)
      /\ history \in [told : Nat, mixed : BOOLEAN, overlapped : BOOLEAN]
  BY <1>1 DEF ReadingInv, ReadingFreshInv, ReadingPlaces, ReadingOfSource, CollectorOf!TypeOK
<1>3. place \in ReadingPlace /\ place \notin {"compute", "store"}
  BY DEF ReadingPlace, CollectorOf!Sources
<1> HIDE DEF place
<1>4. ReadingGoes(t, place, calls[t].since, d)
  BY <1>1, <1>2, <1>3, ReadingGo
<1>5. calls'[t].at = place /\ calls'[t].data = d
  BY <1>4 DEF ReadingGoes
<1>6. /\ history'.overlapped = history.overlapped /\ history'.told = history.told
      /\ ~history'.mixed => ~history.mixed /\ last.by \in {"nobody", d.by}
  BY <1>1, <1>2
<1>7. /\ d.count \in Nat /\ d.traffic \in Nat /\ history.told \in Nat /\ Room \in Int
      /\ CollectorOf!Count(d.by) \in Nat /\ d.by # "nobody"
  BY <1>2, ReadingNumbers DEF CollectorOf!Sources
<1>8. /\ \A s \in CollectorOf!Sources : CollectorOf!Count(s)' = CollectorOf!Count(s)
      /\ Room' = Room /\ CollectorOf!Count(d.by)' = CollectorOf!Count(d.by)
  BY <1>1, <1>5 DEF CollectorOf!Count, CollectorOf!Sources, Room
<1>9. Unread' = Ahead(CollectorOf!Count(d.by), d.count)
  <2>1. \A s \in CollectorOf!Sources : last'.by = s => Unread' = Ahead(CollectorOf!Count(s)', last'.count)
    BY DEF Unread, CollectorOf!Count, CollectorOf!Sources
  <2> HIDE DEF d
  <2> QED BY <1>1, <1>2, <1>8, <2>1
<1>10. ASSUME ~history'.mixed, ~history.overlapped
       PROVE  history.told + d.traffic + Unread' <= Room
  BY <1>1, <1>2, <1>6, <1>9, <1>10 DEF ReadingCounts, ReadingDue
<1>11. Unread' \in Nat
  BY <1>7, <1>9 DEF Ahead
<1>12. ~history'.mixed /\ ~history.overlapped => history'.told + Unread' <= Room
  BY <1>6, <1>7, <1>10, <1>11
<1>13. ~history'.mixed /\ ~history.overlapped => ReadingDue(t)'
  BY <1>3, <1>5, <1>6, <1>8, <1>10 DEF ReadingDue, ReadingOfSource
<1>14. ASSUME ~history'.mixed, ~history.overlapped, NEW s \in {"dev", "netstats"}, texts[s].kept
       PROVE  last'.by \notin {"nobody", s} \/ (last'.by = s /\ last'.count = texts[s].count)
  <2>1. ReadingHeld(s) /\ ReadingDue(t)
    BY <1>2, <1>6, <1>14 DEF ReadingCounts
  <2>2. \A u \in Readers : ReadingOfSource(u) => u = t
    BY <1>1, <1>14 DEF ReadingInv, ReadingFreshInv, ReadingAlone, ReadingOfSource
  <2>3. CASE d.by = s
    BY <1>1, <1>2, <2>1, <2>3 DEF ReadingDue
  <2>4. CASE d.by # s
    BY <1>1, <1>7, <2>4
  <2> QED BY <2>3, <2>4
<1>15. ~history'.mixed /\ ~history.overlapped => \A s \in {"dev", "netstats"} : ReadingHeld(s)'
  BY <1>1, <1>14 DEF ReadingHeld
<1>16. calls[t].at # "idle"
  BY <1>1
<1> HIDE DEF d
<1> QED BY <1>1, <1>4, <1>6, <1>12, <1>13, <1>15, <1>16, ReadingCountsCall

LEMMA ReadingCountsKept ==
  ASSUME ReadingInv, NEW t \in Readers, CollectorOf!Keep(t)
  PROVE  ReadingCounts'
<1> DEFINE d == calls[t].data
<1>1. /\ calls[t].at = "keep" /\ CollectorOf!Go(t, "stamp", d)
      /\ UNCHANGED <<kCircumstance, kDevice, texts, last>>
      /\ history' = [history EXCEPT !.told = @ + d.traffic]
  BY DEF CollectorOf!Keep, CollectorOf!At, CollectorOf!InCall
<1>2. /\ CollectorOf!TypeOK /\ ReadingCounts /\ d \in CollectorOf!Readings
      /\ history \in [told : Nat, mixed : BOOLEAN, overlapped : BOOLEAN]
  BY DEF ReadingInv, ReadingFreshInv, CollectorOf!TypeOK
<1>3. /\ history'.overlapped = history.overlapped /\ history'.told = history.told + d.traffic
      /\ history'.mixed = history.mixed
  BY <1>1, <1>2
<1>4. ReadingGoes(t, "stamp", calls[t].since, d)
  BY <1>1, <1>2, ReadingGo DEF ReadingPlace
<1>5. Unread' = Unread
  BY <1>1 DEF Unread, CollectorOf!Count
<1>6. ~history.mixed /\ ~history.overlapped => history'.told + Unread' <= Room
  BY <1>1, <1>2, <1>3, <1>5 DEF ReadingCounts, ReadingDue
<1>7. ReadingDue(t)'
  BY <1>4 DEF ReadingDue, ReadingOfSource, ReadingGoes
<1>8. ASSUME ~history.mixed, ~history.overlapped, NEW s \in {"dev", "netstats"}
      PROVE  ReadingHeld(s)'
  <2>1. ReadingHeld(s)
    BY <1>2, <1>8 DEF ReadingCounts
  <2>2. \A u \in Readers : ~ReadingOfSource(u)
    BY <1>1, <1>8 DEF ReadingInv, ReadingFreshInv, ReadingAlone, ReadingOfSource
  <2> QED BY <1>1, <2>1, <2>2 DEF ReadingHeld
<1>9. calls[t].at # "idle"
  BY <1>1
<1> HIDE DEF d
<1> QED BY <1>1, <1>3, <1>4, <1>6, <1>7, <1>8, <1>9, ReadingCountsCall

LEMMA ReadingCountsStamp ==
  ASSUME ReadingInv, NEW t \in Readers, CollectorOf!Stamp(t)
  PROVE  ReadingCounts'
<1>1. /\ calls[t].at = "stamp" /\ CollectorOf!Go(t, "idle", CollectorOf!Empty)
      /\ UNCHANGED <<kCircumstance, kDevice, texts, last, history>>
  BY DEF CollectorOf!Stamp, CollectorOf!At, CollectorOf!InCall
<1>2. CollectorOf!TypeOK
  BY DEF ReadingInv, ReadingFreshInv
<1>3. ReadingGoes(t, "idle", calls[t].since, CollectorOf!Empty)
  BY <1>1, <1>2, ReadingGo, ReadingTypes DEF ReadingPlace
<1>4. calls[t].at # "idle" /\ ~ReadingOfSource(t)
  BY <1>1 DEF ReadingOfSource
<1> QED BY <1>1, <1>3, <1>4, ReadingCountsWithout

LEMMA ReadingCountsAsk ==
  ASSUME ReadingInv, NEW t \in Readers, CollectorOf!Ask(t)
  PROVE  ReadingCounts'
<1> DEFINE others == \E u \in Readers \ {t} : calls[u].at # "idle"
<1>1. /\ calls[t].at = "idle" /\ UNCHANGED <<kCircumstance, kDevice, texts, last>>
      /\ history' = [history EXCEPT !.overlapped = @ \/ others]
      /\ \/ calls' = calls
         \/ calls' = [calls EXCEPT ![t] = [at |-> IF CollectorOf!OfApp THEN "batch" ELSE "dev", since |-> kNow,
                                           data |-> CollectorOf!Empty]]
  BY DEF CollectorOf!Ask, CollectorOf!At
<1>2. /\ CollectorOf!TypeOK /\ ReadingCounts /\ history \in [told : Nat, mixed : BOOLEAN, overlapped : BOOLEAN]
      /\ calls \in [Readers -> [at : ReadingPlace, since : Nat, data : CollectorOf!Readings]]
  BY DEF ReadingInv, ReadingFreshInv, CollectorOf!TypeOK, ReadingPlace
<1>3. others \in BOOLEAN
  OBVIOUS
<1> HIDE DEF others
<1>4. /\ history'.told = history.told /\ history'.mixed = history.mixed
      /\ ~history'.overlapped => ~history.overlapped /\ ~others
  BY <1>1, <1>2, <1>3
<1>5. /\ Unread' = Unread /\ Room' = Room
  BY <1>1 DEF Unread, Room, CollectorOf!Count
<1>6. ASSUME ~history'.overlapped, NEW u \in Readers
      PROVE  calls'[u].at \in {"idle", "batch", "dev"} /\ calls[u].at = "idle"
  BY <1>1, <1>2, <1>4, <1>6 DEF others
<1>7. ASSUME ~history'.overlapped, NEW u \in Readers
      PROVE  ReadingDue(u)'
  <2>1. calls'[u].at \in {"idle", "batch", "dev"}
    BY <1>6, <1>7
  <2> QED BY <2>1 DEF ReadingDue, ReadingOfSource
<1>8. ASSUME ~history'.overlapped, ~history'.mixed, NEW s \in {"dev", "netstats"}
      PROVE  ReadingHeld(s)'
  <2>1. ReadingHeld(s)
    BY <1>2, <1>4, <1>8 DEF ReadingCounts
  <2>2. \A u \in Readers : ~ReadingOfSource(u)
    BY <1>6, <1>8 DEF ReadingOfSource
  <2> QED BY <1>1, <2>1, <2>2 DEF ReadingHeld
<1> QED BY <1>2, <1>4, <1>5, <1>7, <1>8 DEF ReadingCounts

LEMMA ReadingInit ==
  ASSUME CollectorOf!ConstantsOK, CollectorOf!Init
  PROVE  ReadingInv
<1>1. /\ {TextAge, DataAge, Interval} \subseteq Nat \ {0} /\ kCircumstance \in CollectorOf!Config
      /\ kCircumstance \in ReadingCircumstances
  BY DEF CollectorOf!ConstantsOK, CollectorOf!Init
<1>2. TextAge \in Nat \ {0} /\ DataAge \in Nat \ {0} /\ Interval \in Nat \ {0}
  BY <1>1, Zenon
<1>3. /\ CollectorOf!Empty \in CollectorOf!Readings
      /\ CollectorOf!NoText \in [kept : BOOLEAN, count : Nat, at : Nat, read : Nat] /\ ~CollectorOf!NoText.kept
  BY DEF CollectorOf!Empty, CollectorOf!Reading, CollectorOf!Readings, CollectorOf!NoText
<1>4. /\ \A t \in Readers : calls[t] = [at |-> "idle", since |-> 0, data |-> CollectorOf!Empty]
      /\ calls \in [Readers -> [at : {"idle", "compute", "store", "batch", "keep", "stamp"} \cup CollectorOf!Sources,
                                since : Nat, data : CollectorOf!Readings]]
  BY <1>3 DEF CollectorOf!Init
<1>5. /\ \A t \in Readers : given[t] = [data |-> CollectorOf!Empty, asked |-> -1]
      /\ given \in [Readers -> [data : CollectorOf!Readings, asked : Int]]
  BY <1>3 DEF CollectorOf!Init
<1>6. /\ kDevice = [link |-> TRUE, counter |-> kCircumstance.before, moved |-> kCircumstance.before,
                    outages |-> kCircumstance.outages, reboots |-> kCircumstance.reboots]
      /\ kDevice \in [link : BOOLEAN, counter : Nat, moved : Nat, outages : Nat, reboots : Nat]
  BY <1>1 DEF CollectorOf!Init, CollectorOf!Config
<1>7. CollectorOf!TypeOK
  BY <1>1, <1>2, <1>3, <1>4, <1>5, <1>6 DEF CollectorOf!Init, CollectorOf!TypeOK, CollectorOf!Config
<1>8. ReadingAlone /\ ReadingPlaces /\ ReadingTimes
  BY <1>3, <1>4 DEF CollectorOf!Init, ReadingAlone, ReadingPlaces, ReadingTimes, ReadingOfSource
<1>9. ReadingStamped
  BY <1>2, <1>4 DEF CollectorOf!Init, ReadingStamped
<1>10. CollectorOf!ReadingsAreFresh
  BY <1>5 DEF CollectorOf!ReadingsAreFresh
<1>11. ReadingCounts
  <2>1. Room = 0
    BY <1>1, <1>6 DEF Room, CollectorOf!Config
  <2>2. Unread = 0 /\ history.told = 0
    BY DEF Unread, CollectorOf!Init
  <2>3. \A t \in Readers : ReadingDue(t)
    BY <1>4 DEF ReadingDue, ReadingOfSource
  <2>4. \A s \in {"dev", "netstats"} : ReadingHeld(s)
    BY <1>3 DEF ReadingHeld, CollectorOf!Init
  <2> QED BY <2>1, <2>2, <2>3, <2>4 DEF ReadingCounts
<1> QED BY <1>7, <1>8, <1>9, <1>10, <1>11 DEF ReadingInv, ReadingFreshInv

LEMMA ReadingStep ==
  ASSUME ReadingInv, [CollectorOf!Next]_(CollectorOf!vars)
  PROVE  ReadingInv'
<1>1. CASE \/ CollectorOf!Tick \/ CollectorOf!Traffic \/ CollectorOf!Reboot \/ CollectorOf!Disconnect
           \/ CollectorOf!Reconnect \/ UNCHANGED CollectorOf!vars
  <2>1. ReadingFreshInv'
    BY <1>1, ReadingDevice DEF ReadingInv
  <2> QED BY <1>1, <2>1, ReadingCountsDevice DEF ReadingInv, ReadingFreshInv
<1>2. ASSUME NEW t \in Readers,
             \/ CollectorOf!Ask(t) \/ CollectorOf!ReadText(t, "dev") \/ CollectorOf!ReadText(t, "netstats")
             \/ CollectorOf!Garbled(t) \/ CollectorOf!ReadWhole(t) \/ CollectorOf!Compute(t) \/ CollectorOf!Store(t)
             \/ CollectorOf!Batch(t) \/ CollectorOf!Keep(t) \/ CollectorOf!Stamp(t)
      PROVE  ReadingInv'
  <2>1. ReadingFreshInv'
    BY <1>2, ReadingAsk, ReadingText, ReadingAgain, ReadingComputed, ReadingStored, ReadingBatch, ReadingKept,
       ReadingStamp DEF ReadingInv
  <2>2. ReadingCounts'
    BY <1>2, ReadingCountsAsk, ReadingCountsText, ReadingCountsAgain, ReadingCountsComputed, ReadingCountsStored,
       ReadingCountsKept, ReadingCountsStamp
  <2> QED BY <2>1, <2>2 DEF ReadingInv
<1> QED BY <1>1, <1>2 DEF CollectorOf!Next

LEMMA ReadingInvariant ==
  ASSUME CollectorOf!ConstantsOK
  PROVE  CollectorOf!Spec => []ReadingInv
<1>1. CollectorOf!Init => ReadingInv
  BY ReadingInit
<1> QED BY <1>1, ReadingStep, PTL DEF CollectorOf!Spec

LEMMA ReadingInvSafe ==
  ASSUME ReadingInv
  PROVE  ReadingsSafe
<1>1. CollectorOf!TypeOK /\ ReadingCounts /\ CollectorOf!ReadingsAreFresh
  BY DEF ReadingInv, ReadingFreshInv
<1>2. CollectorOf!NothingInvented
  <2> SUFFICES ASSUME ~history.mixed, ~history.overlapped
      PROVE  history.told <= kDevice.moved - kCircumstance.before
    BY DEF CollectorOf!NothingInvented
  <2>1. history.told + Unread <= Room
    BY <1>1 DEF ReadingCounts
  <2>2. history.told <= Room
    BY <1>1, <2>1, ReadingNumbers
  <2> QED BY <2>2 DEF Room
<1> QED BY <1>1, <1>2 DEF ReadingsSafe, CollectorOf!ReadingsSafe

-----------------------------------------------------------------------------
(* Loops of a scenario.                                                    *)

\* Where the loops are.
LoopPlace ==
  /\ ~Loops!Is("reboot") => device.phase = "up"
  /\ cycle.at # "done" => cycle.outcome = "none"
  /\ cycle.at = "start" => cycle.loop = 0
  /\ cycle.at \notin {"start", "head", "done"} => cycle.loop > 0
  /\ cycle.at \in {"kill", "send", "reconnect"} => cycle.tries < 2
  /\ cycle.at = "poll" => Loops!Is("reboot") /\ (cycle.took \/ device.phase = "going")
  /\ cycle.at = "verify" => /\ Loops!Is("install") /\ cycle.step = 2
                            /\ lCircumstance.mute \/ cycle.took
  /\ cycle.at = "kill" => Loops!Is("cold")

\* What a step finds on the device: a killed application does not run, one is gone exactly
\* if this step has removed it, and the screen is on when it is to be unlocked.
LoopFinds ==
  /\ Loops!Is("cold") /\ lCircumstance.kill /\ cycle.at = "send" /\ cycle.killed =>
       device.app \in {"absent", "stopped"}
  /\ Loops!Is("install") /\ cycle.step = 1 /\ cycle.at \in {"send", "wait", "reconnect"} =>
       (cycle.took <=> device.app = "absent")
  /\ Loops!Is("standby") /\ cycle.step = 3 => device.awake

\* What an answer tells of the device.
LoopAnswers ==
  cycle.at = "wait" =>
    /\ "said" \in answer.marks => answer.code = "ok" /\ Loops!Command \in {"launch", "command"}
    /\ "unknown" \in answer.marks => Loops!Command = "uninstall" /\ cycle.took
    /\ answer.code = "error" /\ Loops!Command = "uninstall" /\ cycle.took =>
         "lost" \in answer.marks \/ "unknown" \in answer.marks
    /\ answer.code = "ok" =>
         /\ \/ cycle.took
            \/ lCircumstance.mute /\ Loops!Is("install")
            \/ "said" \in answer.marks
            \/ Loops!Is("cold") /\ ~cycle.killed
            \/ Loops!Is("reboot") /\ device.phase = "going"
         /\ Loops!Is("cold") /\ "said" \notin answer.marks => device.app = "front"
         /\ Loops!Is("foreground") /\ cycle.step = 2 => device.app # "front"
         /\ Loops!Is("standby") /\ cycle.step = 2 => device.awake

\* How a loop leaves the device.
LoopLeaves ==
  cycle.at = "head" /\ cycle.loop > 0 =>
    /\ Loops!Is("install") => device.app # "absent"
    /\ Loops!Is("foreground") => device.app # "front"
    /\ Loops!Is("cold") => device.app = "front"
    /\ Loops!Is("standby") => device.awake
LoopInv ==
  /\ Loops!TypeOK /\ LoopPlace /\ LoopFinds /\ LoopAnswers /\ LoopLeaves
  /\ Loops!LoopsAreReal /\ Loops!EndsAsCommanded /\ Loops!RemovalIsForgiven

LoopCount == Len(Loops!Steps(lCircumstance.template))
LoopCycle ==
  [at : {"start", "head", "kill", "send", "wait", "reconnect", "verify", "poll", "done"},
   loop : 0 .. lCircumstance.loops, step : 1 .. LoopCount, tries : 0 .. 2,
   polls : 0 .. lCircumstance.polls, took : BOOLEAN, killed : BOOLEAN,
   outcome : {"none", "success", "failed", "timeout", "offline"}]

\* The commands of the templates.
LEMMA LoopSteps ==
  ASSUME Loops!TypeOK
  PROVE  /\ lCircumstance \in Loops!Config /\ lCircumstance.template \in Loops!Templates
         /\ device \in Loops!Device /\ answer \in Loops!Answer /\ cycle \in LoopCycle
         /\ losses \in 0 .. lCircumstance.losses
         /\ LoopCount \in {1, 2, 3}
         /\ Loops!Is("cold") => LoopCount = 1 /\ Loops!Command = "launch"
         /\ Loops!Is("foreground") =>
              LoopCount = 2 /\ Loops!Command = IF cycle.step = 1 THEN "launch" ELSE "home"
         /\ Loops!Is("install") =>
              LoopCount = 2 /\ Loops!Command = IF cycle.step = 1 THEN "uninstall" ELSE "install"
         /\ Loops!Is("reboot") => LoopCount = 1 /\ Loops!Command = "reboot"
         /\ Loops!Is("standby") =>
              /\ LoopCount \in {2, 3}
              /\ Loops!Command = IF cycle.step = 1 THEN "sleep" ELSE IF cycle.step = 2 THEN "wake" ELSE "unlock"
         /\ Loops!Is("adb_script") => Loops!Command = "command"
         /\ Loops!Is("uiautomator2") => Loops!Command = "tap"
<1>1. /\ lCircumstance \in Loops!Config /\ device \in Loops!Device /\ answer \in Loops!Answer
      /\ cycle \in LoopCycle /\ losses \in 0 .. lCircumstance.losses
  BY DEF Loops!TypeOK, Loops!ConstantsOK, LoopCycle, LoopCount
<1>2. lCircumstance.template \in Loops!Templates /\ cycle.step \in 1 .. LoopCount
  BY <1>1 DEF Loops!Config, LoopCycle
<1>3. CASE Loops!Is("cold")
  <2>1. Loops!Steps(lCircumstance.template) = <<"launch">>
    BY <1>3 DEF Loops!Steps, Loops!Is
  <2>2. LoopCount = 1
    BY <2>1 DEF LoopCount
  <2> QED BY <1>1, <1>2, <1>3, <2>1, <2>2 DEF Loops!Command, Loops!Is
<1>4. CASE Loops!Is("foreground")
  <2>1. Loops!Steps(lCircumstance.template) = <<"launch", "home">>
    BY <1>4 DEF Loops!Steps, Loops!Is
  <2>2. LoopCount = 2
    BY <2>1 DEF LoopCount
  <2> QED BY <1>1, <1>2, <1>4, <2>1, <2>2 DEF Loops!Command, Loops!Is
<1>5. CASE Loops!Is("install")
  <2>1. Loops!Steps(lCircumstance.template) = <<"uninstall", "install">>
    BY <1>5 DEF Loops!Steps, Loops!Is
  <2>2. LoopCount = 2
    BY <2>1 DEF LoopCount
  <2> QED BY <1>1, <1>2, <1>5, <2>1, <2>2 DEF Loops!Command, Loops!Is
<1>6. CASE Loops!Is("reboot")
  <2>1. Loops!Steps(lCircumstance.template) = <<"reboot">>
    BY <1>6 DEF Loops!Steps, Loops!Is
  <2>2. LoopCount = 1
    BY <2>1 DEF LoopCount
  <2> QED BY <1>1, <1>2, <1>6, <2>1, <2>2 DEF Loops!Command, Loops!Is
<1>7. CASE Loops!Is("standby")
  <2>1. \/ Loops!Steps(lCircumstance.template) = <<"sleep", "wake", "unlock">>
        \/ Loops!Steps(lCircumstance.template) = <<"sleep", "wake">>
    BY <1>7 DEF Loops!Steps, Loops!Is
  <2>2. CASE Loops!Steps(lCircumstance.template) = <<"sleep", "wake", "unlock">>
    <3>1. LoopCount = 3
      BY <2>2 DEF LoopCount
    <3> QED BY <1>1, <1>2, <1>7, <2>2, <3>1 DEF Loops!Command, Loops!Is
  <2>3. CASE Loops!Steps(lCircumstance.template) = <<"sleep", "wake">>
    <3>1. LoopCount = 2
      BY <2>3 DEF LoopCount
    <3> QED BY <1>1, <1>2, <1>7, <2>3, <3>1 DEF Loops!Command, Loops!Is
  <2> QED BY <2>1, <2>2, <2>3
<1>8. CASE Loops!Is("adb_script")
  <2>1. Loops!Steps(lCircumstance.template) = <<"command", "command">>
    BY <1>8 DEF Loops!Steps, Loops!Is
  <2>2. LoopCount = 2
    BY <2>1 DEF LoopCount
  <2> QED BY <1>1, <1>2, <1>8, <2>1, <2>2 DEF Loops!Command, Loops!Is
<1>9. CASE Loops!Is("uiautomator2")
  <2>1. Loops!Steps(lCircumstance.template) = <<"tap", "tap">>
    BY <1>9 DEF Loops!Steps, Loops!Is
  <2>2. LoopCount = 2
    BY <2>1 DEF LoopCount
  <2> QED BY <1>1, <1>2, <1>9, <2>1, <2>2 DEF Loops!Command, Loops!Is
<1> QED BY <1>2, <1>3, <1>4, <1>5, <1>6, <1>7, <1>8, <1>9 DEF Loops!Templates, Loops!Is

\* What keeps the types.
LEMMA LoopTypes ==
  ASSUME Loops!TypeOK, lCircumstance' = lCircumstance, device' \in Loops!Device, answer' \in Loops!Answer,
         losses' \in 0 .. lCircumstance.losses, cycle' \in LoopCycle,
         hollow' = hollow \/ (\E why : hollow' = hollow \cup {<<Loops!Command, why>>})
           \/ (Loops!Is("install") /\ hollow' = hollow \cup {<<"uninstall", "unasked">>})
  PROVE  Loops!TypeOK'
<1> DEFINE commands == {Loops!Steps(lCircumstance.template)[n] : n \in 1 .. LoopCount}
<1>1. Loops!Command \in commands
  BY LoopSteps DEF Loops!Command, LoopCycle
<1>2. Loops!Is("install") => "uninstall" \in commands
  <2> SUFFICES ASSUME Loops!Is("install") PROVE "uninstall" \in commands
    OBVIOUS
  <2>1. Loops!Steps(lCircumstance.template) = <<"uninstall", "install">>
    BY DEF Loops!Steps, Loops!Is
  <2>2. 1 \in 1 .. LoopCount /\ Loops!Steps(lCircumstance.template)[1] = "uninstall"
    BY <2>1, LoopSteps
  <2> QED BY <2>2
<1>3. \A h \in hollow : h[1] \in commands
  BY DEF Loops!TypeOK, LoopCount
<1> HIDE DEF commands
<1>4. \A h \in hollow' : h[1] \in commands
  BY <1>1, <1>2, <1>3
<1>5. commands = {Loops!Steps(lCircumstance.template)[n] : n \in 1 .. Len(Loops!Steps(lCircumstance.template))}
  BY DEF commands, LoopCount
<1>6. Loops!Steps(lCircumstance.template)' = Loops!Steps(lCircumstance.template)
  BY DEF Loops!Steps
<1> QED
  BY <1>4, <1>5, <1>6 DEF Loops!TypeOK, LoopCycle, LoopCount, Loops!ConstantsOK, Loops!Device, Loops!Answer

\* An answer that was lost tells nothing.
LEMMA LoopLost ==
  ASSUME NEW a \in Loops!Lost
  PROVE  a \in Loops!Answer /\ a.code = "error" /\ "lost" \in a.marks /\ "said" \notin a.marks
         /\ "unknown" \notin a.marks
<1>1. PICK m \in SUBSET {"closed"} : a = Loops!Says("error", {"lost"} \cup m)
  BY DEF Loops!Lost
<1>2. a.code = "error" /\ a.marks = {"lost"} \cup m
  BY <1>1 DEF Loops!Says
<1> QED BY <1>1, <1>2 DEF Loops!Answer, Loops!Says

\* Within a step the command is the same.
LEMMA LoopStill ==
  ASSUME lCircumstance' = lCircumstance, cycle'.step = cycle.step
  PROVE  Loops!Command' = Loops!Command
BY DEF Loops!Command, Loops!Steps

\* What happens to the device or the host alone, while a command may be under way.
LEMMA LoopBeside ==
  ASSUME LoopInv, cycle.at # "done", UNCHANGED <<lCircumstance, cycle, hollow>>,
         losses' \in 0 .. lCircumstance.losses,
         device' \in Loops!Device, device'.app = device.app, device'.awake = device.awake,
         ~Loops!Is("reboot") => device'.phase = device.phase,
         device.phase = "going" => device'.phase = "going",
         \/ answer' = answer
         \/ cycle.at = "wait" /\ answer' \in Loops!Lost
         \/ cycle.at = "wait" /\ answer' = Loops!Says("timeout", {})
  PROVE  LoopInv'
<1>1. Loops!Command' = Loops!Command
  BY LoopStill
<1>2. answer' \in Loops!Answer
  <2>1. CASE answer' = Loops!Says("timeout", {})
    BY <2>1 DEF Loops!Says, Loops!Answer
  <2> QED BY <2>1, LoopLost, LoopSteps DEF LoopInv
<1>3. Loops!TypeOK'
  BY <1>2, LoopSteps, LoopTypes DEF LoopInv
<1>4. LoopPlace'
  BY DEF LoopInv, LoopPlace, Loops!Is
<1>5. LoopFinds'
  BY DEF LoopInv, LoopFinds, Loops!Is
<1>6. LoopAnswers'
  <2>1. CASE answer' = answer
    BY <1>1, <2>1 DEF LoopInv, LoopAnswers, Loops!Is
  <2>2. CASE answer' \in Loops!Lost
    BY <2>2, LoopLost DEF LoopAnswers
  <2>3. CASE answer' = Loops!Says("timeout", {})
    BY <2>3 DEF LoopAnswers, Loops!Says
  <2> QED BY <2>1, <2>2, <2>3
<1>7. LoopLeaves'
  BY DEF LoopInv, LoopLeaves, Loops!Is
<1>8. cycle'.outcome = "none"
  BY DEF LoopInv, LoopPlace
<1>9. Loops!LoopsAreReal' /\ Loops!EndsAsCommanded' /\ Loops!RemovalIsForgiven'
  BY <1>8 DEF LoopInv, Loops!LoopsAreReal, Loops!Excuses, Loops!Is, Loops!EndsAsCommanded, Loops!RemovalIsForgiven
<1> QED BY <1>3, <1>4, <1>5, <1>6, <1>7, <1>9 DEF LoopInv

LEMMA LoopEnvironment ==
  ASSUME LoopInv, Loops!Lose \/ Loops!Return \/ Loops!Boot \/ Loops!TimeOut
  PROVE  LoopInv'
<1>1. /\ device \in Loops!Device /\ losses \in 0 .. lCircumstance.losses /\ lCircumstance.losses \in Nat
      /\ ~Loops!Is("reboot") => device.phase = "up"
  BY LoopSteps DEF LoopInv, LoopPlace, Loops!Config
<1>2. CASE Loops!Lose
  <2>1. /\ cycle.at # "done" /\ losses > 0 /\ device' = [device EXCEPT !.link = FALSE] /\ losses' = losses - 1
        /\ answer' = answer \/ (cycle.at = "wait" /\ answer' \in Loops!Lost)
        /\ UNCHANGED <<lCircumstance, cycle, hollow>>
    BY <1>2 DEF Loops!Lose, Loops!Ended, Loops!Cut, Loops!Awaiting
  <2>2. /\ device' \in Loops!Device /\ device'.app = device.app /\ device'.awake = device.awake
        /\ device'.phase = device.phase
    BY <1>1, <2>1 DEF Loops!Device
  <2>3. losses' \in 0 .. lCircumstance.losses
    BY <1>1, <2>1
  <2> QED BY <2>1, <2>2, <2>3, LoopBeside
<1>3. CASE Loops!Return
  <2>1. /\ cycle.at # "done" /\ device' = [device EXCEPT !.link = TRUE]
        /\ UNCHANGED <<lCircumstance, losses, cycle, answer, hollow>>
    BY <1>3 DEF Loops!Return, Loops!Ended
  <2>2. /\ device' \in Loops!Device /\ device'.app = device.app /\ device'.awake = device.awake
        /\ device'.phase = device.phase
    BY <1>1, <2>1 DEF Loops!Device
  <2> QED BY <1>1, <2>1, <2>2, LoopBeside
<1>4. CASE Loops!Boot
  <2>1. /\ cycle.at # "done" /\ device.phase \in {"down", "booting"}
        /\ \/ device' = [device EXCEPT !.phase = "booting"]
           \/ device' = [device EXCEPT !.phase = "up"]
        /\ UNCHANGED <<lCircumstance, losses, cycle, answer, hollow>>
    BY <1>4 DEF Loops!Boot, Loops!Ended
  <2>2. /\ device' \in Loops!Device /\ device'.app = device.app /\ device'.awake = device.awake
    BY <1>1, <2>1 DEF Loops!Device
  <2> QED BY <1>1, <2>1, <2>2, LoopBeside
<1>5. CASE Loops!TimeOut
  <2>1. /\ cycle.at = "wait" /\ answer' = Loops!Says("timeout", {})
        /\ UNCHANGED <<lCircumstance, device, losses, cycle, hollow>>
    BY <1>5 DEF Loops!TimeOut, Loops!Awaiting
  <2> QED BY <1>1, <2>1, LoopBeside
<1> QED BY <1>2, <1>3, <1>4, <1>5

\* A reboot that begins has taken place.
LEMMA LoopGoDown ==
  ASSUME LoopInv, Loops!GoDown
  PROVE  LoopInv'
<1>1. /\ cycle.at # "done" /\ device.phase = "going"
      /\ device' = [device EXCEPT !.phase = "down", !.link = @ /\ ~lCircumstance.tcp, !.awake = TRUE,
                                  !.app = IF @ = "absent" THEN "absent" ELSE "stopped"]
      /\ cycle' = [cycle EXCEPT !.took = TRUE]
      /\ answer' = answer \/ answer' \in Loops!Lost
      /\ cycle.at = "wait" => answer' \in Loops!Lost
      /\ UNCHANGED <<lCircumstance, losses, hollow>>
  BY DEF Loops!GoDown, Loops!Ended, Loops!Cut, Loops!Awaiting
<1>2. /\ device \in Loops!Device /\ cycle \in LoopCycle /\ answer \in Loops!Answer
      /\ lCircumstance.tcp \in BOOLEAN /\ losses' \in 0 .. lCircumstance.losses
  BY <1>1, LoopSteps DEF LoopInv, Loops!Config
<1>3. Loops!Is("reboot")
  BY <1>1 DEF LoopInv, LoopPlace
<1>4. device' \in Loops!Device
  BY <1>1, <1>2 DEF Loops!Device
<1>5. /\ cycle' \in LoopCycle /\ cycle'.took
      /\ cycle'.at = cycle.at /\ cycle'.loop = cycle.loop /\ cycle'.step = cycle.step
      /\ cycle'.tries = cycle.tries /\ cycle'.outcome = cycle.outcome
  BY <1>1, <1>2 DEF LoopCycle
<1>6. answer' \in Loops!Answer
  BY <1>1, <1>2, LoopLost
<1>7. Loops!TypeOK'
  BY <1>1, <1>2, <1>4, <1>5, <1>6, LoopTypes DEF LoopInv
<1>8. LoopPlace'
  BY <1>1, <1>3, <1>5 DEF LoopInv, LoopPlace, Loops!Is
<1>9. LoopFinds' /\ LoopLeaves'
  BY <1>1, <1>3 DEF LoopFinds, LoopLeaves, Loops!Is
<1>10. LoopAnswers'
  BY <1>1, <1>5, LoopLost DEF LoopAnswers
<1>11. cycle'.outcome = "none"
  BY <1>1, <1>5 DEF LoopInv, LoopPlace
<1>12. Loops!LoopsAreReal' /\ Loops!EndsAsCommanded' /\ Loops!RemovalIsForgiven'
  BY <1>1, <1>11 DEF LoopInv, Loops!LoopsAreReal, Loops!Excuses, Loops!Is, Loops!EndsAsCommanded, Loops!RemovalIsForgiven
<1> QED BY <1>7, <1>8, <1>9, <1>10, <1>12 DEF LoopInv

\* What a step of the runner that sends nothing has to keep.
LEMMA LoopTurn ==
  ASSUME LoopInv, UNCHANGED <<lCircumstance, device, losses, answer>>, cycle' \in LoopCycle, cycle'.at # "wait",
         \/ hollow' = hollow
         \/ \E why : /\ hollow' = hollow \cup {<<Loops!Command, why>>}
                     /\ lCircumstance.mute \/ <<Loops!Command, why>> \in Loops!Excuses
         \/ Loops!Is("install") /\ hollow' = hollow \cup {<<"uninstall", "unasked">>},
         LoopPlace', LoopFinds', LoopLeaves',
         cycle'.outcome \in {"success", "failed"} => Loops!EndsAsCommanded' /\ Loops!RemovalIsForgiven'
  PROVE  LoopInv'
<1>1. /\ device' \in Loops!Device /\ answer' \in Loops!Answer /\ losses' \in 0 .. lCircumstance.losses
      /\ lCircumstance' = lCircumstance
  BY LoopSteps DEF LoopInv
<1>2. Loops!TypeOK'
  BY <1>1, LoopTypes DEF LoopInv
<1>3. LoopAnswers'
  BY DEF LoopAnswers
<1>4. Loops!Excuses' = Loops!Excuses
  BY DEF Loops!Excuses, Loops!Is
<1>5. Loops!Is("install") => <<"uninstall", "unasked">> \in Loops!Excuses
  BY DEF Loops!Excuses, Loops!Is
<1>6. lCircumstance.mute \/ hollow \subseteq Loops!Excuses
  BY DEF LoopInv, Loops!LoopsAreReal
<1>7. lCircumstance.mute \/ hollow' \subseteq Loops!Excuses
  BY <1>5, <1>6
<1>8. Loops!LoopsAreReal'
  BY <1>1, <1>4, <1>7 DEF Loops!LoopsAreReal
<1>9. cycle'.outcome \notin {"success", "failed"} => Loops!EndsAsCommanded' /\ Loops!RemovalIsForgiven'
  BY DEF Loops!EndsAsCommanded, Loops!RemovalIsForgiven
<1> QED BY <1>2, <1>3, <1>8, <1>9 DEF LoopInv

LEMMA LoopToStep ==
  ASSUME LoopInv, NEW n \in 1 .. LoopCount
  PROVE  /\ Loops!ToStep(n) \in LoopCycle
         /\ Loops!ToStep(n).at = (IF Loops!Is("cold") /\ lCircumstance.kill THEN "kill" ELSE "send")
         /\ Loops!ToStep(n).step = n /\ Loops!ToStep(n).tries = 0
         /\ ~Loops!ToStep(n).took /\ ~Loops!ToStep(n).killed
         /\ Loops!ToStep(n).loop = cycle.loop /\ Loops!ToStep(n).outcome = cycle.outcome
         /\ Loops!ToStep(n).polls = cycle.polls
<1>1. cycle \in LoopCycle
  BY LoopSteps DEF LoopInv
<1>2. Loops!Attempt \in {"kill", "send"}
  BY DEF Loops!Attempt
<1>3. Loops!ToStep(n) = [cycle EXCEPT !.at = Loops!Attempt, !.step = n, !.tries = 0, !.took = FALSE, !.killed = FALSE]
  BY DEF Loops!ToStep
<1>4. Loops!ToStep(n) \in LoopCycle
  <2> DEFINE steps == 1 .. LoopCount
             tries == 0 .. 2
  <2>1. n \in steps /\ 0 \in tries
    OBVIOUS
  <2> HIDE DEF steps, tries
  <2>2. LoopCycle = [at : {"start", "head", "kill", "send", "wait", "reconnect", "verify", "poll", "done"},
                     loop : 0 .. lCircumstance.loops, step : steps, tries : tries,
                     polls : 0 .. lCircumstance.polls, took : BOOLEAN, killed : BOOLEAN,
                     outcome : {"none", "success", "failed", "timeout", "offline"}]
    BY DEF LoopCycle, steps, tries
  <2> QED BY <1>1, <1>2, <1>3, <2>1, <2>2
<1>5. /\ Loops!ToStep(n).at = Loops!Attempt /\ Loops!ToStep(n).step = n /\ Loops!ToStep(n).tries = 0
      /\ Loops!ToStep(n).took = FALSE /\ Loops!ToStep(n).killed = FALSE
      /\ Loops!ToStep(n).loop = cycle.loop /\ Loops!ToStep(n).outcome = cycle.outcome
      /\ Loops!ToStep(n).polls = cycle.polls
  BY <1>1, <1>3 DEF LoopCycle
<1> QED BY <1>4, <1>5 DEF Loops!Attempt

\* A step that is passed: it did its work or is excused, and after the last the device is
\* as the loop should leave it.
LEMMA LoopPassed ==
  ASSUME LoopInv, NEW why, Loops!Passed(why), cycle.at \in {"wait", "verify", "poll"},
         UNCHANGED <<lCircumstance, device, losses, answer>>,
         cycle.took \/ lCircumstance.mute \/ <<Loops!Command, why>> \in Loops!Excuses,
         Loops!Is("standby") /\ cycle.step >= 2 => device.awake,
         cycle.step = LoopCount => /\ Loops!Is("install") => device.app # "absent"
                                   /\ Loops!Is("foreground") => device.app # "front"
                                   /\ Loops!Is("cold") => device.app = "front"
  PROVE  LoopInv'
<1>1. /\ cycle \in LoopCycle /\ LoopCount \in {1, 2, 3} /\ cycle.step \in 1 .. LoopCount
      /\ Loops!Is("install") => LoopCount = 2
      /\ Loops!Is("standby") => LoopCount \in {2, 3}
  BY LoopSteps DEF LoopInv, LoopCycle
<1>2. \/ hollow' = hollow
      \/ /\ hollow' = hollow \cup {<<Loops!Command, why>>}
         /\ lCircumstance.mute \/ <<Loops!Command, why>> \in Loops!Excuses
  BY DEF Loops!Passed
<1>3. cycle.outcome = "none" /\ cycle.loop > 0 /\ (~Loops!Is("reboot") => device.phase = "up")
  BY DEF LoopInv, LoopPlace
<1>4. CASE cycle.step < LoopCount
  <2> DEFINE n == cycle.step + 1
  <2>1. n \in 1 .. LoopCount /\ cycle' = Loops!ToStep(n)
    BY <1>1, <1>4 DEF Loops!Passed, LoopCount
  <2>2. /\ cycle' \in LoopCycle /\ cycle'.step = n /\ cycle'.tries = 0 /\ ~cycle'.took /\ ~cycle'.killed
        /\ cycle'.at = (IF Loops!Is("cold") /\ lCircumstance.kill THEN "kill" ELSE "send")
        /\ cycle'.loop = cycle.loop /\ cycle'.outcome = cycle.outcome
    BY <2>1, LoopToStep
  <2>3. n \in 2 .. 3 /\ (n = 3 => cycle.step = 2)
    BY <1>1, <1>4
  <2> HIDE DEF n
  <2>4. LoopPlace'
    BY <1>3, <2>2 DEF LoopPlace, Loops!Is
  <2>5. LoopFinds'
    <3>1. Loops!Is("standby") /\ n = 3 => device.awake
      BY <2>3, <1>1
    <3> QED BY <2>2, <2>3, <3>1 DEF LoopFinds, Loops!Is
  <2>6. LoopLeaves'
    BY <2>2 DEF LoopLeaves
  <2> QED BY <1>2, <1>3, <2>2, <2>4, <2>5, <2>6, LoopTurn
<1>5. CASE ~(cycle.step < LoopCount)
  <2>1. cycle.step = LoopCount /\ cycle' = [cycle EXCEPT !.at = "head"]
    BY <1>1, <1>5 DEF Loops!Passed, LoopCount
  <2>2. /\ cycle' \in LoopCycle /\ cycle'.at = "head" /\ cycle'.outcome = cycle.outcome /\ cycle'.loop = cycle.loop
        /\ cycle'.step = cycle.step
    BY <1>1, <2>1 DEF LoopCycle
  <2>3. LoopPlace'
    BY <1>3, <2>2 DEF LoopPlace, Loops!Is
  <2>4. Loops!Is("standby") => device.awake
    BY <1>1, <2>1
  <2>5. LoopFinds'
    BY <2>2, <2>4 DEF LoopFinds, Loops!Is
  <2>6. LoopLeaves'
    BY <2>1, <2>4 DEF LoopLeaves, Loops!Is
  <2> QED BY <1>2, <1>3, <2>2, <2>3, <2>5, <2>6, LoopTurn
<1> QED BY <1>4, <1>5

\* An end that is no success: of a failure, that no removal is held against it.
LEMMA LoopEnd ==
  ASSUME LoopInv, NEW outcome \in {"failed", "timeout", "offline"}, Loops!End(outcome),
         UNCHANGED <<lCircumstance, device, losses, answer, hollow>>,
         outcome = "failed" /\ Loops!Is("install") /\ cycle.loop > 0 /\ Loops!Command = "uninstall" /\ cycle.took =>
           answer.code = "timeout" \/ "lost" \in answer.marks
  PROVE  LoopInv'
<1>1. cycle \in LoopCycle
  BY LoopSteps DEF LoopInv
<1>2. /\ cycle' \in LoopCycle /\ cycle'.at = "done" /\ cycle'.outcome = outcome
      /\ cycle'.step = cycle.step /\ cycle'.loop = cycle.loop /\ cycle'.took = cycle.took
  BY <1>1 DEF Loops!End, LoopCycle
<1>3. Loops!Command' = Loops!Command
  BY <1>2, LoopStill
<1>4. LoopPlace' /\ LoopFinds' /\ LoopLeaves'
  BY <1>2 DEF LoopInv, LoopPlace, LoopFinds, LoopLeaves, Loops!Is
<1>5. Loops!EndsAsCommanded' /\ Loops!RemovalIsForgiven'
  BY <1>2, <1>3 DEF Loops!EndsAsCommanded, Loops!RemovalIsForgiven, Loops!Is
<1> QED BY <1>2, <1>4, <1>5, LoopTurn

LEMMA LoopStart ==
  ASSUME LoopInv, Loops!Start
  PROVE  LoopInv'
<1>1. /\ cycle.at = "start" /\ UNCHANGED <<lCircumstance, device, losses, answer, hollow>>
      /\ \/ cycle' = [cycle EXCEPT !.at = "head"]
         \/ Loops!End("offline")
         \/ Loops!End("failed") /\ ~Loops!Is("install")
  BY DEF Loops!Start, Loops!Is
<1>2. /\ cycle \in LoopCycle /\ cycle.loop = 0 /\ cycle.outcome = "none"
      /\ ~Loops!Is("reboot") => device.phase = "up"
      /\ Loops!Is("standby") /\ cycle.step = 3 => device.awake
  BY <1>1, LoopSteps DEF LoopInv, LoopPlace, LoopFinds
<1>3. CASE cycle' = [cycle EXCEPT !.at = "head"]
  <2>1. /\ cycle' \in LoopCycle /\ cycle'.at = "head" /\ cycle'.loop = 0 /\ cycle'.outcome = "none"
        /\ cycle'.step = cycle.step
    BY <1>2, <1>3 DEF LoopCycle
  <2>2. LoopPlace' /\ LoopFinds' /\ LoopLeaves'
    BY <1>1, <1>2, <2>1 DEF LoopPlace, LoopFinds, LoopLeaves, Loops!Is
  <2> QED BY <1>1, <2>1, <2>2, LoopTurn
<1>4. CASE Loops!End("offline")
  BY <1>1, <1>4, LoopEnd
<1>5. CASE Loops!End("failed") /\ ~Loops!Is("install")
  BY <1>1, <1>5, LoopEnd
<1> QED BY <1>1, <1>3, <1>4, <1>5

LEMMA LoopNext ==
  ASSUME LoopInv, Loops!NextLoop
  PROVE  LoopInv'
<1>1. /\ cycle \in LoopCycle /\ lCircumstance.loops \in Nat \ {0} /\ LoopCount \in {1, 2, 3}
      /\ Loops!Is("install") => LoopCount = 2
  BY LoopSteps DEF LoopInv, Loops!Config
<1>2. /\ cycle.at = "head" /\ cycle.outcome = "none" /\ UNCHANGED <<lCircumstance, device, losses, answer>>
      /\ ~Loops!Is("reboot") => device.phase = "up"
  BY DEF Loops!NextLoop, LoopInv, LoopPlace
<1> DEFINE skips == Loops!Is("install") /\ (~Loops!Reached \/ device.app = "absent")
           n == IF skips THEN 2 ELSE 1
<1>3. \/ cycle.loop = lCircumstance.loops /\ Loops!End("success") /\ UNCHANGED hollow
      \/ Loops!End("offline") /\ UNCHANGED hollow
      \/ /\ cycle.loop # lCircumstance.loops /\ cycle' = [Loops!ToStep(n) EXCEPT !.loop = @ + 1]
         /\ hollow' = IF skips /\ device.app # "absent" THEN hollow \cup {<<"uninstall", "unasked">>} ELSE hollow
  BY DEF Loops!NextLoop
<1>4. CASE cycle.loop = lCircumstance.loops /\ Loops!End("success") /\ UNCHANGED hollow
  <2>1. /\ cycle' \in LoopCycle /\ cycle'.at = "done" /\ cycle'.outcome = "success" /\ cycle'.step = cycle.step
    BY <1>1, <1>4 DEF Loops!End, LoopCycle
  <2>2. LoopPlace' /\ LoopFinds' /\ LoopLeaves'
    BY <1>2, <2>1 DEF LoopInv, LoopPlace, LoopFinds, LoopLeaves, Loops!Is
  <2>3. cycle.loop > 0
    BY <1>1, <1>4
  <2>4. Loops!EndsAsCommanded' /\ Loops!RemovalIsForgiven'
    BY <1>2, <2>1, <2>3 DEF LoopInv, LoopLeaves, Loops!EndsAsCommanded, Loops!RemovalIsForgiven, Loops!Is
  <2> QED BY <1>2, <1>4, <2>1, <2>2, <2>4, LoopTurn
<1>5. CASE Loops!End("offline") /\ UNCHANGED hollow
  BY <1>2, <1>5, LoopEnd
<1>6. CASE /\ cycle.loop # lCircumstance.loops /\ cycle' = [Loops!ToStep(n) EXCEPT !.loop = @ + 1]
           /\ hollow' = IF skips /\ device.app # "absent" THEN hollow \cup {<<"uninstall", "unasked">>} ELSE hollow
  <2>1. n \in 1 .. LoopCount /\ (n = 1 /\ Loops!Is("install") => device.app # "absent") /\ n \in {1, 2}
    BY <1>1
  <2>2. hollow' = hollow \/ (Loops!Is("install") /\ hollow' = hollow \cup {<<"uninstall", "unasked">>})
    BY <1>6
  <2> HIDE DEF n, skips
  <2>3. cycle.loop \in 0 .. lCircumstance.loops /\ cycle.loop + 1 \in 1 .. lCircumstance.loops
    BY <1>1, <1>6 DEF LoopCycle
  <2>4. /\ Loops!ToStep(n) \in LoopCycle
        /\ Loops!ToStep(n).at = (IF Loops!Is("cold") /\ lCircumstance.kill THEN "kill" ELSE "send")
        /\ Loops!ToStep(n).step = n /\ Loops!ToStep(n).tries = 0
        /\ ~Loops!ToStep(n).took /\ ~Loops!ToStep(n).killed
        /\ Loops!ToStep(n).loop = cycle.loop /\ Loops!ToStep(n).outcome = "none"
    BY <1>2, <2>1, LoopToStep
  <2>5. /\ cycle' \in LoopCycle /\ cycle'.step = n /\ cycle'.tries = 0 /\ ~cycle'.took /\ ~cycle'.killed
        /\ cycle'.at = (IF Loops!Is("cold") /\ lCircumstance.kill THEN "kill" ELSE "send")
        /\ cycle'.loop = cycle.loop + 1 /\ cycle'.outcome = "none"
    BY <1>1, <1>6, <2>3, <2>4 DEF LoopCycle
  <2>6. LoopPlace'
    BY <1>2, <2>3, <2>5 DEF LoopPlace, Loops!Is
  <2>7. LoopFinds' /\ LoopLeaves'
    BY <1>2, <2>1, <2>5 DEF LoopFinds, LoopLeaves, Loops!Is
  <2> QED BY <1>2, <2>2, <2>5, <2>6, <2>7, LoopTurn
<1> QED BY <1>3, <1>4, <1>5, <1>6

LEMMA LoopKill ==
  ASSUME LoopInv, Loops!Kill
  PROVE  LoopInv'
<1>1. /\ cycle.at = "kill" /\ cycle' = [cycle EXCEPT !.at = "send", !.killed = Loops!Reached]
      /\ device' = IF Loops!Reached /\ device.app # "absent" THEN [device EXCEPT !.app = "stopped"] ELSE device
      /\ UNCHANGED <<lCircumstance, losses, answer, hollow>>
  BY DEF Loops!Kill
<1>2. /\ cycle \in LoopCycle /\ device \in Loops!Device /\ answer \in Loops!Answer
      /\ losses \in 0 .. lCircumstance.losses
      /\ Loops!Is("cold") /\ cycle.outcome = "none" /\ device.phase = "up" /\ cycle.loop > 0 /\ cycle.tries < 2
  BY <1>1, LoopSteps DEF LoopInv, LoopPlace, Loops!Is
<1>3. Loops!Reached \in BOOLEAN
  BY <1>2 DEF Loops!Reached, Loops!Device
<1>4. /\ device' \in Loops!Device /\ device'.phase = "up"
      /\ Loops!Reached => device'.app \in {"absent", "stopped"}
  BY <1>1, <1>2 DEF Loops!Device
<1>5. /\ cycle' \in LoopCycle /\ cycle'.at = "send" /\ (cycle'.killed => Loops!Reached) /\ cycle'.outcome = "none"
      /\ cycle'.loop = cycle.loop /\ cycle'.tries = cycle.tries
  BY <1>1, <1>2, <1>3 DEF LoopCycle
<1>6. Loops!TypeOK'
  BY <1>1, <1>2, <1>4, <1>5, LoopTypes DEF LoopInv
<1>7. LoopPlace'
  BY <1>1, <1>2, <1>4, <1>5 DEF LoopPlace, Loops!Is
<1>8. LoopFinds' /\ LoopAnswers' /\ LoopLeaves'
  BY <1>1, <1>2, <1>4, <1>5 DEF LoopFinds, LoopAnswers, LoopLeaves, Loops!Is
<1>9. Loops!LoopsAreReal' /\ Loops!EndsAsCommanded' /\ Loops!RemovalIsForgiven'
  BY <1>1, <1>5 DEF LoopInv, Loops!LoopsAreReal, Loops!Excuses, Loops!Is, Loops!EndsAsCommanded, Loops!RemovalIsForgiven
<1> QED BY <1>6, <1>7, <1>8, <1>9 DEF LoopInv

LEMMA LoopReconnect ==
  ASSUME LoopInv, Loops!Reconnect
  PROVE  LoopInv'
<1>1. /\ cycle.at = "reconnect" /\ UNCHANGED <<lCircumstance, device, losses, answer, hollow>>
      /\ cycle' = [cycle EXCEPT !.at = Loops!Attempt] \/ Loops!End("offline")
  BY DEF Loops!Reconnect
<1>2. CASE cycle' = [cycle EXCEPT !.at = Loops!Attempt]
  <2>1. cycle \in LoopCycle
    BY LoopSteps DEF LoopInv
  <2>2. Loops!Attempt = IF Loops!Is("cold") /\ lCircumstance.kill THEN "kill" ELSE "send"
    BY DEF Loops!Attempt
  <2>3. /\ cycle' \in LoopCycle /\ cycle'.at = (IF Loops!Is("cold") /\ lCircumstance.kill THEN "kill" ELSE "send")
        /\ cycle'.outcome = cycle.outcome /\ cycle'.loop = cycle.loop /\ cycle'.step = cycle.step
        /\ cycle'.tries = cycle.tries /\ cycle'.took = cycle.took
    BY <1>2, <2>1, <2>2 DEF LoopCycle
  <2>4. LoopPlace'
    BY <1>1, <2>3 DEF LoopInv, LoopPlace, Loops!Is
  <2>5. LoopFinds' /\ LoopLeaves'
    BY <1>1, <2>3 DEF LoopInv, LoopFinds, LoopLeaves, Loops!Is
  <2>6. cycle'.outcome = "none"
    BY <1>1, <2>3 DEF LoopInv, LoopPlace
  <2> QED BY <1>1, <2>3, <2>4, <2>5, <2>6, LoopTurn
<1>3. CASE Loops!End("offline")
  BY <1>1, <1>3, LoopEnd
<1> QED BY <1>1, <1>2, <1>3

LEMMA LoopVerify ==
  ASSUME LoopInv, Loops!Verify
  PROVE  LoopInv'
<1>1. /\ cycle.at = "verify" /\ UNCHANGED <<lCircumstance, device, losses, answer>>
      /\ \/ device.app # "absent" /\ Loops!Passed(Loops!Why)
         \/ Loops!End("failed") /\ UNCHANGED hollow
  BY DEF Loops!Verify, Loops!Listed
<1>2. Loops!Is("install") /\ cycle.step = 2 /\ (lCircumstance.mute \/ cycle.took)
  BY <1>1 DEF LoopInv, LoopPlace
<1>3. Loops!Command = "install"
  BY <1>2, LoopSteps DEF LoopInv
<1>4. CASE device.app # "absent" /\ Loops!Passed(Loops!Why)
  <2>1. ~Loops!Is("standby") /\ ~Loops!Is("foreground") /\ ~Loops!Is("cold")
    BY <1>2 DEF Loops!Is
  <2> DEFINE why == Loops!Why
  <2>2. Loops!Passed(why)
    BY <1>4
  <2> HIDE DEF why
  <2> QED BY <1>1, <1>2, <1>4, <2>1, <2>2, LoopPassed
<1>5. CASE Loops!End("failed") /\ UNCHANGED hollow
  BY <1>1, <1>3, <1>5, LoopEnd
<1> QED BY <1>1, <1>4, <1>5

LEMMA LoopPoll ==
  ASSUME LoopInv, Loops!Poll
  PROVE  LoopInv'
<1> DEFINE why == IF device.phase = "going" THEN "early" ELSE "none"
<1>1. /\ cycle.at = "poll" /\ UNCHANGED <<lCircumstance, device, losses, answer>>
      /\ \/ Loops!Passed(why)
         \/ cycle.polls > 1 /\ cycle' = [cycle EXCEPT !.polls = @ - 1] /\ UNCHANGED hollow
         \/ Loops!End("offline") /\ UNCHANGED hollow
  BY DEF Loops!Poll
<1>2. Loops!Is("reboot") /\ (cycle.took \/ device.phase = "going")
  BY <1>1 DEF LoopInv, LoopPlace
<1>3. Loops!Command = "reboot"
  BY <1>2, LoopSteps DEF LoopInv
<1>4. cycle.took \/ <<Loops!Command, why>> \in Loops!Excuses
  BY <1>2, <1>3 DEF Loops!Excuses, Loops!Is
<1>5. ~Loops!Is("standby") /\ ~Loops!Is("foreground") /\ ~Loops!Is("cold") /\ ~Loops!Is("install")
  BY <1>2 DEF Loops!Is
<1> HIDE DEF why
<1>6. CASE Loops!Passed(why)
  BY <1>1, <1>4, <1>5, <1>6, LoopPassed
<1>7. CASE cycle.polls > 1 /\ cycle' = [cycle EXCEPT !.polls = @ - 1] /\ UNCHANGED hollow
  <2>1. cycle \in LoopCycle /\ lCircumstance.polls \in Nat
    BY LoopSteps DEF LoopInv, Loops!Config
  <2>2. cycle.polls \in 0 .. lCircumstance.polls
    BY <2>1 DEF LoopCycle
  <2>3. cycle.polls - 1 \in 0 .. lCircumstance.polls
    BY <1>7, <2>1, <2>2
  <2>4. /\ cycle' \in LoopCycle /\ cycle'.at = "poll" /\ cycle'.outcome = cycle.outcome /\ cycle'.loop = cycle.loop
        /\ cycle'.took = cycle.took
    BY <1>1, <1>7, <2>1, <2>3 DEF LoopCycle
  <2>5. LoopPlace'
    BY <1>1, <2>4 DEF LoopInv, LoopPlace, Loops!Is
  <2>6. LoopFinds' /\ LoopLeaves'
    BY <1>1, <1>5, <2>4 DEF LoopFinds, LoopLeaves, Loops!Is
  <2>7. cycle'.outcome = "none"
    BY <1>1, <2>4 DEF LoopInv, LoopPlace
  <2> QED BY <1>1, <1>7, <2>4, <2>5, <2>6, <2>7, LoopTurn
<1>8. CASE Loops!End("offline") /\ UNCHANGED hollow
  BY <1>1, <1>8, LoopEnd
<1> QED BY <1>1, <1>6, <1>7, <1>8

\* A command that is not taken for a failure did its work, or its excuse is why.
LEMMA LoopExcused ==
  ASSUME LoopInv, cycle.at = "wait", ~Loops!Failed, ~Loops!Is("reboot"), Loops!Command # "install"
  PROVE  /\ cycle.took \/ lCircumstance.mute \/ <<Loops!Command, Loops!Why>> \in Loops!Excuses
         /\ Loops!Is("standby") /\ cycle.step >= 2 => device.awake
         /\ Loops!Is("foreground") /\ cycle.step = 2 => device.app # "front"
         /\ Loops!Is("cold") => device.app = "front"
<1>1. /\ Loops!TypeOK /\ LoopAnswers /\ LoopFinds /\ cycle \in LoopCycle /\ answer \in Loops!Answer
      /\ LoopCount \in {1, 2, 3} /\ cycle.step \in 1 .. LoopCount
  BY LoopSteps DEF LoopInv, LoopCycle
<1>2. lCircumstance.template \in Loops!Templates
  BY <1>1, LoopSteps
<1>3. answer.code \in {"ok", "error", "timeout"}
  BY <1>1 DEF Loops!Answer
<1>4. answer.code = "ok" =>
        /\ cycle.took \/ (lCircumstance.mute /\ Loops!Is("install")) \/ "said" \in answer.marks
             \/ (Loops!Is("cold") /\ ~cycle.killed)
        /\ Loops!Is("cold") /\ "said" \notin answer.marks => device.app = "front"
        /\ Loops!Is("foreground") /\ cycle.step = 2 => device.app # "front"
        /\ Loops!Is("standby") /\ cycle.step = 2 => device.awake
  BY <1>1 DEF LoopAnswers
<1>5. /\ "said" \in answer.marks => answer.code = "ok" /\ Loops!Command \in {"launch", "command"}
      /\ "unknown" \in answer.marks => cycle.took
      /\ Loops!Is("standby") /\ cycle.step = 3 => device.awake
  BY <1>1 DEF LoopAnswers, LoopFinds
<1>6. CASE Loops!Is("cold")
  <2>1. answer.code = "ok" /\ "said" \notin answer.marks
    BY <1>6 DEF Loops!Failed, Loops!Is
  <2>2. Loops!Command = "launch"
    BY <1>1, <1>6, LoopSteps
  <2>3. ~cycle.killed => <<Loops!Command, Loops!Why>> \in Loops!Excuses
    <3>1. Loops!Excuses = {<<"launch", "unkilled">>}
      BY <1>6 DEF Loops!Excuses, Loops!Is
    <3>2. ~cycle.killed => Loops!Why = "unkilled"
      BY <1>6, <2>1 DEF Loops!Why, Loops!Is
    <3> QED BY <2>2, <3>1, <3>2
  <2>4. ~Loops!Is("install") /\ ~Loops!Is("standby") /\ ~Loops!Is("foreground")
    BY <1>6 DEF Loops!Is
  <2>5. device.app = "front"
    BY <1>4, <1>6, <2>1
  <2>6. cycle.took \/ ~cycle.killed
    BY <1>4, <2>1, <2>4
  <2> QED BY <2>3, <2>4, <2>5, <2>6
<1>7. CASE Loops!Is("foreground")
  <2>1. Loops!Command = IF cycle.step = 1 THEN "launch" ELSE "home"
    BY <1>1, <1>7, LoopSteps
  <2>2. answer.code = "ok"
    BY <1>7, <2>1 DEF Loops!Failed, Loops!Tolerated, Loops!Is
  <2>3. "said" \in answer.marks => <<Loops!Command, Loops!Why>> \in Loops!Excuses
    BY <1>5, <1>7, <2>1 DEF Loops!Why, Loops!Excuses, Loops!Is
  <2> QED BY <1>4, <1>7, <2>2, <2>3 DEF Loops!Is
<1>8. CASE Loops!Is("install")
  <2>1. Loops!Command = "uninstall"
    BY <1>1, <1>8, LoopSteps
  <2>2. answer.code = "ok" \/ "unknown" \in answer.marks
    BY <1>8 DEF Loops!Failed, Loops!Tolerated, Loops!Is
  <2> QED BY <1>4, <1>5, <1>8, <2>1, <2>2 DEF Loops!Is
<1>9. CASE Loops!Is("standby")
  <2>1. Loops!Command \in {"sleep", "wake", "unlock"} /\ cycle.step \in {1, 2, 3}
    <3>1. Loops!Command \in {"sleep", "wake", "unlock"}
      BY <1>1, <1>9, LoopSteps
    <3> QED BY <1>1, <3>1
  <2>2. answer.code = "ok"
    BY <1>9, <2>1 DEF Loops!Failed, Loops!Tolerated, Loops!Is
  <2>3. cycle.step >= 2 => cycle.step \in {2, 3}
    BY <2>1
  <2> QED BY <1>4, <1>5, <1>9, <2>1, <2>2, <2>3 DEF Loops!Is
<1>10. CASE Loops!Is("adb_script")
  <2>1. Loops!Command = "command"
    BY <1>1, <1>10, LoopSteps
  <2>2. answer.code # "ok" \/ "said" \notin answer.marks
    BY <1>10 DEF Loops!Failed, Loops!Is
  <2>3. "said" \notin answer.marks
    BY <1>5, <2>2
  <2>4. answer.code # "ok" => <<Loops!Command, Loops!Why>> \in Loops!Excuses
    BY <1>10, <2>1, <2>3 DEF Loops!Why, Loops!Excuses, Loops!Is
  <2> QED BY <1>4, <1>10, <2>3, <2>4 DEF Loops!Is
<1>11. CASE Loops!Is("uiautomator2")
  <2>1. Loops!Command = "tap"
    BY <1>1, <1>11, LoopSteps
  <2>2. answer.code = "ok"
    BY <1>11, <2>1 DEF Loops!Failed, Loops!Tolerated, Loops!Is
  <2> QED BY <1>4, <1>5, <1>11, <2>1, <2>2 DEF Loops!Is
<1>12. \/ Loops!Is("cold") \/ Loops!Is("foreground") \/ Loops!Is("install") \/ Loops!Is("standby")
       \/ Loops!Is("adb_script") \/ Loops!Is("uiautomator2")
  BY <1>2 DEF Loops!Templates, Loops!Is
<1> QED BY <1>6, <1>7, <1>8, <1>9, <1>10, <1>11, <1>12

\* The runner goes on, to what its place allows, without passing a step.
LEMMA LoopJudged ==
  ASSUME LoopInv, cycle.at = "wait", UNCHANGED <<lCircumstance, device, losses, answer, hollow>>,
         cycle' \in LoopCycle, cycle'.at \in {"reconnect", "poll", "verify"},
         cycle'.outcome = cycle.outcome, cycle'.loop = cycle.loop, cycle'.step = cycle.step,
         cycle'.tries = cycle.tries, cycle'.took = cycle.took,
         cycle'.at = "reconnect" => cycle.tries < 2,
         cycle'.at = "poll" => Loops!Is("reboot") /\ (cycle.took \/ device.phase = "going"),
         cycle'.at = "verify" => Loops!Is("install") /\ cycle.step = 2 /\ (lCircumstance.mute \/ cycle.took)
  PROVE  LoopInv'
<1>1. cycle.outcome = "none"
  BY DEF LoopInv, LoopPlace
<1>2. LoopPlace'
  BY DEF LoopInv, LoopPlace, Loops!Is
<1>3. LoopFinds' /\ LoopLeaves'
  BY DEF LoopInv, LoopFinds, LoopLeaves, Loops!Is
<1> QED BY <1>1, <1>2, <1>3, LoopTurn

LEMMA LoopJudge ==
  ASSUME LoopInv, Loops!Judge
  PROVE  LoopInv'
<1>1. /\ cycle.at = "wait" /\ UNCHANGED <<lCircumstance, device, losses, answer>>
      /\ \/ Loops!Disconnected /\ cycle' = [cycle EXCEPT !.at = "reconnect"] /\ UNCHANGED hollow
         \/ Loops!Is("cold") /\ Loops!End("timeout") /\ UNCHANGED hollow
         \/ Loops!Failed /\ Loops!End("failed") /\ UNCHANGED hollow
         \/ /\ ~Loops!Failed /\ Loops!Is("reboot")
            /\ cycle' = [cycle EXCEPT !.at = "poll", !.polls = lCircumstance.polls] /\ UNCHANGED hollow
         \/ /\ ~Loops!Failed /\ Loops!Command = "install" /\ cycle' = [cycle EXCEPT !.at = "verify"]
            /\ UNCHANGED hollow
         \/ ~Loops!Failed /\ ~Loops!Is("reboot") /\ Loops!Command # "install" /\ Loops!Passed(Loops!Why)
  BY DEF Loops!Judge, Loops!Awaiting
<1>2. /\ Loops!TypeOK /\ cycle \in LoopCycle /\ answer \in Loops!Answer /\ lCircumstance.polls \in Nat /\ LoopAnswers
      /\ lCircumstance.template \in Loops!Templates
  BY LoopSteps DEF LoopInv, Loops!Config
<1>3. CASE Loops!Disconnected /\ cycle' = [cycle EXCEPT !.at = "reconnect"] /\ UNCHANGED hollow
  <2>1. cycle.tries < 2
    BY <1>3 DEF Loops!Disconnected
  <2>2. /\ cycle' \in LoopCycle /\ cycle'.at = "reconnect"
        /\ cycle'.outcome = cycle.outcome /\ cycle'.loop = cycle.loop /\ cycle'.step = cycle.step
        /\ cycle'.tries = cycle.tries /\ cycle'.took = cycle.took
    BY <1>2, <1>3 DEF LoopCycle
  <2> QED BY <1>1, <1>3, <2>1, <2>2, LoopJudged
<1>4. CASE Loops!Is("cold") /\ Loops!End("timeout") /\ UNCHANGED hollow
  BY <1>1, <1>4, LoopEnd
<1>5. CASE Loops!Failed /\ Loops!End("failed") /\ UNCHANGED hollow
  <2>1. Loops!Is("install") /\ Loops!Command = "uninstall" /\ cycle.took =>
          answer.code = "timeout" \/ "lost" \in answer.marks
    <3> SUFFICES ASSUME Loops!Is("install"), Loops!Command = "uninstall", cycle.took, answer.code # "timeout"
                 PROVE  "lost" \in answer.marks
      OBVIOUS
    <3>1. answer.code # "ok" /\ ~("unknown" \in answer.marks /\ answer.code = "error")
      BY <1>5 DEF Loops!Failed, Loops!Tolerated, Loops!Is
    <3>2. answer.code = "error"
      BY <1>2, <3>1 DEF Loops!Answer
    <3> QED BY <1>1, <1>2, <3>1, <3>2 DEF LoopAnswers
  <2> QED BY <1>1, <1>5, <2>1, LoopEnd
<1>6. CASE /\ ~Loops!Failed /\ Loops!Is("reboot")
           /\ cycle' = [cycle EXCEPT !.at = "poll", !.polls = lCircumstance.polls] /\ UNCHANGED hollow
  <2>1. Loops!Command = "reboot"
    BY <1>2, <1>6, LoopSteps
  <2>2. answer.code = "ok"
    BY <1>6, <2>1 DEF Loops!Failed, Loops!Tolerated, Loops!Is
  <2>3. cycle.took \/ device.phase = "going"
    BY <1>1, <1>2, <1>6, <2>1, <2>2 DEF LoopAnswers, Loops!Is
  <2>4. lCircumstance.polls \in 0 .. lCircumstance.polls
    BY <1>2
  <2>5. /\ cycle' \in LoopCycle /\ cycle'.at = "poll"
        /\ cycle'.outcome = cycle.outcome /\ cycle'.loop = cycle.loop /\ cycle'.step = cycle.step
        /\ cycle'.tries = cycle.tries /\ cycle'.took = cycle.took
    BY <1>2, <1>6, <2>4 DEF LoopCycle
  <2> QED BY <1>1, <1>6, <2>3, <2>5, LoopJudged
<1>7. CASE /\ ~Loops!Failed /\ Loops!Command = "install" /\ cycle' = [cycle EXCEPT !.at = "verify"]
           /\ UNCHANGED hollow
  <2>1. /\ Loops!Is("install") /\ cycle.step # 1 /\ LoopCount = 2
    <3>1. Loops!Is("install")
      BY <1>2, <1>7, LoopSteps DEF Loops!Templates, Loops!Is
    <3> QED BY <1>2, <1>7, <3>1, LoopSteps
  <2>2. cycle.step = 2
    BY <1>2, <2>1 DEF LoopCycle
  <2>3. answer.code = "ok" /\ "said" \notin answer.marks
    BY <1>1, <1>2, <1>7, <2>1 DEF Loops!Failed, Loops!Tolerated, Loops!Is, LoopAnswers
  <2>4. lCircumstance.mute \/ cycle.took
    BY <1>1, <1>2, <2>1, <2>3 DEF LoopAnswers, Loops!Is
  <2>5. /\ cycle' \in LoopCycle /\ cycle'.at = "verify"
        /\ cycle'.outcome = cycle.outcome /\ cycle'.loop = cycle.loop /\ cycle'.step = cycle.step
        /\ cycle'.tries = cycle.tries /\ cycle'.took = cycle.took
    BY <1>2, <1>7 DEF LoopCycle
  <2> QED BY <1>1, <1>7, <2>1, <2>2, <2>4, <2>5, LoopJudged
<1>8. CASE ~Loops!Failed /\ ~Loops!Is("reboot") /\ Loops!Command # "install" /\ Loops!Passed(Loops!Why)
  <2> DEFINE why == Loops!Why
  <2>1. /\ cycle.took \/ lCircumstance.mute \/ <<Loops!Command, why>> \in Loops!Excuses
        /\ Loops!Is("standby") /\ cycle.step >= 2 => device.awake
        /\ Loops!Is("foreground") /\ cycle.step = 2 => device.app # "front"
        /\ Loops!Is("cold") => device.app = "front"
    BY <1>1, <1>8, LoopExcused
  <2>2. Loops!Passed(why)
    BY <1>8
  <2> HIDE DEF why
  <2>3. /\ Loops!Is("foreground") => LoopCount = 2
        /\ Loops!Is("install") => LoopCount = 2 /\ cycle.step = 1
    BY <1>2, <1>8, LoopSteps
  <2>4. cycle.step = LoopCount =>
          /\ Loops!Is("install") => device.app # "absent"
          /\ Loops!Is("foreground") => device.app # "front"
          /\ Loops!Is("cold") => device.app = "front"
    BY <2>1, <2>3
  <2> QED BY <1>1, <2>1, <2>2, <2>4, LoopPassed
<1> QED BY <1>1, <1>3, <1>4, <1>5, <1>6, <1>7, <1>8

\* What a command that is sent finds, and leaves: its answer is to be judged by it.
LEMMA LoopSent ==
  ASSUME LoopInv, cycle.at = "send", NEW took \in BOOLEAN, Loops!Sent(took),
         UNCHANGED <<lCircumstance, losses, hollow>>,
         device' \in Loops!Device, answer' \in Loops!Answer,
         ~Loops!Is("reboot") => device'.phase = device.phase,
         Loops!Is("install") /\ cycle.step = 1 => (took <=> device'.app = "absent"),
         Loops!Is("standby") /\ cycle.step = 3 => device'.awake,
         "said" \in answer'.marks => answer'.code = "ok" /\ Loops!Command \in {"launch", "command"},
         "unknown" \in answer'.marks => Loops!Command = "uninstall" /\ took,
         answer'.code = "error" /\ Loops!Command = "uninstall" /\ took =>
           "lost" \in answer'.marks \/ "unknown" \in answer'.marks,
         answer'.code = "ok" =>
           /\ \/ took
              \/ lCircumstance.mute /\ Loops!Is("install")
              \/ "said" \in answer'.marks
              \/ Loops!Is("cold") /\ ~cycle.killed
              \/ Loops!Is("reboot") /\ device'.phase = "going"
           /\ Loops!Is("cold") /\ "said" \notin answer'.marks => device'.app = "front"
           /\ Loops!Is("foreground") /\ cycle.step = 2 => device'.app # "front"
           /\ Loops!Is("standby") /\ cycle.step = 2 => device'.awake
  PROVE  LoopInv'
<1>1. cycle \in LoopCycle /\ cycle.tries < 2 /\ losses' \in 0 .. lCircumstance.losses
  BY LoopSteps DEF LoopInv, LoopPlace
<1>2. cycle' = [cycle EXCEPT !.at = "wait", !.tries = @ + 1, !.took = took]
  BY DEF Loops!Sent
<1>3. cycle.tries + 1 \in 0 .. 2
  BY <1>1 DEF LoopCycle
<1>4. /\ cycle' \in LoopCycle /\ cycle'.at = "wait" /\ cycle'.took = took
      /\ cycle'.outcome = cycle.outcome /\ cycle'.loop = cycle.loop /\ cycle'.step = cycle.step
      /\ cycle'.killed = cycle.killed
  BY <1>1, <1>2, <1>3 DEF LoopCycle
<1>5. Loops!Command' = Loops!Command
  BY <1>4, LoopStill
<1>6. Loops!TypeOK'
  BY <1>1, <1>4, LoopTypes DEF LoopInv
<1>7. LoopPlace'
  BY <1>4 DEF LoopInv, LoopPlace, Loops!Is
<1>8. LoopFinds'
  BY <1>4 DEF LoopFinds, Loops!Is
<1>9. LoopAnswers'
  BY <1>4, <1>5 DEF LoopAnswers, Loops!Is
<1>10. LoopLeaves'
  BY <1>4 DEF LoopLeaves
<1>11. cycle'.outcome = "none"
  BY <1>4 DEF LoopInv, LoopPlace
<1>12. Loops!LoopsAreReal' /\ Loops!EndsAsCommanded' /\ Loops!RemovalIsForgiven'
  BY <1>11 DEF LoopInv, Loops!LoopsAreReal, Loops!Excuses, Loops!Is, Loops!EndsAsCommanded, Loops!RemovalIsForgiven
<1> QED BY <1>6, <1>7, <1>8, <1>9, <1>10, <1>12 DEF LoopInv

\* The commands of the templates, by step.
LEMMA LoopCommands ==
  ASSUME LoopInv
  PROVE  /\ Loops!Command \in {"install", "uninstall"} => Loops!Is("install")
         /\ Loops!Is("install") /\ cycle.step = 1 => Loops!Command = "uninstall"
         /\ Loops!Command = "uninstall" => cycle.step = 1
         /\ Loops!Is("standby") /\ cycle.step = 2 => Loops!Command = "wake"
         /\ Loops!Is("standby") /\ cycle.step = 3 => Loops!Command = "unlock"
         /\ Loops!Is("foreground") /\ cycle.step = 2 => Loops!Command = "home"
         /\ Loops!Is("cold") => Loops!Command = "launch"
         /\ Loops!Command = "reboot" <=> Loops!Is("reboot")
<1>1. Loops!TypeOK /\ lCircumstance.template \in Loops!Templates
  BY LoopSteps DEF LoopInv
<1>2. Loops!Command \in {"install", "uninstall"} => Loops!Is("install")
  BY <1>1, LoopSteps DEF Loops!Templates, Loops!Is
<1>3. Loops!Command = "uninstall" => cycle.step = 1
  BY <1>1, <1>2, LoopSteps
<1>4. Loops!Command = "reboot" <=> Loops!Is("reboot")
  BY <1>1, LoopSteps DEF Loops!Templates, Loops!Is
<1>5. /\ Loops!Is("install") /\ cycle.step = 1 => Loops!Command = "uninstall"
      /\ Loops!Is("standby") /\ cycle.step = 2 => Loops!Command = "wake"
      /\ Loops!Is("standby") /\ cycle.step = 3 => Loops!Command = "unlock"
      /\ Loops!Is("foreground") /\ cycle.step = 2 => Loops!Command = "home"
      /\ Loops!Is("cold") => Loops!Command = "launch"
  BY <1>1, LoopSteps
<1> QED BY <1>2, <1>3, <1>4, <1>5

LEMMA LoopSend ==
  ASSUME LoopInv, Loops!Send
  PROVE  LoopInv'
<1>1. cycle.at = "send" /\ UNCHANGED <<lCircumstance, losses, hollow>>
  BY DEF Loops!Send
<1>2. /\ device \in Loops!Device /\ cycle \in LoopCycle /\ cycle.took \in BOOLEAN /\ LoopFinds
  BY LoopSteps DEF LoopInv, LoopCycle
<1>3. /\ Loops!Is("install") /\ cycle.step = 1 => (cycle.took <=> device.app = "absent")
      /\ Loops!Is("standby") /\ cycle.step = 3 => device.awake
      /\ Loops!Is("cold") /\ lCircumstance.kill /\ cycle.killed => device.app \in {"absent", "stopped"}
  BY <1>1, <1>2 DEF LoopFinds
\* It does not arrive.
<1>4. CASE answer' \in Loops!Lost /\ Loops!Sent(cycle.took) /\ UNCHANGED device
  <2>1. /\ answer' \in Loops!Answer /\ answer'.code = "error" /\ "lost" \in answer'.marks
        /\ "said" \notin answer'.marks /\ "unknown" \notin answer'.marks
    BY <1>4, LoopLost
  <2> QED BY <1>1, <1>2, <1>3, <1>4, <2>1, LoopSent
\* It is carried out.
<1>5. ASSUME Loops!Able(Loops!Command), device' = Loops!After(Loops!Command), Loops!Sent(Loops!Works),
             NEW slow \in SUBSET {"slow"}, answer' = Loops!Says("ok", slow)
      PROVE  LoopInv'
  <2>1. /\ answer' \in Loops!Answer /\ answer'.code = "ok"
        /\ "said" \notin answer'.marks /\ "unknown" \notin answer'.marks
    BY <1>5 DEF Loops!Says, Loops!Answer
  <2>2. /\ device' \in Loops!Device
        /\ Loops!Command # "reboot" => device'.phase = device.phase
        /\ Loops!Command = "uninstall" => device'.app = "absent"
        /\ Loops!Command = "unlock" => device' = device
        /\ Loops!Command = "reboot" => device'.phase = "going"
        /\ Loops!Command = "launch" => device'.app = "front"
        /\ Loops!Command = "home" => device'.app # "front"
        /\ Loops!Command = "wake" => device'.awake
    <3> DEFINE c == Loops!Command
    <3>1. device' = Loops!After(c)
      BY <1>5
    <3> HIDE DEF c
    <3>2. /\ device' \in Loops!Device
          /\ c # "reboot" => device'.phase = device.phase
          /\ c = "uninstall" => device'.app = "absent"
          /\ c = "unlock" => device' = device
          /\ c = "reboot" => device'.phase = "going"
          /\ c = "launch" => device'.app = "front"
          /\ c = "home" => device'.app # "front"
          /\ c = "wake" => device'.awake
      BY <1>2, <3>1 DEF Loops!After, Loops!Device
    <3> QED BY <3>2 DEF c
  <2>3. /\ Loops!Works \in BOOLEAN
        /\ Loops!Is("install") \/ Loops!Is("foreground") \/ Loops!Is("standby") => Loops!Works
        /\ Loops!Works \/ Loops!Is("reboot") \/ (Loops!Is("cold") /\ lCircumstance.kill /\ device.app # "stopped")
    BY DEF Loops!Works, Loops!Is
  <2>4. ~Loops!Works /\ Loops!Is("cold") => ~cycle.killed
    <3>1. Loops!Is("cold") => device.app # "absent"
      BY <1>5, LoopCommands DEF Loops!Able
    <3> QED BY <1>3, <2>3, <3>1 DEF Loops!Is
  <2>5. Loops!Works \/ (Loops!Is("cold") /\ ~cycle.killed) \/ (Loops!Is("reboot") /\ device'.phase = "going")
    BY <2>2, <2>3, <2>4, LoopCommands
  <2>6. /\ ~Loops!Is("reboot") => device'.phase = device.phase
        /\ Loops!Is("install") /\ cycle.step = 1 => (Loops!Works <=> device'.app = "absent")
        /\ Loops!Is("standby") /\ cycle.step = 3 => device'.awake
        /\ Loops!Is("cold") => device'.app = "front"
        /\ Loops!Is("foreground") /\ cycle.step = 2 => device'.app # "front"
        /\ Loops!Is("standby") /\ cycle.step = 2 => device'.awake
    BY <1>3, <2>2, <2>3, LoopCommands
  <2> DEFINE works == Loops!Works
  <2>7. works \in BOOLEAN /\ Loops!Sent(works)
    BY <1>5, <2>3
  <2> HIDE DEF works
  <2> QED BY <1>1, <2>1, <2>2, <2>5, <2>6, <2>7, LoopSent DEF works
\* It is declined.
<1>6. CASE answer' \in Loops!Declines(Loops!Command) /\ Loops!Sent(cycle.took) /\ UNCHANGED device
  <2> DEFINE unknown == IF Loops!Command = "uninstall" /\ device.app = "absent" THEN {"unknown"} ELSE {}
  <2>1. \/ answer' = Loops!Says("error", unknown)
        \/ Loops!Command \in {"launch", "command"} /\ answer' = Loops!Says("ok", {"said"})
        \/ Loops!Command \in {"install", "uninstall"} /\ lCircumstance.mute /\ answer' = Loops!Says("ok", {})
    BY <1>6 DEF Loops!Declines
  <2>2. Loops!Command = "uninstall" => (cycle.took <=> device.app = "absent")
    BY <1>3, LoopCommands
  <2>3. unknown \subseteq {"unknown"} /\ ("unknown" \in unknown <=> Loops!Command = "uninstall" /\ device.app = "absent")
    OBVIOUS
  <2> HIDE DEF unknown
  <2>4. CASE answer' = Loops!Says("error", unknown)
    <3>1. answer' \in Loops!Answer /\ answer'.code = "error" /\ answer'.marks = unknown
      BY <2>3, <2>4 DEF Loops!Says, Loops!Answer
    <3> QED BY <1>1, <1>2, <1>3, <1>6, <2>2, <2>3, <3>1, LoopSent
  <2>5. CASE Loops!Command \in {"launch", "command"} /\ answer' = Loops!Says("ok", {"said"})
    <3>1. answer' \in Loops!Answer /\ answer'.code = "ok" /\ answer'.marks = {"said"}
      BY <2>5 DEF Loops!Says, Loops!Answer
    <3>2. ~(Loops!Is("foreground") /\ cycle.step = 2) /\ ~(Loops!Is("standby") /\ cycle.step = 2)
      BY <2>5, LoopCommands
    <3> QED BY <1>1, <1>2, <1>3, <1>6, <2>5, <3>1, <3>2, LoopSent
  <2>6. CASE Loops!Command \in {"install", "uninstall"} /\ lCircumstance.mute /\ answer' = Loops!Says("ok", {})
    <3>1. answer' \in Loops!Answer /\ answer'.code = "ok" /\ answer'.marks = {}
      BY <2>6 DEF Loops!Says, Loops!Answer
    <3>2. Loops!Is("install")
      BY <2>6, LoopCommands
    <3>3. ~Loops!Is("cold") /\ ~Loops!Is("foreground") /\ ~Loops!Is("standby")
      BY <3>2 DEF Loops!Is
    <3> QED BY <1>1, <1>2, <1>3, <1>6, <2>6, <3>1, <3>2, <3>3, LoopSent
  <2> QED BY <2>1, <2>4, <2>5, <2>6
<1>7. \/ answer' \in Loops!Lost /\ Loops!Sent(cycle.took) /\ UNCHANGED device
      \/ /\ Loops!Able(Loops!Command) /\ device' = Loops!After(Loops!Command) /\ Loops!Sent(Loops!Works)
         /\ \E slow \in SUBSET {"slow"} : answer' = Loops!Says("ok", slow)
      \/ answer' \in Loops!Declines(Loops!Command) /\ Loops!Sent(cycle.took) /\ UNCHANGED device
  <2> DEFINE slowness == SUBSET (IF Loops!Is("cold") THEN {"slow"} ELSE {})
  <2>1. slowness \subseteq SUBSET {"slow"}
    OBVIOUS
  <2>2. \/ answer' \in Loops!Lost /\ Loops!Sent(cycle.took) /\ UNCHANGED device
        \/ /\ Loops!Able(Loops!Command) /\ device' = Loops!After(Loops!Command) /\ Loops!Sent(Loops!Works)
           /\ \E slow \in slowness : answer' = Loops!Says("ok", slow)
        \/ answer' \in Loops!Declines(Loops!Command) /\ Loops!Sent(cycle.took) /\ UNCHANGED device
    BY DEF Loops!Send
  <2> HIDE DEF slowness
  <2> QED BY <2>1, <2>2
<1> QED BY <1>4, <1>5, <1>6, <1>7

LEMMA LoopInit ==
  ASSUME Loops!ConstantsOK, Loops!Init
  PROVE  LoopInv
<1>1. lCircumstance \in LoopCircumstances /\ lCircumstance \in Loops!Config
  BY DEF Loops!Init, Loops!ConstantsOK
<1>2. lCircumstance.losses \in Nat /\ lCircumstance.polls \in Nat /\ lCircumstance.loops \in Nat
      /\ lCircumstance.template \in Loops!Templates
  BY <1>1 DEF Loops!Config
<1>3. 1 \in 1 .. Len(Loops!Steps(lCircumstance.template))
  BY <1>2 DEF Loops!Templates, Loops!Steps
<1>4. device \in Loops!Device /\ device.phase = "up" /\ device.awake
  BY DEF Loops!Init, Loops!Device
<1>5. answer \in Loops!Answer /\ losses \in 0 .. lCircumstance.losses /\ hollow = {}
  BY <1>2 DEF Loops!Init, Loops!Says, Loops!Answer
<1>6. cycle = [at |-> "start", loop |-> 0, step |-> 1, tries |-> 0, polls |-> 0, took |-> FALSE,
               killed |-> FALSE, outcome |-> "none"]
  BY DEF Loops!Init
<1>7. /\ cycle.at = "start" /\ cycle.loop = 0 /\ cycle.step = 1 /\ cycle.outcome = "none"
      /\ cycle \in LoopCycle
  <2>1. 0 \in 0 .. lCircumstance.loops /\ 0 \in 0 .. lCircumstance.polls /\ 0 \in 0 .. 2 /\ 1 \in 1 .. LoopCount
    BY <1>2, <1>3 DEF LoopCount
  <2> DEFINE loops == 0 .. lCircumstance.loops
             polls == 0 .. lCircumstance.polls
             tries == 0 .. 2
             steps == 1 .. LoopCount
  <2>2. LoopCycle = [at : {"start", "head", "kill", "send", "wait", "reconnect", "verify", "poll", "done"},
                     loop : loops, step : steps, tries : tries, polls : polls, took : BOOLEAN, killed : BOOLEAN,
                     outcome : {"none", "success", "failed", "timeout", "offline"}]
    BY DEF LoopCycle
  <2>3. 0 \in loops /\ 0 \in polls /\ 0 \in tries /\ 1 \in steps
    BY <2>1
  <2> HIDE DEF loops, polls, tries, steps
  <2> QED BY <1>6, <2>2, <2>3
<1>8. Loops!TypeOK
  BY <1>1, <1>4, <1>5, <1>7 DEF Loops!TypeOK, LoopCycle, LoopCount
<1>9. LoopPlace /\ LoopFinds /\ LoopAnswers /\ LoopLeaves
  BY <1>4, <1>7 DEF LoopPlace, LoopFinds, LoopAnswers, LoopLeaves
<1>10. Loops!LoopsAreReal /\ Loops!EndsAsCommanded /\ Loops!RemovalIsForgiven
  BY <1>5, <1>7 DEF Loops!LoopsAreReal, Loops!EndsAsCommanded, Loops!RemovalIsForgiven
<1> QED BY <1>8, <1>9, <1>10 DEF LoopInv

LEMMA LoopStep ==
  ASSUME LoopInv, [Loops!Next]_(Loops!vars)
  PROVE  LoopInv'
<1>1. CASE UNCHANGED Loops!vars
  <2>1. UNCHANGED <<lCircumstance, device, losses, cycle, answer, hollow>>
    BY <1>1 DEF Loops!vars
  <2>2. Loops!TypeOK'
    BY <2>1, LoopSteps, LoopTypes DEF LoopInv
  <2>3. Loops!Command' = Loops!Command
    BY <2>1, LoopStill
  <2>4. LoopPlace' /\ LoopFinds' /\ LoopLeaves'
    BY <2>1 DEF LoopInv, LoopPlace, LoopFinds, LoopLeaves, Loops!Is
  <2>5. LoopAnswers'
    BY <2>1, <2>3 DEF LoopInv, LoopAnswers, Loops!Is
  <2>6. Loops!LoopsAreReal' /\ Loops!EndsAsCommanded' /\ Loops!RemovalIsForgiven'
    BY <2>1, <2>3 DEF LoopInv, Loops!LoopsAreReal, Loops!Excuses, Loops!Is, Loops!EndsAsCommanded,
       Loops!RemovalIsForgiven
  <2> QED BY <2>2, <2>4, <2>5, <2>6 DEF LoopInv
<1> QED
  BY <1>1, LoopEnvironment, LoopGoDown, LoopStart, LoopNext, LoopKill, LoopSend, LoopJudge, LoopReconnect,
     LoopVerify, LoopPoll
  DEF Loops!Next

LEMMA LoopInvariant ==
  ASSUME Loops!ConstantsOK
  PROVE  Loops!Spec => []LoopInv
<1>1. Loops!Init => LoopInv
  BY LoopInit
<1> QED BY <1>1, LoopStep, PTL DEF Loops!Spec

LEMMA LoopInvSafe ==
  ASSUME LoopInv
  PROVE  LoopsSafe
BY DEF LoopInv, LoopsSafe, Loops!LoopsSafe

-----------------------------------------------------------------------------
(* The gate.                                                               *)

\* A set of numbers up to a limit, one at least, has a greatest one.
LEMMA GreatestNumber ==
  ASSUME NEW n \in Nat, NEW T \in SUBSET (1..n), T # {}
  PROVE  Gates!Max(T) \in T /\ \A m \in T : m <= Gates!Max(T)
<1> DEFINE R == {n - m : m \in T}
<1>1. R \in SUBSET Nat /\ R # {}
  <2>1. \A m \in T : n - m \in Nat
    OBVIOUS
  <2>2. PICK m \in T : TRUE
    OBVIOUS
  <2>3. n - m \in R
    OBVIOUS
  <2> QED BY <2>1, <2>3
<1> HIDE DEF R
<1>2. PICK x \in R : \A y \in R : ~(<<y, x>> \in OpToRel(<, Nat))
  BY <1>1, WFMin, NatLessThanWellFounded
<1>3. \A y \in R : ~(y < x)
  BY <1>1, <1>2 DEF OpToRel
<1>4. PICK m \in T : x = n - m
  BY DEF R
<1>5. \A i \in T : i <= m
  <2> TAKE i \in T
  <2>1. ~(n - i < n - m)
    BY <1>3, <1>4 DEF R
  <2> QED BY <2>1
<1> QED BY <1>5 DEF Gates!Max

\* The decision, from what exceeds its threshold: the worst consequence of all.
LEMMA GateJudged ==
  ASSUME NEW r \in Gates!Report, NEW g \in Gates!Report, NEW p \in [Gates!Thresholds -> Nat]
  PROVE  Gates!Judged(r, g, p) =
           IF r.fails > p.review_failures \/ g.failedCases > p.golden_suite_failures THEN "fail"
           ELSE IF \/ r.fails <= p.review_failures /\ r.warnings > p.review_warnings
                   \/ r.families > p.high_risk_families
                   \/ r.snapshots < p.review_snapshot_coverage \/ g.cases < p.golden_suite_coverage
           THEN "conditional_pass" ELSE "pass"
<1> DEFINE triggered == {t \in Gates!Thresholds : Gates!Triggers(r, g, p)[t]}
           D == {"pass"} \cup ({Gates!Consequence[t] : t \in triggered} \ {"risk_only"})
           failing == r.fails > p.review_failures \/ g.failedCases > p.golden_suite_failures
           conditional == \/ r.fails <= p.review_failures /\ r.warnings > p.review_warnings
                          \/ r.families > p.high_risk_families
                          \/ r.snapshots < p.review_snapshot_coverage
                          \/ g.cases < p.golden_suite_coverage
<1>1. Gates!Judged(r, g, p) = Gates!Worst(D)
  BY DEF Gates!Judged
<1>2. /\ "review_failures" \in triggered <=> r.fails > p.review_failures
      /\ "golden_suite_failures" \in triggered <=> g.failedCases > p.golden_suite_failures
      /\ "review_warnings" \in triggered <=> r.fails <= p.review_failures /\ r.warnings > p.review_warnings
      /\ "high_risk_families" \in triggered <=> r.families > p.high_risk_families
      /\ "review_snapshot_coverage" \in triggered <=> r.snapshots < p.review_snapshot_coverage
      /\ "golden_suite_coverage" \in triggered <=> g.cases < p.golden_suite_coverage
      /\ triggered \subseteq Gates!Thresholds
  BY DEF Gates!Triggers, Gates!Thresholds
<1> HIDE DEF triggered
<1>3. /\ "fail" \in D <=> "review_failures" \in triggered \/ "golden_suite_failures" \in triggered
      /\ "conditional_pass" \in D <=>
           \/ "review_warnings" \in triggered \/ "high_risk_families" \in triggered
           \/ "review_snapshot_coverage" \in triggered \/ "golden_suite_coverage" \in triggered
      /\ "pass" \in D /\ D \subseteq {"pass", "conditional_pass", "fail"}
  <2>1. \A t \in triggered :
          Gates!Consequence[t] =
            IF t \in {"review_failures", "golden_suite_failures"} THEN "fail"
            ELSE IF t = "performance_risks" THEN "risk_only" ELSE "conditional_pass"
    BY <1>2 DEF Gates!Consequence, Gates!Thresholds
  <2> QED BY <1>2, <2>1 DEF Gates!Thresholds
<1>4. ("fail" \in D <=> failing) /\ ("conditional_pass" \in D <=> conditional)
  BY <1>2, <1>3
<1> HIDE DEF D, failing, conditional
<1>5. Gates!Worst(D) = IF "fail" \in D THEN "fail" ELSE IF "conditional_pass" \in D THEN "conditional_pass" ELSE "pass"
  <2> DEFINE worst == IF "fail" \in D THEN "fail" ELSE IF "conditional_pass" \in D THEN "conditional_pass" ELSE "pass"
  <2>1. Gates!Priority["pass"] = 0 /\ Gates!Priority["conditional_pass"] = 1 /\ Gates!Priority["fail"] = 2
    BY DEF Gates!Priority
  <2>2. worst \in D /\ \A e \in D : Gates!Priority[e] <= Gates!Priority[worst]
    BY <1>3, <2>1
  <2>3. \A d \in D : (\A e \in D : Gates!Priority[e] <= Gates!Priority[d]) => d = worst
    BY <1>3, <2>1
  <2> HIDE DEF worst
  <2>4. Gates!Worst(D) = worst
    BY <2>2, <2>3 DEF Gates!Worst
  <2> QED BY <2>4 DEF worst
<1> QED BY <1>1, <1>4, <1>5 DEF failing, conditional

\* The overrides that speak of a threshold of a baseline with this report.
GateSays(k, r, t) ==
  {i \in DOMAIN gCircumstance.scoped :
     Gates!Matches(k, r, gCircumstance.scoped[i]) /\ t \in DOMAIN gCircumstance.scoped[i].values}
GateAt(k, r, t) ==
  IF GateSays(k, r, t) = {} THEN gCircumstance.policy[t]
  ELSE Gates!Accepted(t, gCircumstance.scoped[Gates!Max(GateSays(k, r, t))].values[t])

LEMMA GateConstants ==
  ASSUME Gates!TypeOK
  PROVE  /\ gCircumstance.reports \in Seq(Gates!Report) /\ gCircumstance.policy \in [Gates!Thresholds -> Nat]
         /\ DOMAIN gCircumstance.reports \subseteq Nat \ {0}
         /\ \A i \in DOMAIN gCircumstance.reports : gCircumstance.reports[i] \in Gates!Report
         /\ Len(gCircumstance.scoped) \in Nat /\ DOMAIN gCircumstance.scoped = 1 .. Len(gCircumstance.scoped)
         /\ \A i \in DOMAIN gCircumstance.scoped : \A t \in DOMAIN gCircumstance.scoped[i].values :
              gCircumstance.scoped[i].values[t] \in Int
         /\ gCircumstance.processes \subseteq Processes /\ gCircumstance.deaths \in BOOLEAN
         /\ gCircumstance.commands \in Nat
BY DEF Gates!TypeOK, Gates!ConstantsOK, Gates!Scoped

\* The recursion over the overrides ends with the last that speaks.
LEMMA GateResolved ==
  ASSUME Gates!TypeOK, NEW k, NEW r, NEW t \in Gates!Thresholds
  PROVE  Gates!Resolve(k, r)[t] = GateAt(k, r, t) /\ GateAt(k, r, t) \in Nat
<1> DEFINE S == gCircumstance.scoped
           n == Len(S)
           W == GateSays(k, r, t)
           Body(f) ==
             [i \in 0 .. n |->
                IF i = 0 THEN gCircumstance.policy[t]
                ELSE LET s == S[i] IN IF Gates!Matches(k, r, s) /\ t \in DOMAIN s.values THEN s.values[t] ELSE f[i - 1]]
           F == CHOOSE f : f = Body(f)
           Until(i) == {j \in W : j <= i}
           V(i) == IF Until(i) = {} THEN gCircumstance.policy[t] ELSE S[Gates!Max(Until(i))].values[t]
           G == [i \in 0 .. n |-> V(i)]
<1>1. Gates!Resolve(k, r)[t] = Gates!Accepted(t, F[n])
  BY DEF Gates!Resolve
<1>2. n \in Nat /\ DOMAIN S = 1 .. n /\ W \in SUBSET (1 .. n)
      /\ \A i \in W : S[i].values[t] \in Int
  BY GateConstants DEF GateSays
<1>3. \A i \in 1 .. n : (Gates!Matches(k, r, S[i]) /\ t \in DOMAIN S[i].values) <=> i \in W
  BY <1>2 DEF GateSays
<1> HIDE DEF W
<1>4. \A j \in W : j \in Int /\ 1 <= j /\ j <= n
  <2>1. n \in Nat /\ W \subseteq 1 .. n
    BY <1>2
  <2> HIDE DEF n
  <2> QED BY <2>1
<1> HIDE DEF n
<1>5. V(0) = gCircumstance.policy[t]
  <2>1. Until(0) = {}
    BY <1>4
  <2> QED BY <2>1
<1>6. \A i \in 1 .. n : V(i) = IF i \in W THEN S[i].values[t] ELSE V(i - 1)
  <2> TAKE i \in 1 .. n
  <2>1. CASE i \notin W
    <3>1. \A j \in W : j <= i <=> j <= i - 1
      BY <1>2, <1>4, <2>1
    <3>2. Until(i) = Until(i - 1)
      BY <3>1
    <3> QED BY <2>1, <3>2
  <2>2. CASE i \in W
    <3>1. i \in Until(i) /\ i \in Nat /\ \A j \in Until(i) : j \in 1 .. i
      BY <1>2, <1>4, <2>2
    <3> HIDE DEF Until
    <3>2. Until(i) \in SUBSET (1 .. i) /\ Until(i) # {}
      BY <3>1
    <3>3. Gates!Max(Until(i)) \in Until(i) /\ \A m \in Until(i) : m <= Gates!Max(Until(i))
      BY <3>1, <3>2, GreatestNumber
    <3>4. Gates!Max(Until(i)) = i
      BY <3>1, <3>3
    <3> QED BY <2>2, <3>1, <3>4
  <2> QED BY <2>1, <2>2
<1> HIDE DEF V
<1>7. G = Body(G)
  BY <1>2, <1>3, <1>5, <1>6
<1>8. F = Body(F)
  <2> HIDE DEF G, Body
  <2> QED BY <1>7
<1>9. F[n] = V(n)
  <2> DEFINE Bad == {i \in 0 .. n : F[i] # V(i)}
  <2>1. \A i \in 0 .. n :
          F[i] = IF i = 0 THEN gCircumstance.policy[t] ELSE IF i \in W THEN S[i].values[t] ELSE F[i - 1]
    <3> HIDE DEF F
    <3> QED BY <1>2, <1>3, <1>8
  <2> HIDE DEF F
  <2>2. ASSUME Bad # {} PROVE FALSE
    <3>1. Bad \in SUBSET Nat
      BY <1>2
    <3> HIDE DEF Bad
    <3>2. PICK m \in Bad : \A j \in Bad : ~(<<j, m>> \in OpToRel(<, Nat))
      BY <2>2, <3>1, WFMin, NatLessThanWellFounded
    <3>3. \A j \in Bad : ~(j < m)
      BY <3>1, <3>2 DEF OpToRel
    <3>4. m \in 0 .. n /\ F[m] # V(m)
      BY DEF Bad
    <3>5. m # 0
      BY <1>5, <2>1, <3>4
    <3>6. m - 1 \in 0 .. n /\ m \in 1 .. n /\ m - 1 < m
      BY <1>2, <3>4, <3>5
    <3>7. F[m - 1] = V(m - 1)
      BY <3>3, <3>6 DEF Bad
    <3> QED BY <1>6, <2>1, <3>4, <3>5, <3>6, <3>7
  <2>3. n \in 0 .. n
    BY <1>2
  <2> QED BY <2>2, <2>3
<1>10. Until(n) = W
  BY <1>4
<1>11. gCircumstance.policy[t] \in Nat
  BY GateConstants
<1>12. \A v \in Int : Gates!Accepted(t, v) \in Nat
  BY DEF Gates!Accepted, Gates!Default
<1>13. \A v \in Nat : Gates!Accepted(t, v) = v
  BY DEF Gates!Accepted, Gates!NotANumber
<1> HIDE DEF F, Until
<1>14. CASE W = {}
  <2>1. V(n) = gCircumstance.policy[t]
    BY <1>10, <1>14 DEF V
  <2> QED BY <1>1, <1>9, <1>11, <1>13, <1>14, <2>1 DEF GateAt, W
<1>15. CASE W # {}
  <2>1. V(n) = S[Gates!Max(W)].values[t]
    BY <1>10, <1>15 DEF V
  <2>2. Gates!Max(W) \in W
    BY <1>2, <1>15, GreatestNumber
  <2>3. S[Gates!Max(W)].values[t] \in Int
    BY <1>2, <2>2
  <2>4. GateAt(k, r, t) = Gates!Accepted(t, S[Gates!Max(W)].values[t])
    BY <1>15 DEF GateAt, W
  <2> QED BY <1>1, <1>9, <1>12, <2>1, <2>3, <2>4
<1> QED BY <1>14, <1>15

\* What the policy asks is a number for each threshold, the same of two reports of one package.
LEMMA GatePolicy ==
  ASSUME Gates!TypeOK, NEW k, NEW r
  PROVE  /\ Gates!Resolve(k, r) \in [Gates!Thresholds -> Nat]
         /\ \A t \in Gates!Thresholds : Gates!Resolve(k, r)[t] = GateAt(k, r, t)
         /\ \A s : s.package = r.package => Gates!Resolve(k, s) = Gates!Resolve(k, r)
<1>1. \A t \in Gates!Thresholds : Gates!Resolve(k, r)[t] = GateAt(k, r, t) /\ GateAt(k, r, t) \in Nat
  BY GateResolved
<1>2. \A s : \A t \in Gates!Thresholds : Gates!Resolve(k, s)[t] = GateAt(k, s, t)
  BY GateResolved
<1>3. \A s : /\ DOMAIN Gates!Resolve(k, s) = Gates!Thresholds
             /\ Gates!Resolve(k, s) = [t \in Gates!Thresholds |-> Gates!Resolve(k, s)[t]]
  BY DEF Gates!Resolve
<1>4. ASSUME NEW s, s.package = r.package
      PROVE  Gates!Resolve(k, s) = Gates!Resolve(k, r)
  <2>1. \A t : GateSays(k, s, t) = GateSays(k, r, t)
    BY <1>4 DEF GateSays, Gates!Matches
  <2>2. \A t : GateAt(k, s, t) = GateAt(k, r, t)
    BY <2>1 DEF GateAt
  <2> QED BY <1>1, <1>2, <1>3, <2>2
<1>5. Gates!Resolve(k, r) \in [Gates!Thresholds -> Nat]
  BY <1>1, <1>3
<1> QED BY <1>1, <1>4, <1>5

\* The decision on a baseline, from its report and the golden suite of its latest audit.
LEMMA GateAutomatic ==
  ASSUME Gates!TypeOK, NEW k \in GateKeys, baseline[k] # 0
  PROVE  /\ gCircumstance.reports[baseline[k]] \in Gates!Report /\ Gates!GoldenSuite(k) \in Gates!Report
         /\ Gates!Automatic(k) \in Gates!Decisions
<1> DEFINE r == gCircumstance.reports[baseline[k]]
           g == Gates!GoldenSuite(k)
<1>1. baseline[k] \in DOMAIN gCircumstance.reports /\ audit[k] \in {0} \cup DOMAIN gCircumstance.reports
  BY DEF Gates!TypeOK
<1>2. r \in Gates!Report /\ g \in Gates!Report
  BY <1>1, GateConstants DEF Gates!GoldenSuite
<1>3. Gates!Automatic(k) = Gates!Judged(r, g, Gates!Resolve(k, r))
  BY DEF Gates!Automatic
<1> HIDE DEF r, g
<1>4. Gates!Judged(r, g, Gates!Resolve(k, r)) \in {"pass", "conditional_pass", "fail"}
  <2>1. Gates!Resolve(k, r) \in [Gates!Thresholds -> Nat]
    BY GatePolicy
  <2> QED BY <1>2, <2>1, GateJudged
<1> QED BY <1>2, <1>3, <1>4 DEF Gates!Decisions, r, g

-----------------------------------------------------------------------------
(* The inductive invariant of the gate.                                    *)

\* A command runs in one of the processes there are, on one of the reports there are.
GateRuns ==
  \A p \in Processes :
    /\ gCommand[p] # Gates!Idle => p \in gCircumstance.processes
    /\ gCommand[p].at \in {"audit", "save"} => gCommand[p].report \in DOMAIN gCircumstance.reports
\* With nobody else at work the latest audit is that of the report that is about to be
\* the baseline, and without one that of the baseline,
GateAligned ==
  Gates!Orderly =>
    /\ \A p \in Processes :
         gCommand[p].at = "save" => audit[gCommand[p].key] = gCommand[p].report
    /\ \A k \in GateKeys :
         audit[k] # baseline[k] =>
           \E p \in Processes : gCommand[p].at = "save" /\ gCommand[p].key = k
\* and who writes the overrides has read them as they are.
GateLoaded ==
  Gates!Orderly =>
    \A p \in Processes : gCommand[p].at = "write" => gCommand[p].registry = overrides
GateInv == Gates!TypeOK /\ GateRuns /\ GateAligned /\ GateLoaded

\* What a command is, by where it is.
LEMMA GateCommands ==
  ASSUME NEW c \in Gates!Command
  PROVE  /\ c.at \in {"idle", "audit", "save", "load", "write"}
         /\ c.at = "idle" <=> c = Gates!Idle
         /\ c.at \in {"audit", "save"} =>
              /\ c.key \in GateKeys /\ c.report \in Nat \ {0}
              /\ [c EXCEPT !.at = "save"] = [at |-> "save", key |-> c.key, report |-> c.report]
         /\ c.at \in {"load", "write"} => c.key \in GateKeys /\ c.override \in Gates!Override
         /\ c.at = "write" => c.registry \in [GateKeys -> Gates!Override]
<1>1. CASE c = Gates!Idle
  BY <1>1 DEF Gates!Idle
<1>2. CASE c \in [at : {"audit", "save"}, key : GateKeys, report : Nat \ {0}]
  BY <1>2 DEF Gates!Idle
<1>3. CASE c \in [at : {"load"}, key : GateKeys, override : Gates!Override]
  BY <1>3 DEF Gates!Idle
<1>4. CASE c \in [at : {"write"}, key : GateKeys, override : Gates!Override,
                  registry : [GateKeys -> Gates!Override]]
  BY <1>4 DEF Gates!Idle
<1> QED BY <1>1, <1>2, <1>3, <1>4 DEF Gates!Command

\* A process takes up another command.
LEMMA GateBecomes ==
  ASSUME Gates!TypeOK, NEW p \in Processes, NEW c \in Gates!Command, Gates!Become(p, c)
  PROVE  /\ gCommand' \in [Processes -> Gates!Command]
         /\ gCommand'[p] = c
         /\ \A q \in Processes \ {p} : gCommand'[q] = gCommand[q]
BY DEF Gates!TypeOK, Gates!Become

\* With nobody else at work there is no other command.
LEMMA GateAlone ==
  ASSUME GateInv, Gates!Orderly, NEW p \in Processes, p \in gCircumstance.processes
  PROVE  \A q \in Processes \ {p} : gCommand[q] = Gates!Idle
BY DEF GateInv, GateRuns, Gates!Orderly

\* What a step of the gate leaves as it is, so that the types need only what it changes.
LEMMA GateTypes ==
  ASSUME Gates!TypeOK, gCircumstance' = gCircumstance,
         baseline' \in [GateKeys -> {0} \cup DOMAIN gCircumstance.reports],
         audit' \in [GateKeys -> {0} \cup DOMAIN gCircumstance.reports],
         overrides' \in [GateKeys -> Gates!Override],
         gLeft' \in 0 .. gCircumstance.commands,
         gCommand' \in [Processes -> Gates!Command]
  PROVE  Gates!TypeOK'
BY DEF Gates!TypeOK, Gates!ConstantsOK, Gates!Scoped, Gates!Command, Gates!Override, Gates!Report, Gates!Idle,
   Gates!Nothing, Gates!Decisions

\* A command is taken up: it takes one of those still to come.
LEMMA GateLeft ==
  ASSUME Gates!TypeOK, gLeft > 0, gLeft' = gLeft - 1
  PROVE  gLeft' \in 0 .. gCircumstance.commands
BY GateConstants DEF Gates!TypeOK

LEMMA GateSetBaseline ==
  ASSUME GateInv, NEW p \in Processes, Gates!SetBaseline(p)
  PROVE  GateInv'
<1>1. PICK k \in GateKeys : \E r \in DOMAIN gCircumstance.reports \ {baseline[k]} :
        Gates!Become(p, [at |-> "audit", key |-> k, report |-> r])
  BY DEF Gates!SetBaseline
<1>2. PICK r \in DOMAIN gCircumstance.reports \ {baseline[k]} :
        Gates!Become(p, [at |-> "audit", key |-> k, report |-> r])
  BY <1>1
<1> DEFINE c == [at |-> "audit", key |-> k, report |-> r]
<1>3. r \in Nat \ {0}
  BY GateConstants DEF GateInv
<1>4. c \in Gates!Command /\ c # Gates!Idle /\ c.at = "audit" /\ c.report = r
  BY <1>3 DEF Gates!Command, Gates!Idle
<1>5. UNCHANGED <<gCircumstance, baseline, audit, overrides>> /\ p \in gCircumstance.processes
      /\ gCommand[p] = Gates!Idle /\ gLeft > 0 /\ gLeft' = gLeft - 1
  BY DEF Gates!SetBaseline, Gates!Free
<1>6. Gates!Become(p, c)
  BY <1>2
<1> HIDE DEF c
<1>7. /\ gCommand' \in [Processes -> Gates!Command] /\ gCommand'[p] = c
      /\ \A q \in Processes \ {p} : gCommand'[q] = gCommand[q]
  BY <1>4, <1>6, GateBecomes DEF GateInv
<1>8. Gates!TypeOK'
  BY <1>5, <1>7, GateTypes, GateLeft DEF GateInv, Gates!TypeOK
<1>9. GateRuns'
  BY <1>2, <1>4, <1>5, <1>7 DEF GateInv, GateRuns
<1>10. gCommand[p].at = "idle"
  BY <1>5 DEF Gates!Idle
<1>11. GateAligned' /\ GateLoaded'
  BY <1>4, <1>5, <1>7, <1>10 DEF GateInv, GateAligned, GateLoaded, Gates!Orderly
<1> QED BY <1>8, <1>9, <1>11 DEF GateInv

LEMMA GateWriteAudit ==
  ASSUME GateInv, NEW p \in Processes, Gates!WriteAudit(p)
  PROVE  GateInv'
<1> DEFINE c == gCommand[p]
           d == [c EXCEPT !.at = "save"]
<1>1. /\ c.at = "audit" /\ audit' = [audit EXCEPT ![c.key] = c.report] /\ Gates!Become(p, d)
      /\ UNCHANGED <<gCircumstance, baseline, overrides, gLeft>>
  BY DEF Gates!WriteAudit
<1>2. c \in Gates!Command
  BY DEF GateInv, Gates!TypeOK
<1>3. /\ c.key \in GateKeys /\ c.report \in Nat \ {0}
      /\ d = [at |-> "save", key |-> c.key, report |-> c.report]
  BY <1>1, <1>2, GateCommands
<1>4. /\ d \in Gates!Command /\ d # Gates!Idle
      /\ d.at = "save" /\ d.key = c.key /\ d.report = c.report
  BY <1>3 DEF Gates!Command, Gates!Idle
<1>5. c # Gates!Idle /\ p \in gCircumstance.processes /\ c.report \in DOMAIN gCircumstance.reports
  BY <1>1 DEF GateInv, GateRuns, Gates!Idle
<1> HIDE DEF d
<1>6. /\ gCommand' \in [Processes -> Gates!Command] /\ gCommand'[p] = d
      /\ \A q \in Processes \ {p} : gCommand'[q] = gCommand[q]
  BY <1>1, <1>4, GateBecomes DEF GateInv
<1>7. audit \in [GateKeys -> {0} \cup DOMAIN gCircumstance.reports]
  BY DEF GateInv, Gates!TypeOK
<1>8. /\ audit' \in [GateKeys -> {0} \cup DOMAIN gCircumstance.reports] /\ audit'[c.key] = c.report
      /\ \A k \in GateKeys \ {c.key} : audit'[k] = audit[k]
  BY <1>1, <1>3, <1>5, <1>7
<1>9. Gates!TypeOK'
  BY <1>1, <1>6, <1>8, GateTypes DEF GateInv, Gates!TypeOK
<1>10. GateRuns'
  BY <1>1, <1>4, <1>5, <1>6 DEF GateInv, GateRuns
<1>11. Gates!Orderly' => Gates!Orderly
  BY <1>1 DEF Gates!Orderly
<1>12. ASSUME Gates!Orderly
       PROVE  \A q \in Processes \ {p} : gCommand[q] = Gates!Idle
  BY <1>5, <1>12, GateAlone
<1>13. GateAligned'
  <2> SUFFICES ASSUME Gates!Orderly
               PROVE  /\ \A q \in Processes :
                           gCommand'[q].at = "save" => audit'[gCommand'[q].key] = gCommand'[q].report
                      /\ \A k \in GateKeys :
                           audit'[k] # baseline'[k] =>
                             \E q \in Processes : gCommand'[q].at = "save" /\ gCommand'[q].key = k
    BY <1>11 DEF GateAligned
  <2>1. \A q \in Processes \ {p} : gCommand'[q].at # "save"
    BY <1>6, <1>12 DEF Gates!Idle
  <2>2. ASSUME NEW k \in GateKeys, k # c.key
        PROVE  audit[k] = baseline[k]
    <3>1. \A q \in Processes : gCommand[q].at = "save" => q = p
      BY <1>12 DEF Gates!Idle
    <3> QED BY <2>2, <3>1 DEF GateInv, GateAligned
  <2> QED BY <1>1, <1>3, <1>4, <1>6, <1>8, <2>1, <2>2
<1>14. GateLoaded'
  BY <1>1, <1>4, <1>6, <1>11 DEF GateInv, GateLoaded
<1> QED BY <1>9, <1>10, <1>13, <1>14 DEF GateInv

LEMMA GateSaveBaseline ==
  ASSUME GateInv, NEW p \in Processes, Gates!SaveBaseline(p)
  PROVE  /\ GateInv'
         /\ gCommand[p].key \in GateKeys /\ gCommand[p].report \in DOMAIN gCircumstance.reports
         /\ baseline'[gCommand[p].key] = gCommand[p].report
         /\ \A k \in GateKeys \ {gCommand[p].key} : baseline'[k] = baseline[k]
<1> DEFINE c == gCommand[p]
<1>1. /\ c.at = "save" /\ baseline' = [baseline EXCEPT ![c.key] = c.report] /\ Gates!Become(p, Gates!Idle)
      /\ UNCHANGED <<gCircumstance, audit, overrides, gLeft>>
  BY DEF Gates!SaveBaseline
<1>2. c \in Gates!Command
  BY DEF GateInv, Gates!TypeOK
<1>3. c.key \in GateKeys /\ c.report \in Nat \ {0}
  BY <1>1, <1>2, GateCommands
<1>4. c # Gates!Idle /\ p \in gCircumstance.processes /\ c.report \in DOMAIN gCircumstance.reports
  BY <1>1 DEF GateInv, GateRuns, Gates!Idle
<1>5. Gates!Idle \in Gates!Command /\ Gates!Idle.at = "idle"
  BY DEF Gates!Command, Gates!Idle
<1>6. /\ gCommand' \in [Processes -> Gates!Command] /\ gCommand'[p] = Gates!Idle
      /\ \A q \in Processes \ {p} : gCommand'[q] = gCommand[q]
  BY <1>1, <1>5, GateBecomes DEF GateInv
<1>7. baseline \in [GateKeys -> {0} \cup DOMAIN gCircumstance.reports]
  BY DEF GateInv, Gates!TypeOK
<1>8. /\ baseline' \in [GateKeys -> {0} \cup DOMAIN gCircumstance.reports] /\ baseline'[c.key] = c.report
      /\ \A k \in GateKeys \ {c.key} : baseline'[k] = baseline[k]
  BY <1>1, <1>3, <1>4, <1>7
<1>9. Gates!TypeOK'
  BY <1>1, <1>6, <1>8, GateTypes DEF GateInv, Gates!TypeOK
<1>10. GateRuns'
  BY <1>1, <1>5, <1>6 DEF GateInv, GateRuns
<1>11. Gates!Orderly' => Gates!Orderly
  BY <1>1 DEF Gates!Orderly
<1>12. ASSUME Gates!Orderly
       PROVE  \A q \in Processes \ {p} : gCommand[q] = Gates!Idle
  BY <1>4, <1>12, GateAlone
<1>13. GateAligned'
  <2> SUFFICES ASSUME Gates!Orderly
               PROVE  /\ \A q \in Processes : gCommand'[q].at # "save"
                      /\ \A k \in GateKeys : audit'[k] = baseline'[k]
    BY <1>11 DEF GateAligned
  <2>1. \A q \in Processes : gCommand'[q].at # "save"
    BY <1>5, <1>6, <1>12 DEF Gates!Idle
  <2>2. ASSUME NEW k \in GateKeys, k # c.key
        PROVE  audit[k] = baseline[k]
    <3>1. \A q \in Processes : gCommand[q].at = "save" => q = p
      BY <1>12 DEF Gates!Idle
    <3> QED BY <2>2, <3>1 DEF GateInv, GateAligned
  <2>3. audit[c.key] = c.report
    BY <1>1 DEF GateInv, GateAligned
  <2> QED BY <1>1, <1>8, <2>1, <2>2, <2>3
<1>14. GateLoaded'
  BY <1>1, <1>5, <1>6, <1>11 DEF GateInv, GateLoaded
<1> QED BY <1>3, <1>4, <1>8, <1>9, <1>10, <1>13, <1>14 DEF GateInv

LEMMA GateRecordOverride ==
  ASSUME GateInv, NEW p \in Processes, Gates!RecordOverride(p)
  PROVE  GateInv'
<1>1. PICK k \in GateKeys, d \in Gates!Decisions :
        /\ baseline[k] # 0
        /\ Gates!Become(p, [at |-> "load", key |-> k,
                            override |-> [decision |-> d, automatic |-> Gates!Automatic(k)]])
  BY DEF Gates!RecordOverride
<1> DEFINE a == Gates!Automatic(k)
           o == [decision |-> d, automatic |-> a]
           c == [at |-> "load", key |-> k, override |-> o]
<1>2. a \in Gates!Decisions
  BY <1>1, GateAutomatic DEF GateInv
<1> HIDE DEF a
<1>3. o \in Gates!Override
  BY <1>2 DEF Gates!Override
<1>4. Gates!Become(p, c)
  BY <1>1 DEF a
<1> HIDE DEF o
<1>5. c \in Gates!Command /\ c.at = "load"
  BY <1>3 DEF Gates!Command
<1> HIDE DEF c
<1>6. UNCHANGED <<gCircumstance, baseline, audit, overrides>> /\ p \in gCircumstance.processes
      /\ gCommand[p] = Gates!Idle /\ gLeft > 0 /\ gLeft' = gLeft - 1
  BY DEF Gates!RecordOverride, Gates!Free
<1>7. /\ gCommand' \in [Processes -> Gates!Command] /\ gCommand'[p] = c
      /\ \A q \in Processes \ {p} : gCommand'[q] = gCommand[q]
  BY <1>4, <1>5, GateBecomes DEF GateInv
<1>8. Gates!TypeOK'
  BY <1>6, <1>7, GateTypes, GateLeft DEF GateInv, Gates!TypeOK
<1>9. GateRuns'
  BY <1>5, <1>6, <1>7 DEF GateInv, GateRuns
<1>10. gCommand[p].at = "idle"
  BY <1>6 DEF Gates!Idle
<1>11. GateAligned' /\ GateLoaded'
  BY <1>5, <1>6, <1>7, <1>10 DEF GateInv, GateAligned, GateLoaded, Gates!Orderly
<1> QED BY <1>8, <1>9, <1>11 DEF GateInv

LEMMA GateLoadOverrides ==
  ASSUME GateInv, NEW p \in Processes, Gates!LoadOverrides(p)
  PROVE  GateInv'
<1> DEFINE b == gCommand[p]
           c == [at |-> "write", key |-> b.key, override |-> b.override, registry |-> overrides]
<1>1. /\ b.at = "load" /\ Gates!Become(p, c)
      /\ UNCHANGED <<gCircumstance, baseline, audit, overrides, gLeft>>
  BY DEF Gates!LoadOverrides
<1>2. b \in Gates!Command /\ overrides \in [GateKeys -> Gates!Override]
  BY DEF GateInv, Gates!TypeOK
<1>3. b.key \in GateKeys /\ b.override \in Gates!Override
  BY <1>1, <1>2, GateCommands
<1>4. c \in Gates!Command /\ c.at = "write" /\ c.registry = overrides
  BY <1>2, <1>3 DEF Gates!Command
<1>5. b # Gates!Idle /\ p \in gCircumstance.processes
  BY <1>1 DEF GateInv, GateRuns, Gates!Idle
<1> HIDE DEF c
<1>6. /\ gCommand' \in [Processes -> Gates!Command] /\ gCommand'[p] = c
      /\ \A q \in Processes \ {p} : gCommand'[q] = gCommand[q]
  BY <1>1, <1>4, GateBecomes DEF GateInv
<1>7. Gates!TypeOK'
  BY <1>1, <1>6, GateTypes DEF GateInv, Gates!TypeOK
<1>8. GateRuns'
  BY <1>1, <1>4, <1>5, <1>6 DEF GateInv, GateRuns
<1>9. GateAligned' /\ GateLoaded'
  BY <1>1, <1>4, <1>6 DEF GateInv, GateAligned, GateLoaded, Gates!Orderly
<1> QED BY <1>7, <1>8, <1>9 DEF GateInv

LEMMA GateWriteOverrides ==
  ASSUME GateInv, NEW p \in Processes, Gates!WriteOverrides(p)
  PROVE  /\ GateInv'
         /\ gCommand[p].at = "write"
         /\ Gates!Orderly => \A k \in GateKeys : overrides'[k] # overrides[k] => k = gCommand[p].key
<1> DEFINE c == gCommand[p]
<1>1. /\ c.at = "write" /\ overrides' = [c.registry EXCEPT ![c.key] = c.override]
      /\ Gates!Become(p, Gates!Idle)
      /\ UNCHANGED <<gCircumstance, baseline, audit, gLeft>>
  BY DEF Gates!WriteOverrides, Gates!With
<1>2. c \in Gates!Command
  BY DEF GateInv, Gates!TypeOK
<1>3. c.key \in GateKeys /\ c.override \in Gates!Override /\ c.registry \in [GateKeys -> Gates!Override]
  BY <1>1, <1>2, GateCommands
<1>4. c # Gates!Idle /\ p \in gCircumstance.processes
  BY <1>1 DEF GateInv, GateRuns, Gates!Idle
<1>5. Gates!Idle \in Gates!Command /\ Gates!Idle.at = "idle"
  BY DEF Gates!Command, Gates!Idle
<1>6. /\ gCommand' \in [Processes -> Gates!Command] /\ gCommand'[p] = Gates!Idle
      /\ \A q \in Processes \ {p} : gCommand'[q] = gCommand[q]
  BY <1>1, <1>5, GateBecomes DEF GateInv
<1>7. overrides' \in [GateKeys -> Gates!Override]
  BY <1>1, <1>3
<1>8. Gates!TypeOK'
  BY <1>1, <1>6, <1>7, GateTypes DEF GateInv, Gates!TypeOK
<1>9. GateRuns'
  BY <1>1, <1>5, <1>6 DEF GateInv, GateRuns
<1>10. Gates!Orderly' => Gates!Orderly
  BY <1>1 DEF Gates!Orderly
<1>11. ASSUME Gates!Orderly
       PROVE  \A q \in Processes \ {p} : gCommand[q] = Gates!Idle
  BY <1>4, <1>11, GateAlone
<1>12. GateAligned'
  BY <1>1, <1>5, <1>6, <1>10 DEF GateInv, GateAligned
<1>13. GateLoaded'
  BY <1>5, <1>6, <1>10, <1>11 DEF GateLoaded
<1>14. Gates!Orderly => \A k \in GateKeys : overrides'[k] # overrides[k] => k = c.key
  BY <1>1, <1>3 DEF GateInv, GateLoaded
<1> QED BY <1>1, <1>8, <1>9, <1>12, <1>13, <1>14 DEF GateInv

\* One of the processes may die, so that what holds of orderly commands is not asked.
LEMMA GateDie ==
  ASSUME GateInv, NEW p \in Processes, Gates!Die(p)
  PROVE  GateInv' /\ ~Gates!Orderly
<1>1. /\ gCircumstance.deaths /\ Gates!Become(p, Gates!Idle) /\ UNCHANGED <<gCircumstance, baseline, gLeft>>
  BY DEF Gates!Die
<1>2. Gates!Idle \in Gates!Command /\ Gates!Idle.at = "idle"
  BY DEF Gates!Command, Gates!Idle
<1>3. /\ gCommand' \in [Processes -> Gates!Command] /\ gCommand'[p] = Gates!Idle
      /\ \A q \in Processes \ {p} : gCommand'[q] = gCommand[q]
  BY <1>1, <1>2, GateBecomes DEF GateInv
<1>4. audit \in [GateKeys -> {0} \cup DOMAIN gCircumstance.reports] /\ overrides \in [GateKeys -> Gates!Override]
  BY DEF GateInv, Gates!TypeOK
<1>5. Gates!None \in [GateKeys -> Gates!Override]
  BY DEF Gates!None, Gates!Override
<1>6. audit' \in [GateKeys -> {0} \cup DOMAIN gCircumstance.reports]
  <2> DEFINE numbers == {0} \cup DOMAIN gCircumstance.reports
  <2>1. 0 \in numbers
    OBVIOUS
  <2>2. audit' = audit \/ audit' = [audit EXCEPT ![gCommand[p].key] = 0]
    BY DEF Gates!Die
  <2> HIDE DEF numbers
  <2>3. audit \in [GateKeys -> numbers]
    BY <1>4 DEF numbers
  <2>4. audit' \in [GateKeys -> numbers]
    BY <2>1, <2>2, <2>3
  <2> QED BY <2>4 DEF numbers
<1>7. overrides' \in [GateKeys -> Gates!Override]
  <2>1. overrides' = overrides \/ overrides' = Gates!None
    BY DEF Gates!Die
  <2> QED BY <1>4, <1>5, <2>1
<1>8. Gates!TypeOK'
  BY <1>1, <1>3, <1>6, <1>7, GateTypes DEF GateInv, Gates!TypeOK
<1>9. GateRuns'
  BY <1>1, <1>2, <1>3 DEF GateInv, GateRuns
<1>10. ~Gates!Orderly /\ ~Gates!Orderly'
  BY <1>1 DEF Gates!Orderly
<1>11. GateAligned' /\ GateLoaded'
  BY <1>10 DEF GateAligned, GateLoaded
<1> QED BY <1>8, <1>9, <1>10, <1>11 DEF GateInv

LEMMA GateInit ==
  ASSUME Gates!ConstantsOK, Gates!Init
  PROVE  GateInv
<1>1. gCircumstance.commands \in Nat /\ gLeft = gCircumstance.commands
  BY DEF Gates!ConstantsOK, Gates!Init
<1>2. Gates!Idle \in Gates!Command /\ Gates!Idle.at = "idle" /\ Gates!None \in [GateKeys -> Gates!Override]
  BY DEF Gates!Command, Gates!Idle, Gates!None, Gates!Override
<1>3. /\ baseline \in [GateKeys -> {0} \cup DOMAIN gCircumstance.reports]
      /\ audit \in [GateKeys -> {0} \cup DOMAIN gCircumstance.reports]
      /\ overrides \in [GateKeys -> Gates!Override] /\ gCommand \in [Processes -> Gates!Command]
      /\ gLeft \in 0 .. gCircumstance.commands
  BY <1>1, <1>2 DEF Gates!Init
<1>4. Gates!TypeOK
  BY <1>3 DEF Gates!TypeOK, Gates!Init
<1>5. \A p \in Processes : gCommand[p] = Gates!Idle /\ gCommand[p].at = "idle"
  BY <1>2 DEF Gates!Init
<1>6. \A k \in GateKeys : audit[k] = baseline[k]
  BY DEF Gates!Init
<1>7. GateRuns /\ GateAligned /\ GateLoaded
  BY <1>5, <1>6 DEF GateRuns, GateAligned, GateLoaded
<1> QED BY <1>4, <1>7 DEF GateInv

LEMMA GateStep ==
  ASSUME GateInv, [Gates!Next]_(Gates!vars)
  PROVE  GateInv'
<1>1. CASE UNCHANGED Gates!vars
  <2>1. UNCHANGED <<gCircumstance, baseline, audit, overrides, gLeft, gCommand>>
    BY <1>1 DEF Gates!vars
  <2>2. Gates!TypeOK'
    BY <2>1, GateTypes DEF GateInv, Gates!TypeOK
  <2>3. GateRuns' /\ GateAligned' /\ GateLoaded'
    BY <2>1 DEF GateInv, GateRuns, GateAligned, GateLoaded, Gates!Orderly
  <2> QED BY <2>2, <2>3 DEF GateInv
<1>2. CASE Gates!Next
  BY <1>2, GateSetBaseline, GateWriteAudit, GateSaveBaseline, GateRecordOverride, GateLoadOverrides,
     GateWriteOverrides, GateDie
  DEF Gates!Next
<1> QED BY <1>1, <1>2

LEMMA GateInvDecides ==
  ASSUME GateInv
  PROVE  Gates!DecidesOnOwnReport
<1> SUFFICES ASSUME Gates!Orderly, Gates!Quiet, NEW k \in GateKeys, baseline[k] # 0
             PROVE  LET r == gCircumstance.reports[baseline[k]]
                        Asks(t) == GateAt(k, r, t)
                    IN Gates!Automatic(k) =
                         IF r.fails > Asks("review_failures") \/ r.failedCases > Asks("golden_suite_failures")
                         THEN "fail"
                         ELSE IF \/ r.warnings > Asks("review_warnings") \/ r.families > Asks("high_risk_families")
                                 \/ r.snapshots < Asks("review_snapshot_coverage")
                                 \/ r.cases < Asks("golden_suite_coverage")
                         THEN "conditional_pass" ELSE "pass"
  BY DEF Gates!DecidesOnOwnReport, GateAt, GateSays
<1> DEFINE r == gCircumstance.reports[baseline[k]]
           p == Gates!Resolve(k, r)
<1>1. audit[k] = baseline[k]
  <2>1. \A q \in Processes : gCommand[q].at # "save"
    BY DEF Gates!Quiet, Gates!Idle
  <2> QED BY <2>1 DEF GateInv, GateAligned
<1>2. Gates!GoldenSuite(k) = r
  BY <1>1 DEF Gates!GoldenSuite
<1>3. r \in Gates!Report
  BY GateAutomatic DEF GateInv
<1>4. Gates!Automatic(k) = Gates!Judged(r, r, p)
  BY <1>2 DEF Gates!Automatic
<1> HIDE DEF r
<1>5. p \in [Gates!Thresholds -> Nat] /\ \A t \in Gates!Thresholds : p[t] = GateAt(k, r, t)
  BY GatePolicy DEF GateInv
<1> HIDE DEF p
<1>6. /\ r.fails \in Nat /\ r.warnings \in Nat
      /\ p.review_failures \in Nat /\ p.review_warnings \in Nat
  BY <1>3, <1>5 DEF Gates!Report, Gates!Thresholds
<1>7. /\ p.review_failures = GateAt(k, r, "review_failures")
      /\ p.golden_suite_failures = GateAt(k, r, "golden_suite_failures")
      /\ p.review_warnings = GateAt(k, r, "review_warnings")
      /\ p.high_risk_families = GateAt(k, r, "high_risk_families")
      /\ p.review_snapshot_coverage = GateAt(k, r, "review_snapshot_coverage")
      /\ p.golden_suite_coverage = GateAt(k, r, "golden_suite_coverage")
  BY <1>5 DEF Gates!Thresholds
<1>8. Gates!Judged(r, r, p) =
        IF r.fails > p.review_failures \/ r.failedCases > p.golden_suite_failures THEN "fail"
        ELSE IF \/ r.fails <= p.review_failures /\ r.warnings > p.review_warnings
                \/ r.families > p.high_risk_families
                \/ r.snapshots < p.review_snapshot_coverage \/ r.cases < p.golden_suite_coverage
        THEN "conditional_pass" ELSE "pass"
  BY <1>3, <1>5, GateJudged
<1>9. ~(r.fails > p.review_failures) => r.fails <= p.review_failures
  BY <1>6
<1> QED BY <1>4, <1>7, <1>8, <1>9 DEF r

\* A report at least as bad gets no better decision from the same policy.
LEMMA GateMonotone ==
  ASSUME NEW r \in Gates!Report, NEW s \in Gates!Report, NEW p \in [Gates!Thresholds -> Nat],
         Gates!AtLeastAsBad(s, r)
  PROVE  Gates!Priority[Gates!Judged(s, s, p)] >= Gates!Priority[Gates!Judged(r, r, p)]
<1>1. /\ Gates!Priority["pass"] = 0 /\ Gates!Priority["conditional_pass"] = 1 /\ Gates!Priority["fail"] = 2
  BY DEF Gates!Priority
<1>2. \A q \in {r, s} :
        /\ q.fails \in Nat /\ q.warnings \in Nat /\ q.families \in Nat
        /\ q.snapshots \in Nat /\ q.cases \in Nat /\ q.failedCases \in Nat
  BY DEF Gates!Report
<1>3. /\ p.review_failures \in Nat /\ p.golden_suite_failures \in Nat /\ p.review_warnings \in Nat
      /\ p.high_risk_families \in Nat /\ p.review_snapshot_coverage \in Nat /\ p.golden_suite_coverage \in Nat
  BY DEF Gates!Thresholds
<1>4. /\ s.fails >= r.fails /\ s.warnings >= r.warnings /\ s.families >= r.families
      /\ s.failedCases >= r.failedCases /\ s.snapshots <= r.snapshots /\ s.cases <= r.cases
  BY DEF Gates!AtLeastAsBad
<1> DEFINE Failing(q) == q.fails > p.review_failures \/ q.failedCases > p.golden_suite_failures
           Doubtful(q) == \/ q.fails <= p.review_failures /\ q.warnings > p.review_warnings
                          \/ q.families > p.high_risk_families
                          \/ q.snapshots < p.review_snapshot_coverage \/ q.cases < p.golden_suite_coverage
<1>5. \A q \in {r, s} :
        Gates!Judged(q, q, p) = IF Failing(q) THEN "fail" ELSE IF Doubtful(q) THEN "conditional_pass" ELSE "pass"
  BY GateJudged
<1>6. Failing(r) => Failing(s)
  BY <1>2, <1>3, <1>4
<1>7. Doubtful(r) => Doubtful(s) \/ Failing(s)
  BY <1>2, <1>3, <1>4
<1> HIDE DEF Failing, Doubtful
<1> QED BY <1>1, <1>5, <1>6, <1>7

\* The policy as a function of the circumstance, which no step changes.
GateResolve(circumstances, k, r) ==
  [t \in Gates!Thresholds |->
     LET Value[i \in 0 .. Len(circumstances.scoped)] ==
           IF i = 0 THEN circumstances.policy[t]
           ELSE LET s == circumstances.scoped[i]
                IN IF Gates!Matches(k, r, s) /\ t \in DOMAIN s.values THEN s.values[t] ELSE Value[i - 1]
     IN Gates!Accepted(t, Value[Len(circumstances.scoped)])]

LEMMA GateWorse ==
  ASSUME GateInv, [Gates!Next]_(Gates!vars)
  PROVE  \A k \in GateKeys :
           baseline[k] \notin {0, baseline'[k]} /\ audit'[k] = baseline'[k] /\ Gates!Orderly =>
             LET r == gCircumstance.reports[baseline[k]]
                 s == gCircumstance.reports[baseline'[k]]
             IN Gates!AtLeastAsBad(s, r) =>
                  Gates!Priority[Gates!Automatic(k)'] >= Gates!Priority[Gates!Judged(r, r, Gates!Resolve(k, r))]
<1> SUFFICES ASSUME NEW k \in GateKeys, baseline[k] # 0, baseline'[k] # baseline[k], audit'[k] = baseline'[k]
             PROVE  LET r == gCircumstance.reports[baseline[k]]
                        s == gCircumstance.reports[baseline'[k]]
                    IN Gates!AtLeastAsBad(s, r) =>
                         Gates!Priority[Gates!Automatic(k)']
                           >= Gates!Priority[Gates!Judged(r, r, Gates!Resolve(k, r))]
  OBVIOUS
<1> DEFINE r == gCircumstance.reports[baseline[k]]
           s == gCircumstance.reports[baseline'[k]]
<1>1. PICK p \in Processes : Gates!SaveBaseline(p)
  BY DEF Gates!Next, Gates!vars, Gates!SetBaseline, Gates!WriteAudit, Gates!RecordOverride,
         Gates!LoadOverrides, Gates!WriteOverrides, Gates!Die
<1>2. baseline'[k] \in DOMAIN gCircumstance.reports /\ baseline'[k] # 0
  BY <1>1, GateSaveBaseline, GateConstants DEF GateInv
<1>3. r \in Gates!Report /\ s \in Gates!Report
  BY <1>2, GateAutomatic, GateConstants DEF GateInv
<1>4. gCircumstance' = gCircumstance
  BY <1>1 DEF Gates!SaveBaseline
<1>5. Gates!Automatic(k)' = Gates!Judged(s, s, Gates!Resolve(k, s))
  <2>1. \A x : Gates!Resolve(k, x) = GateResolve(gCircumstance, k, x)
    BY DEF Gates!Resolve, GateResolve
  <2>2. \A x : Gates!Resolve(k, x)' = GateResolve(gCircumstance', k, x)
    BY DEF Gates!Resolve, GateResolve
  <2>3. \A x : Gates!Resolve(k, x)' = Gates!Resolve(k, x)
    BY <1>4, <2>1, <2>2
  <2>4. Gates!GoldenSuite(k)' = s
    BY <1>2, <1>4 DEF Gates!GoldenSuite
  <2>5. gCircumstance'.reports[baseline'[k]] = s
    BY <1>4
  <2> HIDE DEF s
  <2> QED BY <2>3, <2>4, <2>5 DEF Gates!Automatic
<1>6. SUFFICES ASSUME Gates!AtLeastAsBad(s, r)
               PROVE  Gates!Priority[Gates!Judged(s, s, Gates!Resolve(k, s))]
                        >= Gates!Priority[Gates!Judged(r, r, Gates!Resolve(k, r))]
  BY <1>5
<1> HIDE DEF r, s
<1>7. s.package = r.package
  BY <1>6 DEF Gates!AtLeastAsBad
<1>8. Gates!Resolve(k, s) = Gates!Resolve(k, r) /\ Gates!Resolve(k, r) \in [Gates!Thresholds -> Nat]
  BY <1>7, GatePolicy DEF GateInv
<1> QED BY <1>3, <1>6, <1>8, GateMonotone

LEMMA GateStands ==
  ASSUME GateInv, [Gates!Next]_(Gates!vars)
  PROVE  \A k \in GateKeys :
           Gates!Orderly /\ overrides[k] # Gates!Nothing /\ overrides'[k] # overrides[k] =>
             \E p \in Processes : gCommand[p].at = "write" /\ gCommand[p].key = k
<1> SUFFICES ASSUME NEW k \in GateKeys, Gates!Orderly, overrides'[k] # overrides[k]
             PROVE  \E p \in Processes : gCommand[p].at = "write" /\ gCommand[p].key = k
  OBVIOUS
<1>1. PICK p \in Processes : Gates!WriteOverrides(p) \/ Gates!Die(p)
  BY DEF Gates!Next, Gates!vars, Gates!SetBaseline, Gates!WriteAudit, Gates!SaveBaseline,
         Gates!RecordOverride, Gates!LoadOverrides
<1>2. Gates!WriteOverrides(p)
  BY <1>1, GateDie
<1> QED BY <1>2, GateWriteOverrides

LEMMA GateInvSafe ==
  ASSUME Gates!ConstantsOK
  PROVE  Gates!Spec => GateSafe
<1>1. Gates!Init => GateInv
  BY GateInit
<1>2. GateInv /\ [Gates!Next]_(Gates!vars) => GateInv'
  BY GateStep
<1>3. GateInv => Gates!DecidesOnOwnReport
  BY GateInvDecides
<1>4. GateInv /\ [Gates!Next]_(Gates!vars) =>
        [\A k \in GateKeys :
           baseline[k] \notin {0, baseline'[k]} /\ audit'[k] = baseline'[k] /\ Gates!Orderly =>
             LET r == gCircumstance.reports[baseline[k]]
                 s == gCircumstance.reports[baseline'[k]]
             IN Gates!AtLeastAsBad(s, r) =>
                  Gates!Priority[Gates!Automatic(k)'] >= Gates!Priority[Gates!Judged(r, r, Gates!Resolve(k, r))]]_(Gates!vars)
  BY GateWorse
<1>5. GateInv /\ [Gates!Next]_(Gates!vars) =>
        [\A k \in GateKeys :
           Gates!Orderly /\ overrides[k] # Gates!Nothing /\ overrides'[k] # overrides[k] =>
             \E p \in Processes : gCommand[p].at = "write" /\ gCommand[p].key = k]_(Gates!vars)
  BY GateStands
<1> QED BY <1>1, <1>2, <1>3, <1>4, <1>5, PTL
    DEF Gates!Spec, GateSafe, Gates!GateSafe, Gates!WorseIsNeverBetter, Gates!OverrideStands

-----------------------------------------------------------------------------
(* The services together.                                                  *)

\* No step of another service touches what is a service's own.
LEMMA EveryServiceMoves ==
  ASSUME [AllNext]_allVars
  PROVE  /\ [Next]_vars
         /\ [Monkeys!Next]_(Monkeys!vars)
         /\ [Submissions!Next]_(Submissions!vars)
         /\ [CollectorOf!Next]_(CollectorOf!vars)
         /\ [Loops!Next]_(Loops!vars)
         /\ [Gates!Next]_(Gates!vars)
BY DEF AllNext, allVars, retentionVars, monkeyVars, gateVars, submissionVars, loopVars, vars, analysisVars,
   evidenceVars, readingVars, daemonVars, Monkeys!vars, Submissions!vars,
   CollectorOf!vars, CollectorOf!collector, Loops!vars, Gates!vars

LEMMA EveryServiceBehaves ==
  AllSpec => Spec /\ Monkeys!Spec /\ Submissions!Spec /\ CollectorOf!Spec /\ Loops!Spec /\ Gates!Spec
<1>1. AllInit => Init /\ Monkeys!Init /\ Submissions!Init /\ CollectorOf!Init /\ Loops!Init /\ Gates!Init
  BY DEF AllInit
<1> QED BY <1>1, EveryServiceMoves, PTL DEF AllSpec, Spec, Monkeys!Spec, Submissions!Spec, CollectorOf!Spec,
   Loops!Spec, Gates!Spec

\* Whatever connections are lost, monkeys left behind and stops asked for, and for any
\* budgets: an attempt that began on a device adb reached runs alone there, a failure the
\* runner knows a recovery for ends the execution only with that budget spent, and after a
\* stop has terminated an attempt there is another only if its output talked of
\* INJECT_EVENTS or the device was away (MonkeyRunner.run, stop_active_processes).
THEOREM MonkeyStaysSafe ==
  ASSUME Monkeys!ConstantsOK
  PROVE  AllSpec => []MonkeySafe
BY MonkeyInvariant, MonkeyInvSafe, EveryServiceBehaves, PTL

\* For any number of submissions, syncs and decisions, with one requester that does not
\* die: every submission the platform heard of has its record, and what it heard last of
\* one is what its record says (ReleaseSubmissionService._save_record and its events).
THEOREM SubmissionsStaySafe ==
  ASSUME Submissions!ConstantsOK
  PROVE  AllSpec => []SubmissionsSafe
BY SubmissionInvariant, SubmissionInvSafe, EveryServiceBehaves, PTL

\* However calls, texts, restarts and outages interleave, and for any ages that keep a
\* reading at least as long as the interval in which it is given again: a reading is as
\* fresh as what is kept allows, and those of calls that do not overlap, made with one
\* command, tell no more traffic than moved (get_system_performance,
\* get_multiple_app_performance, _get_network_data_with_fallback).
THEOREM ReadingsStaySafe ==
  ASSUME CollectorOf!ConstantsOK
  PROVE  AllSpec => []ReadingsSafe
BY ReadingInvariant, ReadingInvSafe, EveryServiceBehaves, PTL

\* For any templates, loops, polls and losses of the connection: a step that is passed did
\* its work on the device or has its template's excuse, unless adb keeps a failed
\* installation quiet; a success leaves the device as commanded; and no removal whose answer was lost fails its loop
\* (ColdStartLoopScenarioRunner, device_cycle, CustomAutomationScenarioRunner).
THEOREM LoopsStaySafe ==
  ASSUME Loops!ConstantsOK
  PROVE  AllSpec => []LoopsSafe
BY LoopInvariant, LoopInvSafe, EveryServiceBehaves, PTL

\* For any reports, policy, overrides of it and number of commands: with nobody else at
\* work and no death, the gate decides on the report of the baseline against, for each
\* threshold, the last override that speaks of it; a baseline that moves to a report at
\* least as bad gets no better decision; and an override stands until another is recorded
\* for its baseline (get_quality_gate, QualityGatePolicy.resolve, record_override).
THEOREM GateStaysSafe ==
  ASSUME Gates!ConstantsOK
  PROVE  AllSpec => GateSafe
BY GateInvSafe, EveryServiceBehaves, PTL

=============================================================================
