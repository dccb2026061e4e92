---------------------------- MODULE MonitoringSession ----------------------------
(***************************************************************************)
(* Monitoring of one execution.  ConfiguredMonitoringAdapter opens up to   *)
(* three sessions: metrics, an adb fallback of them, and a Perfetto trace. *)
(* While the scenario runs a sampler thread takes snapshots and leaves the *)
(* trace alone, which a flag in the shared handle tells it; the end of the *)
(* execution stops the sampler, waits two seconds for it, takes the last   *)
(* snapshot, which ends and fetches the trace, and closes the sessions.    *)
(* Both threads write the same two files.                                  *)
(*                                                                         *)
(* The commands that end and fetch a trace are one step, in which the      *)
(* device may not hear of the stop, and which may raise.  Closing a session*)
(* of metrics does nothing: the storage behind it is gone.                 *)
(***************************************************************************)
EXTENDS Integers, Sequences

CONSTANT Circumstances   \* the profile, and what may happen how often

VARIABLES
  circumstance,  \* the same throughout
  main,          \* the executing thread
  sampler,       \* the sampler thread
  opened,        \* the sessions there are
  skip,          \* skip_trace_snapshot
  stopping,      \* the sampler's stop event
  perfetto,      \* the trace, on the device and fetched, and one taken in its place
  samples,       \* the list both threads append to: who, and the trace it has
  written,       \* snapshot.json, and how much of samples.json
  late           \* history: the sampler was at work when main went on

vars == <<circumstance, main, sampler, opened, skip, stopping, perfetto, samples, written, late>>

-----------------------------------------------------------------------------
Sessions == {"metrics", "fallback", "trace"}
\* metrics_backend and trace_backend of the profile, whether commands and
\* openings may fail, and how many samples the sampler takes (a bound).
Config == [metrics : {"adb_collector", "solox", "none"}, trace : {"none", "perfetto", "unsupported"},
           fails : BOOLEAN, samples : Nat]
ConstantsOK == Circumstances \subseteq Config

Threads == {"main", "sampler"}
Nothing == "nothing"
\* What a trace covers: the scenario to its end, to its own duration before
\* that, until somebody cut it; the time after it; or what a trace that goes
\* on has in its file by now.
Covers == {"whole", "early", "cut", "later", "part", Nothing}
Snapshot == [by : Threads, trace : Covers \cup {"skipped", "error"}]
HasTrace == "trace" \in opened
\* The places of _collect_and_store_monitoring_snapshot.
Collecting == {"collect", "trace", "append", "snapshot", "samples"}

Init ==
  /\ circumstance \in Circumstances
  /\ main = [at |-> "start", trace |-> Nothing, final |-> "none"]
  /\ sampler = [at |-> "none", trace |-> Nothing]
  /\ opened = {}
  /\ skip = FALSE /\ stopping = FALSE
  /\ perfetto = [recording |-> FALSE, extra |-> FALSE, covers |-> Nothing, got |-> Nothing,
                 finalized |-> FALSE, failed |-> {}]
  /\ samples = <<>>
  /\ written = [snapshot |-> Nothing, samples |-> 0]
  /\ late = FALSE

Main(at) == main' = [main EXCEPT !.at = at]
Sampler(at) == sampler' = [sampler EXCEPT !.at = at]
Fixed == UNCHANGED circumstance

-----------------------------------------------------------------------------
(* Opening.                                                                *)

\* The session of the metrics that answers (the adb collector stands in for
\* another that cannot be opened), and, beside another, the adb collector.
Metrics(solox, collector) ==
  CASE circumstance.metrics = "none" -> {"fallback"} \cap collector
    [] circumstance.metrics = "solox" /\ solox -> {"metrics"} \cup ({"fallback"} \cap collector)
    [] OTHER -> IF collector = {} THEN {} ELSE {"metrics"}
Opening(metrics, trace) ==
  IF (circumstance.metrics # "none" /\ "metrics" \notin metrics) \/ circumstance.trace = "unsupported"
  THEN Main("scenario") /\ UNCHANGED <<sampler, opened, perfetto>>
  ELSE /\ Main("scenario") /\ Sampler("wait")
       /\ opened' = metrics \cup ({"trace"} \cap trace)
       /\ perfetto' = [perfetto EXCEPT !.recording = trace # {}]
\* Each may be impossible to open.
May(s) == IF circumstance.fails THEN {{}, {s}} ELSE {{s}}
StartSession ==
  /\ main.at = "start"
  /\ \E solox \in {TRUE, ~circumstance.fails}, collector \in May("fallback"),
        trace \in IF circumstance.trace = "perfetto" THEN May("trace") ELSE {{}} :
       Opening(Metrics(solox, collector), trace)
  /\ Fixed /\ UNCHANGED <<skip, stopping, samples, written, late>>
HasHandle == sampler.at # "none"

\* A trace ends with its duration, and so does one taken in its place.
TraceEnds ==
  /\ \/ /\ perfetto.recording
        /\ perfetto' = [perfetto EXCEPT !.recording = FALSE, !.covers = IF main.at = "scenario" THEN "early" ELSE "whole"]
     \/ perfetto.extra /\ perfetto' = [perfetto EXCEPT !.extra = FALSE]
  /\ Fixed /\ UNCHANGED <<main, sampler, opened, skip, stopping, samples, written, late>>

-----------------------------------------------------------------------------
(* A snapshot.                                                             *)

At(t) == IF t = "main" THEN main.at ELSE sampler.at
Holds(t) == IF t = "main" THEN main.trace ELSE sampler.trace
Move(t, at) == IF t = "main" THEN Main(at) /\ UNCHANGED sampler ELSE Sampler(at) /\ UNCHANGED main
Take(t, at, trace) ==
  IF t = "main" THEN main' = [main EXCEPT !.at = at, !.trace = trace, !.final = trace] /\ UNCHANGED sampler
  ELSE sampler' = [sampler EXCEPT !.at = at, !.trace = trace] /\ UNCHANGED main

\* The metrics, or with the fallback's help; if neither, the snapshot fails.
CollectMetrics(t) ==
  /\ At(t) = "collect"
  /\ \/ Move(t, "trace")
     \/ circumstance.fails /\ "metrics" \in opened /\ Move(t, "failed")
  /\ Fixed /\ UNCHANGED <<opened, skip, stopping, perfetto, samples, written, late>>

Ended == IF perfetto.recording THEN IF main.at = "scenario" THEN "cut" ELSE "whole" ELSE perfetto.covers
\* What ending and fetching it may come to.  It ends, or the device does not
\* take pkill nor killall, which nobody looks at; its file is pulled, or
\* another trace is taken in its place, and perhaps not ended either; and all
\* of it may raise, for want of adb or of room for the file.
Fetch(stopped, extra, got, raised) == [stopped |-> stopped, extra |-> extra, got |-> got, raised |-> raised]
Stoppings == IF circumstance.fails THEN {TRUE, ~perfetto.recording} ELSE {TRUE}
Pulled ==
  {Fetch(stopped, perfetto.extra, IF stopped THEN Ended ELSE "part", FALSE) : stopped \in Stoppings}
Replaced ==
  {Fetch(stopped, extra, IF raised THEN Nothing ELSE got, raised) :
     stopped \in Stoppings, extra \in BOOLEAN, got \in {"later", Nothing}, raised \in BOOLEAN}
Fetches == Pulled \cup (IF circumstance.fails THEN Replaced ELSE {})
\* _finalize_trace, once, unless it raises; what failed of it is history.
Failed(fetch) ==
  (IF fetch.stopped /\ ~fetch.extra THEN {} ELSE {"stop"}) \cup (IF fetch.raised THEN {"fetch"} ELSE {})
Finalize(fetch) ==
  perfetto' = IF perfetto.finalized THEN perfetto
              ELSE [recording |-> ~fetch.stopped, extra |-> fetch.extra,
                    covers |-> IF fetch.stopped THEN Ended ELSE perfetto.covers,
                    got |-> fetch.got, finalized |-> ~fetch.raised, failed |-> Failed(fetch)]
Fetched(fetch) == IF perfetto.finalized THEN perfetto.got ELSE fetch.got
Skips == skip
CollectTrace(t) ==
  /\ At(t) = "trace"
  /\ IF ~HasTrace THEN Take(t, "append", Nothing) /\ UNCHANGED perfetto
     ELSE IF Skips THEN Take(t, "append", "skipped") /\ UNCHANGED perfetto
     ELSE \E fetch \in Fetches : Take(t, "append", Fetched(fetch)) /\ Finalize(fetch)
  /\ Fixed /\ UNCHANGED <<opened, skip, stopping, samples, written, late>>

AddSample(t, trace) == samples' = Append(samples, [by |-> t, trace |-> trace])
AppendSample(t) ==
  /\ At(t) = "append"
  /\ AddSample(t, Holds(t)) /\ Move(t, "snapshot")
  /\ Fixed /\ UNCHANGED <<opened, skip, stopping, perfetto, written, late>>
WriteSnapshot(t) ==
  /\ At(t) = "snapshot"
  /\ written' = [written EXCEPT !.snapshot = t] /\ Move(t, "samples")
  /\ Fixed /\ UNCHANGED <<opened, skip, stopping, perfetto, samples, late>>
WriteSamples(t) ==
  /\ At(t) = "samples"
  /\ written' = [written EXCEPT !.samples = Len(samples)]
  /\ Move(t, IF t = "main" THEN "finally" ELSE "pop")
  /\ Fixed /\ UNCHANGED <<opened, skip, stopping, perfetto, samples, late>>

-----------------------------------------------------------------------------
(* The sampler.                                                            *)

SampleLoop ==
  /\ sampler.at = "wait"
  /\ IF stopping THEN Sampler("dead") /\ UNCHANGED skip
     ELSE Len(samples) < circumstance.samples /\ Sampler("collect") /\ skip' = TRUE
  /\ Fixed /\ UNCHANGED <<main, opened, stopping, perfetto, samples, written, late>>
Sampled ==
  /\ sampler.at = "pop" /\ Sampler("wait") /\ skip' = FALSE
  /\ Fixed /\ UNCHANGED <<main, opened, stopping, perfetto, samples, written, late>>
\* Mutant: a failed sample leaves the flag.
SampleFailedFlagged ==
  /\ sampler.at = "failed" /\ Sampler("wait") /\ AddSample("sampler", "error")
  /\ Fixed /\ UNCHANGED <<main, opened, skip, stopping, perfetto, written, late>>
SampleFailed ==
  /\ sampler.at = "failed" /\ Sampler("wait") /\ skip' = FALSE /\ AddSample("sampler", "error")
  /\ Fixed /\ UNCHANGED <<main, opened, stopping, perfetto, written, late>>

-----------------------------------------------------------------------------
(* The execution.                                                          *)

\* Or it raises, or the run is stopped.
ScenarioEnds ==
  /\ main.at = "scenario"
  /\ \E next \in {"join", "finally"} : Main(next)
  /\ Fixed /\ UNCHANGED <<sampler, opened, skip, stopping, perfetto, samples, written, late>>
\* _stop_periodic_monitoring_sampler: it has ended, or two seconds have passed.
Joined == main.at = "join" /\ sampler.at \in {"dead", "none"}
AskToStop ==
  /\ main.at \in {"join", "finally"} /\ HasHandle /\ ~stopping /\ stopping' = TRUE
  /\ Fixed /\ UNCHANGED <<main, sampler, opened, skip, perfetto, samples, written, late>>
LastSnapshot == Main(IF HasHandle THEN "collect" ELSE "finally")
Join ==
  /\ stopping \/ ~HasHandle
  /\ Joined /\ LastSnapshot
  /\ Fixed /\ UNCHANGED <<sampler, opened, skip, stopping, perfetto, samples, written, late>>
JoinTimesOut ==
  /\ main.at = "join" /\ stopping /\ sampler.at \notin {"dead", "none"} /\ LastSnapshot
  /\ late' = TRUE
  /\ Fixed /\ UNCHANGED <<sampler, opened, skip, stopping, perfetto, samples, written>>
MainFailed ==
  /\ main.at = "failed" /\ Main("finally")
  /\ Fixed /\ UNCHANGED <<sampler, opened, skip, stopping, perfetto, samples, written, late>>

\* stop_session: a trace that is not finalized is; whatever that raises is logged.
Closed == IF HasTrace THEN \E fetch \in Fetches : Finalize(fetch) ELSE UNCHANGED perfetto
Finally ==
  /\ main.at = "finally" /\ (stopping \/ ~HasHandle)
  /\ Main("done") /\ Closed
  /\ Fixed /\ UNCHANGED <<sampler, opened, skip, stopping, samples, written, late>>

Next ==
  \/ StartSession \/ TraceEnds
  \/ \E t \in Threads :
       CollectMetrics(t) \/ CollectTrace(t) \/ AppendSample(t) \/ WriteSnapshot(t) \/ WriteSamples(t)
  \/ SampleLoop \/ Sampled \/ SampleFailed
  \/ ScenarioEnds \/ AskToStop \/ Join \/ JoinTimesOut \/ MainFailed \/ Finally

Spec == Init /\ [][Next]_vars

-----------------------------------------------------------------------------
Trace == [recording : BOOLEAN, extra : BOOLEAN, covers : Covers, got : Covers, finalized : BOOLEAN,
          failed : SUBSET {"stop", "fetch"}]
(* Types.                                                                  *)
TypeOK ==
  /\ ConstantsOK /\ circumstance \in Circumstances
  /\ main \in [at : {"start", "scenario", "join", "failed", "finally", "done"} \cup Collecting,
                trace : Covers \cup {"skipped"}, final : Covers \cup {"skipped", "none"}]
  /\ sampler \in [at : {"none", "wait", "failed", "pop", "dead"} \cup Collecting, trace : Covers \cup {"skipped"}]
  /\ opened \subseteq Sessions
  /\ skip \in BOOLEAN /\ stopping \in BOOLEAN /\ late \in BOOLEAN
  /\ perfetto \in Trace
  /\ samples \in Seq(Snapshot)
  /\ written \in [snapshot : Threads \cup {Nothing}, samples : 0 .. Len(samples)]

\* No sample, however late and whatever failed before it, ends the trace
\* while the scenario runs.
TraceIsNotCut == perfetto.covers # "cut"

\* The last snapshot leaves the trace out only because the sampler was still
\* at work two seconds after it was told to stop.
LastHasTrace == main.final = "skipped" => late

\* When both threads are through, the files hold the last snapshot and all
\* samples, unless the sampler outlived the wait, and then what it wrote last
\* may be older than what it replaced.
FilesAreFinal ==
  main.at = "done" /\ sampler.at = "dead" /\ ~late /\ main.final # "none" =>
    written = [snapshot |-> "main", samples |-> Len(samples)]

\* When the execution is over somebody has ended the trace, whether or not
\* there was a last snapshot and whether it took the trace: one that goes on
\* recording is one the device was told to end and did not, and it is fetched
\* unless that raised, the last time too.
TraceIsEnded ==
  main.at = "done" /\ HasTrace =>
    /\ perfetto.recording \/ perfetto.extra => "stop" \in perfetto.failed
    /\ perfetto.finalized \/ "fetch" \in perfetto.failed

\* The trace is not cut by a sample, is in the last snapshot and in the files, unless a
\* sampler outlived the wait for it, and is told to end with the execution
\* (_collect_monitoring_snapshot, _stop_periodic_monitoring_sampler).
TraceSafe == TraceIsNotCut /\ LastHasTrace /\ FilesAreFinal /\ TraceIsEnded
=============================================================================
