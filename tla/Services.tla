-------------------------------- MODULE Services --------------------------------
(* The services around a run, none of which shares a file with another: a  *)
(* behaviour moves one of them, focus, and leaves the others as they       *)
(* started.                                                                *)
EXTENDS MonitoringSession

CONSTANTS
  Processes, Paths, Place, DefaultRules,          \* of the retention,
  GateKeys,                                       \* of the gate,
  Requesters, Requests,                           \* of the submissions,
  Editors, Hops,                                  \* of the analysis,
  Readers, TextAge, DataAge, Interval,            \* of the readings,
  Events, Names, RetryDelay, DeadThreshold, AlertThreshold,   \* of the daemon,
  \* and the circumstances of each part (those of the monitoring are Circumstances).
  RetentionCircumstances, MonkeyCircumstances, GateCircumstances, SubmissionCircumstances,
  LoopCircumstances, AnalysisCircumstances, EvidenceCircumstances, ReadingCircumstances,
  DaemonCircumstances

VARIABLES
  focus,
  rCircumstance, now, files, folders, snapshots, rCommand, left, since,
  mCircumstance, clock, online, drops, monkeys, runner, host, result, stop, seen,
  gCircumstance, baseline, audit, overrides, gLeft, gCommand,
  sCircumstance, runs, decision, records, events, sLeft, request, mishap,
  lCircumstance, device, losses, cycle, answer, hollow,
  aCircumstance, aEvents, registry, aCommand, aLeft, analysis,
  eCircumstance, output, at, found, job, eDevice, artifacts, errors, evidence, misses,
  kCircumstance, kNow, asks, kDevice, texts, last, kept, stamp, calls, given, history,
  dCircumstance, dNow, dLeft, webhooks, entries, worker, dCalls, dHistory

retentionVars == <<rCircumstance, now, files, folders, snapshots, rCommand, left, since>>
monkeyVars == <<mCircumstance, clock, online, drops, monkeys, runner, host, result, stop, seen>>
gateVars == <<gCircumstance, baseline, audit, overrides, gLeft, gCommand>>
submissionVars == <<sCircumstance, runs, decision, records, events, sLeft, request, mishap>>
loopVars == <<lCircumstance, device, losses, cycle, answer, hollow>>
analysisVars == <<aCircumstance, aEvents, registry, aCommand, aLeft, analysis>>
evidenceVars == <<eCircumstance, output, at, found, job, eDevice, artifacts, errors, evidence, misses>>
readingVars == <<kCircumstance, kNow, asks, kDevice, texts, last, kept, stamp, calls, given, history>>
daemonVars == <<dCircumstance, dNow, dLeft, webhooks, entries, worker, dCalls, dHistory>>

-----------------------------------------------------------------------------
(* The parts.                                                              *)
Retentions == INSTANCE Retention WITH
  Circumstances <- RetentionCircumstances, circumstance <- rCircumstance, command <- rCommand
Monkeys == INSTANCE MonkeyScenario WITH
  Circumstances <- MonkeyCircumstances, circumstance <- mCircumstance
Gates == INSTANCE QualityGate WITH
  Keys <- GateKeys,
  Circumstances <- GateCircumstances, circumstance <- gCircumstance, left <- gLeft, command <- gCommand
Submissions == INSTANCE ReleaseSubmissions WITH
  Circumstances <- SubmissionCircumstances, circumstance <- sCircumstance, left <- sLeft
Loops == INSTANCE ScenarioLoops WITH
  Circumstances <- LoopCircumstances, circumstance <- lCircumstance
Analyses == INSTANCE IssueAnalysis WITH
  Circumstances <- AnalysisCircumstances, circumstance <- aCircumstance, events <- aEvents,
  command <- aCommand, left <- aLeft
Evidences == INSTANCE IssueEvidence WITH
  Circumstances <- EvidenceCircumstances, circumstance <- eCircumstance, device <- eDevice,
  records <- artifacts, files <- evidence
CollectorOf == INSTANCE CollectorReadings WITH
  Threads <- Readers,
  Circumstances <- ReadingCircumstances, circumstance <- kCircumstance, now <- kNow, device <- kDevice
Daemons == INSTANCE DeliveryDaemon WITH
  Circumstances <- DaemonCircumstances, circumstance <- dCircumstance, now <- dNow, left <- dLeft,
  calls <- dCalls, history <- dHistory

-----------------------------------------------------------------------------
AllInit ==
  /\ focus \in {"retention", "monkey", "gate", "submissions", "loops", "monitoring", "analysis", "evidence",
               "readings", "daemon"}
  /\ Retentions!Init /\ Monkeys!Init /\ Gates!Init /\ Submissions!Init /\ Loops!Init /\ Init
  /\ Analyses!Init /\ Evidences!Init /\ CollectorOf!Init /\ Daemons!Init
AllNext ==
  \/ /\ focus = "retention" /\ Retentions!Next
     /\ UNCHANGED <<focus, monkeyVars, gateVars, submissionVars, loopVars, vars, analysisVars, evidenceVars,
                   readingVars, daemonVars>>
  \/ /\ focus = "monkey" /\ Monkeys!Next
     /\ UNCHANGED <<focus, retentionVars, gateVars, submissionVars, loopVars, vars, analysisVars, evidenceVars,
                   readingVars, daemonVars>>
  \/ /\ focus = "gate" /\ Gates!Next
     /\ UNCHANGED <<focus, retentionVars, monkeyVars, submissionVars, loopVars, vars, analysisVars, evidenceVars,
                   readingVars, daemonVars>>
  \/ /\ focus = "submissions" /\ Submissions!Next
     /\ UNCHANGED <<focus, retentionVars, monkeyVars, gateVars, loopVars, vars, analysisVars, evidenceVars,
                   readingVars, daemonVars>>
  \/ /\ focus = "loops" /\ Loops!Next
     /\ UNCHANGED <<focus, retentionVars, monkeyVars, gateVars, submissionVars, vars, analysisVars, evidenceVars,
                   readingVars, daemonVars>>
  \/ /\ focus = "monitoring" /\ Next
     /\ UNCHANGED <<focus, retentionVars, monkeyVars, gateVars, submissionVars, loopVars, analysisVars, evidenceVars,
                   readingVars, daemonVars>>
  \/ /\ focus = "analysis" /\ Analyses!Next
     /\ UNCHANGED <<focus, retentionVars, monkeyVars, gateVars, submissionVars, loopVars, vars, evidenceVars,
                   readingVars, daemonVars>>
  \/ /\ focus = "evidence" /\ Evidences!Next
     /\ UNCHANGED <<focus, retentionVars, monkeyVars, gateVars, submissionVars, loopVars, vars, analysisVars,
                   readingVars, daemonVars>>
  \/ /\ focus = "readings" /\ CollectorOf!Next
     /\ UNCHANGED <<focus, retentionVars, monkeyVars, gateVars, submissionVars, loopVars, vars, analysisVars,
                   evidenceVars, daemonVars>>
  \/ /\ focus = "daemon" /\ Daemons!Next
     /\ UNCHANGED <<focus, retentionVars, monkeyVars, gateVars, submissionVars, loopVars, vars, analysisVars,
                   evidenceVars, readingVars>>
allVars == <<focus, retentionVars, monkeyVars, gateVars, submissionVars, loopVars, vars,
             analysisVars, evidenceVars, readingVars, daemonVars>>
AllSpec == AllInit /\ [][AllNext]_allVars

-----------------------------------------------------------------------------
\* The types of the one that moves (the others are as they started).
AllTypesOK ==
  CASE focus = "retention" -> Retentions!TypeOK
    [] focus = "monkey" -> Monkeys!TypeOK
    [] focus = "gate" -> Gates!TypeOK
    [] focus = "submissions" -> Submissions!TypeOK
    [] focus = "loops" -> Loops!TypeOK
    [] focus = "monitoring" -> TypeOK
    [] focus = "analysis" -> Analyses!TypeOK
    [] focus = "evidence" -> Evidences!TypeOK
    [] focus = "readings" -> CollectorOf!TypeOK
    [] focus = "daemon" -> Daemons!TypeOK

\* The properties of the parts, each as stated in its module (the daemon's is asked while
\* it moves: it is costly to evaluate).
\* A sweep leaves no more than its rules allow and takes the oldest, the snapshots that
\* are kept are the newest, and what is protected is never taken.
RetentionSafe == Retentions!RetentionSafe
\* An execution begins alone on its device, gives up on a recoverable failure only with
\* the budget spent, and stays stopped once stopped.
MonkeySafe == Monkeys!MonkeySafe
\* The gate decides on the report of its baseline, no better on a worse one, and by the
\* override given last.
GateSafe == Gates!GateSafe
\* What is told of a submission is true, what was announced is kept, and what was announced
\* last is its record.
SubmissionsSafe == Submissions!SubmissionsSafe
\* A loop counts only what happened on the device, a success leaves the device as
\* commanded, and a removal whose answer was lost is not held against it.
LoopsSafe == Loops!LoopsSafe
\* Aliases meet, the same issues are no regression, worse metrics and severe new issues
\* are seen whatever the limit, and one more issue gives no better verdict.
AnalysisSafe == Analyses!AnalysisSafe
\* A line more hides no issue, what an issue wants is captured or excused, the files are
\* those listed, and there is one bugreport.
EvidenceSafe == Evidences!EvidenceSafe
\* A reading is as fresh as what is kept allows, and its traffic was moved.
ReadingsSafe == CollectorOf!ReadingsSafe
\* The status tells what was delivered and who runs, an idle daemon has done its work,
\* and messages go where they should, once.
DaemonSafe == focus = "daemon" => Daemons!DaemonSafe
\* A cleanup plans nothing young.
CleanupTakesOnlyOld == Retentions!CleanupTakesOnlyOld
=============================================================================
