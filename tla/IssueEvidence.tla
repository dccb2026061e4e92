------------------------------ MODULE IssueEvidence ------------------------------
(***************************************************************************)
(* What is told of a scenario's outcome: MonkeyIssueDetector reads all the *)
(* text of it line by line, and IssueArtifactCollector then gathers the    *)
(* evidence of each issue from a device whose connection may be lost, on a *)
(* disk that may be full.                                                  *)
(*                                                                         *)
(* A line is what the patterns find in it.  No pattern finds a freeze or a *)
(* black screen, so a screenshot and the input events are never asked for; *)
(* nor has any issue a process id.  What the evidence says is left out.    *)
(***************************************************************************)
EXTENDS Integers, Sequences, FiniteSets, SequencesExt

CONSTANTS
  Circumstances  \* alphabet, length, outcomes; snapshot, trace, named; faults and budgets

VARIABLES
  circumstance,  \* the same throughout
  output,        \* the lines
  at,            \* "output", "capturing", "done", or "failed": an exception
  found,         \* the issues in order
  job,           \* the issue and the step of the capture
  device,        \* its link; whether it answered when the capture began
  records,       \* the artifacts listed
  errors,        \* the captures excused
  files,         \* the files of the evidence
  misses         \* how many commands may still fail on a working link

vars == <<circumstance, output, at, found, job, device, records, errors, files, misses>>

-----------------------------------------------------------------------------
(* Inputs.                                                                 *)

\* The detectors in their order, after what the outcome itself says.
Position == [offline |-> 1, timeout |-> 2, startup |-> 3, anr |-> 4, java |-> 5, native |-> 6, null |-> 7,
             tombstone |-> 8, memory |-> 9, watchdog |-> 10, jank |-> 11, strict |-> 12, exit |-> 13]
Outcomes == {"fine", "offline", "timeout", "startup_timeout", "startup_failure"}
Kinds == {"log", "snapshot", "bugreport", "dropbox", "meminfo", "surfaceflinger", "trace", "logcat", "traces", "tombstone"}
ConstantsOK ==
  \A c \in Circumstances :
    /\ \A l \in c.alphabet : DOMAIN l = {"marks", "reboot", "booted", "system"}
    /\ c.length \in Nat /\ c.outcomes \subseteq Outcomes
    /\ c.snapshot \in BOOLEAN /\ c.trace \in {"none", "named", "there"} /\ c.named \in BOOLEAN
    /\ c.link \in BOOLEAN /\ c.faults \in BOOLEAN /\ c.misses \in Nat

Init ==
  /\ circumstance \in Circumstances
  /\ output = <<>> /\ at = "output" /\ found = <<>> /\ job = [issue |-> 0, step |-> 0]
  /\ device = [link |-> circumstance.link, answered |-> FALSE]
  /\ records = {} /\ errors = {} /\ files = {} /\ misses = circumstance.misses

Fixed == UNCHANGED circumstance
Capture == UNCHANGED <<job, records, errors, files, misses>>

-----------------------------------------------------------------------------
(* Detection.                                                              *)

\* The lines that are read: none from one about a reboot to that of its end.
Restarting(text) ==
  LET before[n \in 1 .. Len(text) + 1] ==
        IF n = 1 THEN FALSE
        ELSE IF before[n - 1] THEN ~text[n - 1].booted ELSE text[n - 1].reboot IN
  before
Read(text) == {n \in 1 .. Len(text) : ~Restarting(text)[n] /\ ~text[n].reboot}
\* The key of a null recovery is asked of a group its pattern does not have.
Raises(text) == \E n \in Read(text) : \E m \in text[n].marks : m.detector = "null"
Counts(line, mark) == ~(line.system /\ mark.detector \in {"java", "native"})
Findings(text) ==
  UNION {{[line |-> n, detector |-> m.detector, key |-> m.key] : m \in {x \in text[n].marks : Counts(text[n], x)}} :
         n \in Read(text)}
Finding(d, k) == [line |-> 0, detector |-> d, key |-> k]
Told(outcome) ==
  CASE outcome = "fine" -> {}
    [] outcome = "offline" -> {Finding("offline", "device_offline:d")}
    [] outcome \in {"timeout", "startup_timeout"} -> {Finding("timeout", outcome)}
    [] outcome = "startup_failure" -> {Finding("startup", outcome)}
Before(f, g) == f.line < g.line \/ (f.line = g.line /\ Position[f.detector] < Position[g.detector])
\* One issue for a key, that of its first finding.
Distinct(all) == {f \in all : ~\E g \in all : g.key = f.key /\ Before(g, f)}
Keys(text) == {f.key : f \in Findings(text)}

AddLine(l) ==
  /\ at = "output" /\ Len(output) < circumstance.length /\ output' = Append(output, l)
  /\ Fixed /\ Capture /\ UNCHANGED <<at, found, device>>
Detect(outcome) ==
  /\ at = "output" /\ ~Raises(output)
  /\ found' = SetToSortSeq(Distinct(Told(outcome) \cup Findings(output)), Before)
  /\ at' = IF found' = <<>> THEN "done" ELSE "capturing"
  /\ device' = [device EXCEPT !.answered = @ \/ (found' # <<>> /\ device.link)]
  /\ job' = [issue |-> 1, step |-> 1]
  /\ Fixed /\ UNCHANGED <<output, records, errors, files, misses>>
DetectionRaises ==
  /\ at = "output" /\ Raises(output) /\ at' = "failed"
  /\ Fixed /\ Capture /\ UNCHANGED <<output, found, device>>

-----------------------------------------------------------------------------
(* The device.                                                             *)

Drop ==
  /\ at = "capturing" /\ device.link /\ misses > 0 /\ misses' = misses - 1
  /\ device' = [device EXCEPT !.link = FALSE]
  /\ Fixed /\ UNCHANGED <<output, at, found, job, records, errors, files>>
Return ==
  /\ at = "capturing" /\ ~device.link /\ device' = [device EXCEPT !.link = TRUE]
  /\ Fixed /\ UNCHANGED <<output, at, found, job, records, errors, files, misses>>

-----------------------------------------------------------------------------
(* Capture.                                                                *)

Steps == <<"log", "snapshot", "bugreport", "dropbox", "meminfo", "surfaceflinger", "trace", "logcat", "traces", "tombstone">>
Step == Steps[job.step]
\* What is gathered for some types of issues only; logcat, traces and
\* tombstones are for all.
Wants == [dropbox |-> {"anr", "java", "native", "tombstone", "watchdog", "exit", "startup_timeout"},
          meminfo |-> {"anr", "exit", "timeout", "startup_timeout"},
          surfaceflinger |-> {"anr", "native", "tombstone", "timeout"}, trace |-> {"watchdog"}]
Type(f) == IF f.detector = "timeout" THEN f.key ELSE f.detector
Wanted(i, kind) == kind \in DOMAIN Wants => Type(found[i]) \in Wants[kind]
Entry == [issue |-> job.issue, kind |-> Step]

\* The answers of some commands.
Answers(n) ==
  {a \in [1 .. n -> {"text", "empty", "failed"}] :
    IF device.link THEN Cardinality({k \in 1 .. n : a[k] # "text"}) <= misses ELSE \A k \in 1 .. n : a[k] = "failed"}
Spend(a) ==
  misses' = IF device.link THEN misses - Cardinality({k \in DOMAIN a : a[k] # "text"}) ELSE misses

NextJob ==
  IF job.step < Len(Steps) THEN [job EXCEPT !.step = @ + 1] ELSE [issue |-> job.issue + 1, step |-> 1]
Advance ==
  /\ at = "capturing" /\ job' = NextJob
  /\ at' = IF NextJob.issue > Len(found) THEN "done" ELSE at
  /\ Fixed /\ UNCHANGED <<output, found, device>>
Nothing == Advance /\ UNCHANGED <<records, errors, files>>
\* The device did not answer, or its command said nothing.
Excuse == Advance /\ errors' = errors \cup {Entry} /\ UNCHANGED <<records, files>>
Kept == Advance /\ records' = records \cup {Entry} /\ files' = files \cup {Entry} /\ UNCHANGED errors
\* The disk is full: of what was recorded and excused nothing is left, of
\* the files all.
Full ==
  /\ circumstance.faults /\ at = "capturing" /\ at' = "failed"
  /\ records' = {} /\ errors' = {} /\ files' \in {files, files \cup {Entry}}
  /\ Fixed /\ UNCHANGED <<output, found, job, device>>

\* The execution log, and the monitoring snapshot when there is one.
CopyContext ==
  /\ at = "capturing" /\ Step \in {"log", "snapshot"} /\ UNCHANGED misses
  /\ IF Step = "log" \/ circumstance.snapshot THEN Kept \/ Full ELSE Nothing

\* One command whose text is kept.
Shell == \E a \in Answers(1) : Spend(a) /\ IF a[1] = "text" THEN Kept \/ Full ELSE Excuse

\* The first issue a bugreport comes for has it; the others have none.
HasBugreport == \E r \in records : r.kind = "bugreport"
Bugreport ==
  /\ at = "capturing" /\ Step = "bugreport"
  /\ CASE HasBugreport -> Nothing /\ UNCHANGED misses
       [] ~HasBugreport /\ ~device.answered -> Excuse /\ UNCHANGED misses
       [] OTHER -> Shell

Dump ==
  /\ at = "capturing" /\ Step \in {"dropbox", "surfaceflinger"}
  /\ CASE ~Wanted(job.issue, Step) -> Nothing /\ UNCHANGED misses
       [] Wanted(job.issue, Step) /\ ~device.answered -> Excuse /\ UNCHANGED misses
       [] OTHER -> Shell

\* By name, and if that has no process or no answer, by the id that pidof
\* gives, of which nobody looks whether it has a process.
\* Mutant: the text that tells there is no process stays.
ForgottenNot == files \cup {Entry}
Forgotten == files
Meminfo ==
  /\ at = "capturing" /\ Step = "meminfo"
  /\ CASE ~Wanted(job.issue, Step) -> Nothing /\ UNCHANGED misses
       [] Wanted(job.issue, Step) /\ ~(device.answered /\ circumstance.named) -> Excuse /\ UNCHANGED misses
       [] OTHER ->
            \E a \in Answers(3), gone \in BOOLEAN :
              /\ Spend(a)
              /\ IF a[1] = "text" /\ ~gone THEN a[2] = "text" /\ a[3] = "text" /\ (Kept \/ Full)
                 ELSE IF a[2] = "text" /\ a[3] = "text" THEN Kept \/ Full
                 ELSE Advance /\ errors' = errors \cup {Entry} /\ UNCHANGED records
                      /\ files' = IF a[1] = "text" THEN Forgotten ELSE files

Trace ==
  /\ at = "capturing" /\ Step = "trace" /\ UNCHANGED misses
  /\ IF ~Wanted(job.issue, Step) \/ ~circumstance.snapshot THEN Nothing
     ELSE CASE circumstance.trace = "none" -> Nothing
            [] circumstance.trace = "named" -> Excuse
            [] OTHER -> Kept \/ Full

\* Two buffers, of which one is enough.
Logcat ==
  /\ at = "capturing" /\ Step = "logcat"
  /\ IF ~device.answered THEN Excuse /\ UNCHANGED misses
     ELSE \E a \in Answers(2) :
            /\ Spend(a) /\ IF \E k \in 1 .. 2 : a[k] = "text" THEN Kept \/ Full ELSE Excuse

\* The newest of the files that can be read.
Remote ==
  /\ at = "capturing" /\ Step \in {"traces", "tombstone"}
  /\ IF ~device.answered THEN Excuse /\ UNCHANGED misses ELSE Shell

Next ==
  \/ \E l \in circumstance.alphabet : AddLine(l)
  \/ \E o \in circumstance.outcomes : Detect(o)
  \/ DetectionRaises \/ Drop \/ Return
  \/ CopyContext \/ Bugreport \/ Dump \/ Meminfo \/ Trace \/ Logcat \/ Remote

Spec == Init /\ [][Next]_vars

-----------------------------------------------------------------------------
(* Types.                                                                  *)
TypeOK ==
  /\ ConstantsOK /\ circumstance \in Circumstances
  /\ output \in Seq(circumstance.alphabet) /\ Len(output) <= circumstance.length
  /\ at \in {"output", "capturing", "done", "failed"} /\ misses \in 0 .. circumstance.misses
  /\ \A x \in records \cup errors \cup files : x.issue \in 1 .. Len(found) /\ x.kind \in Kinds

\* A line that is added hides nothing the text told before, unless the
\* detection does not survive it.
LaterLinesHideNothing == [][output' # output => Raises(output') \/ Keys(output) \subseteq Keys(output')]_vars

\* After a capture every kind of evidence an issue wants is there or excused;
\* but the context and a trace nobody recorded are silent, and a bugreport
\* may be with an earlier issue.
Silent(kind) ==
  kind \in {"log", "snapshot"} \/ (kind = "trace" /\ (~circumstance.snapshot \/ circumstance.trace = "none"))
Accounted ==
  at = "done" =>
    \A i \in 1 .. Len(found), kind \in Kinds :
      \/ Silent(kind) \/ ~Wanted(i, kind)
      \/ [issue |-> i, kind |-> kind] \in records \cup errors
      \/ kind = "bugreport" /\ \E r \in records : r.kind = kind /\ r.issue < i

\* A capture leaves the files it lists and no others, unless an exception
\* ended it.
FilesAreListed == at # "failed" => files = records

\* An instance has one bugreport: with the first issue that it could be had
\* for, and none was asked for after that.
OneBugreport ==
  \A r \in records : r.kind = "bugreport" =>
    \A x \in records \cup errors : x.kind = "bugreport" /\ x # r => x \in errors /\ x.issue < r.issue

\* A line more hides no issue, what an issue wants is captured or excused, the files are
\* those listed, and there is one bugreport (IssueDetector, ArtifactCollector.capture).
EvidenceSafe == [](Accounted /\ FilesAreListed /\ OneBugreport) /\ LaterLinesHideNothing
=============================================================================
