--------------------------- MODULE ReleaseSubmissions ---------------------------
(***************************************************************************)
(* ReleaseSubmissionService: a release platform hands in a build, which    *)
(* becomes a task, a run and a record; the run may be executed at once,    *)
(* the admission result is synced into the record later, and every change  *)
(* is announced to the outbox, from which the platform is called back.     *)
(*                                                                         *)
(* Requests are threads of the portal or processes of their own.  Nothing  *)
(* is locked, and submissions.json, which holds every record, is read and  *)
(* then written whole: one whose writer died reads as empty.               *)
(***************************************************************************)
EXTENDS Integers, Sequences

CONSTANTS
  Requesters,     \* requests served at the same time
  Requests,       \* the platform's own names of what it hands in
  Circumstances   \* who asks, may one die, submissions and syncs there are

VARIABLES
  circumstance,  \* the same throughout
  runs,          \* the status of each run, by number
  decision,      \* what the admission case says now
  records,       \* submissions.json: the record of each run
  events,        \* what was published, oldest first
  left,          \* submissions and syncs still to come
  request,       \* what each requester is at, with what it has read
  mishap         \* history: a file written over what its writer had not read, or
                 \* torn, and the runs whose last word may be another's, or was not said

vars == <<circumstance, runs, decision, records, events, left, request, mishap>>

-----------------------------------------------------------------------------
ConstantsOK ==
  \A c \in Circumstances :
    c.requesters \subseteq Requesters /\ c.deaths \in BOOLEAN /\ {c.submissions, c.syncs} \subseteq Nat
Decisions == {"pass", "conditional_pass", "fail"}
Ended == {"success", "failed", "partial_failed", "cancelled"}
RunStatus == {"queued", "running"} \cup Ended
Immediate == {TRUE, FALSE}
\* ReleaseSubmissionRecord; run is the number of its run, synced what the case said.
Record == [request : Requests, run : Nat \ {0}, immediate : Immediate, runStatus : RunStatus,
           status : {"received", "run_created", "executed", "admission_synced"},
           synced : Decisions \cup {"none"}]
\* _submission_status: a partial failure is no end it knows.
Status(immediate, runStatus, admitted) ==
  IF admitted THEN "admission_synced"
  ELSE IF immediate /\ runStatus \in {"success", "failed", "cancelled"} THEN "executed"
  ELSE IF runStatus \in {"queued", "running"} THEN "run_created" ELSE "received"

Idle == [at |-> "idle"]
\* old: the record that is synced, or the new one again.
Command ==
  {Idle}
  \cup [at : {"execute"}, old : Record, new : Record, saved : {{}}]
  \cup [at : {"load", "save", "announce"}, old : Record, new : Record, saved : SUBSET Record]

Init ==
  /\ circumstance \in Circumstances
  /\ runs = <<>> /\ events = <<>> /\ records = {}
  /\ decision \in Decisions
  /\ left = [submissions |-> circumstance.submissions, syncs |-> circumstance.syncs]
  /\ request = [p \in Requesters |-> Idle]
  /\ mishap = [stale |-> FALSE, crossed |-> {}]

Become(p, c) == request' = [request EXCEPT ![p] = c]
At(p, place) == request[p].at = place
Free(p) == p \in circumstance.requesters /\ request[p] = Idle
\* Is another at work on this submission?
Crosses(p, run) == \E q \in Requesters \ {p} : request[q] # Idle /\ request[q].new.run = run

\* create_submission: the task and its run come first.  A request that is
\* handed in twice becomes two submissions.
Create(p) ==
  /\ Free(p) /\ left.submissions > 0
  /\ left' = [left EXCEPT !.submissions = @ - 1]
  /\ runs' = Append(runs, "queued")
  /\ \E q \in Requests, now \in Immediate :
       LET new == [request |-> q, run |-> Len(runs) + 1, immediate |-> now, runStatus |-> "queued",
                   status |-> "run_created", synced |-> "none"]
       IN Become(p, [at |-> IF now THEN "execute" ELSE "load", old |-> new, new |-> new, saved |-> {}])
  /\ UNCHANGED <<circumstance, decision, records, events, mishap>>

\* execute_run ends the run, or raises: the record then has a failed run, which
\* may still be queued, or running.
Execute(p) ==
  LET c == request[p] IN
  /\ At(p, "execute") /\ runs[c.new.run] = "queued"
  /\ \E end \in RunStatus :
       /\ runs' = [runs EXCEPT ![c.new.run] = end]
       /\ LET told == IF end \in Ended THEN end ELSE "failed"
              new == [c.new EXCEPT !.runStatus = told, !.status = Status(TRUE, told, FALSE)]
          IN Become(p, [c EXCEPT !.at = "load", !.old = new, !.new = new])
  /\ UNCHANGED <<circumstance, decision, records, events, left, mishap>>
\* Somebody else executes a run: one that was handed in for later, or that was
\* taken before execute_run, which finds it ended and runs it no more.
RunEnds ==
  /\ \E r \in DOMAIN runs : runs[r] \notin Ended /\ \E end \in Ended : runs' = [runs EXCEPT ![r] = end]
  /\ UNCHANGED <<circumstance, decision, records, events, left, request, mishap>>
FindEnded(p) ==
  LET c == request[p] IN
  /\ At(p, "execute") /\ runs[c.new.run] # "queued"
  /\ LET new == [c.new EXCEPT !.runStatus = runs[c.new.run], !.status = Status(TRUE, runs[c.new.run], FALSE)]
     IN Become(p, [c EXCEPT !.at = "load", !.old = new, !.new = new])
  /\ UNCHANGED <<circumstance, runs, decision, records, events, left, mishap>>

\* The admission case has its own history.
Decide ==
  /\ left.syncs > 0
  /\ \E d \in Decisions \ {decision} : decision' = d
  /\ UNCHANGED <<circumstance, runs, records, events, left, request, mishap>>

\* sync_admission_result reads the record and the case.
Sync(p) ==
  /\ Free(p) /\ left.syncs > 0
  /\ left' = [left EXCEPT !.syncs = @ - 1]
  /\ \E r \in records :
       /\ mishap' = [mishap EXCEPT !.crossed = @ \cup {n \in {r.run} : Crosses(p, n)}]
       /\ Become(p, [at |-> "load", old |-> r, saved |-> {},
                     new |-> [r EXCEPT !.synced = decision, !.status = Status(r.immediate, r.runStatus, TRUE)]])
  /\ UNCHANGED <<circumstance, runs, decision, records, events>>

\* _save_record: the file is read once more,
Load(p) ==
  /\ At(p, "load")
  /\ Become(p, [request[p] EXCEPT !.at = "save", !.saved = records])
  /\ UNCHANGED <<circumstance, runs, decision, records, events, left, mishap>>
WithRecord(saved, new) == {r \in saved : r.run # new.run} \cup {new}
\* and written with the record in it.
Save(p) ==
  LET c == request[p] IN
  /\ At(p, "save")
  /\ records' = WithRecord(c.saved, c.new)
  /\ mishap' = [mishap EXCEPT !.stale = @ \/ c.saved # records]
  /\ Become(p, [c EXCEPT !.at = "announce"])
  /\ UNCHANGED <<circumstance, runs, decision, events, left>>

Event(r) == [run |-> r.run, runStatus |-> r.runStatus, status |-> r.status, synced |-> r.synced]
\* Mutant: what is announced is the record that was read.
NewsBefore(c) == <<Event(c.old)>>
\* created and execution_updated, which say the same, or admission_synced.
News(c) ==
  IF c.new.status = "admission_synced" THEN <<Event(c.new)>> ELSE <<Event(c.new), Event(c.new)>>
Announce(p) ==
  /\ At(p, "announce")
  /\ events' = events \o News(request[p])
  /\ Become(p, Idle)
  /\ UNCHANGED <<circumstance, runs, decision, records, left, mishap>>

\* A death, which may tear the file it writes; or publishing raises, which ends
\* the request as well.
Die(p) ==
  /\ circumstance.deaths /\ request[p] # Idle
  /\ \/ /\ At(p, "save") /\ records' = {} /\ mishap' = [mishap EXCEPT !.stale = TRUE]
        /\ UNCHANGED events
     \/ /\ At(p, "announce") /\ events' = Append(events, News(request[p])[1])
        /\ UNCHANGED <<records, mishap>>
     \/ /\ mishap' = [mishap EXCEPT !.crossed = @ \cup {n \in {request[p].new.run} : At(p, "announce")}]
        /\ UNCHANGED <<records, events>>
  /\ Become(p, Idle)
  /\ UNCHANGED <<circumstance, runs, decision, left>>

Next ==
  \/ RunEnds \/ Decide
  \/ \E p \in Requesters :
       Create(p) \/ Execute(p) \/ FindEnded(p) \/ Sync(p) \/ Load(p) \/ Save(p) \/ Announce(p) \/ Die(p)
Spec == Init /\ [][Next]_vars

-----------------------------------------------------------------------------
(* Types.                                                                  *)
TypeOK ==
  /\ ConstantsOK /\ circumstance \in Circumstances
  /\ runs \in Seq(RunStatus) /\ decision \in Decisions
  /\ records \subseteq Record /\ \A r, s \in records : r.run = s.run => r = s
  /\ \A i \in DOMAIN events : \E r \in DOMAIN runs : events[i].run = r
  /\ left \in [submissions : 0 .. circumstance.submissions, syncs : 0 .. circumstance.syncs]
  /\ \A p \in Requesters : request[p] = Idle \/ /\ request[p].new \in Record /\ request[p].old \in Record
                                                /\ request[p].saved \subseteq Record
  /\ mishap \in [stale : BOOLEAN, crossed : SUBSET DOMAIN runs]

\* Whoever overlaps, dies or is executed by somebody else, nothing false is kept
\* or announced of a run: what ended it is what ended it, but a failure may be
\* execute_run's own, and a record's status follows from what it holds.
Agrees(x) == x.runStatus \in Ended \ {"failed"} => runs[x.run] = x.runStatus
TellsTruth ==
  /\ \A r \in records : Agrees(r) /\ r.status = Status(r.immediate, r.runStatus, r.synced # "none")
  /\ \A i \in DOMAIN events : Agrees(events[i])

\* What was announced to the platform is not lost, with any number of requesters:
\* every submission it ever heard of has its record, whatever else was handed in
\* since, the same request included, unless a request wrote the file over what
\* another had written after it was read, or died writing.
AnnouncedIsKept ==
  ~mishap.stale => \A i \in DOMAIN events : \E r \in records : r.run = events[i].run

\* The platform's last word on a submission that nobody is at work on is what its
\* record says, the admission result included, whoever is at work on others and
\* dies: unless two were at work on this one at once, or one died that had not
\* announced what it saved.
LastWordIsRecord ==
  ~mishap.stale =>
    \A r \in records :
      r.run \notin mishap.crossed /\ (\A p \in Requesters : request[p] # Idle => request[p].new.run # r.run) =>
        \E i \in DOMAIN events :
          events[i] = Event(r) /\ \A j \in DOMAIN events : j > i => events[j].run # r.run

\* What is kept and announced of a submission is true, what was announced is kept, and what
\* was announced last is its record (ReleaseSubmissionService).
SubmissionsSafe == TellsTruth /\ AnnouncedIsKept /\ LastWordIsRecord
=============================================================================
