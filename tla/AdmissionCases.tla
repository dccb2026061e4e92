----------------------------- MODULE AdmissionCases -----------------------------
(***************************************************************************)
(* The admission case of one baseline: AdmissionCaseService rebuilds it    *)
(* from the baseline, the quality gate and the case before at every look,  *)
(* numbers it, writes it (a file per report, then an index) and announces  *)
(* its contract; the collaboration workflow keeps a record of its own and  *)
(* hands every assignment and transition on to the case.                   *)
(*                                                                         *)
(* A command is a process of its own and nothing is locked.  Every file is *)
(* written in place: a process that dies in a write leaves a file that     *)
(* reads as missing.  What the other inputs of a case (runs, issues,       *)
(* regressions) say does not change here.                                  *)
(***************************************************************************)
EXTENDS Integers, Sequences

CONSTANTS
  Processes,      \* commands running at the same time
  Actors,         \* people who may assign, comment and decide
  Automatic,      \* of each report, by number: what the gate makes of it
  Circumstances   \* who runs, may one die, how often the baseline moves and the gate is
                  \* overridden, which states are asked for, how many contracts there are

States == {"open", "assigned", "reviewing", "pending_confirmation", "approved_with_risk",
           "approved", "rejected"}
Decided == {"pending_confirmation", "approved_with_risk", "approved", "rejected"}
\* ALLOWED_TRANSITIONS, other than to stay.
Moves == [open |-> {"assigned", "reviewing", "pending_confirmation", "rejected"},
          assigned |-> {"reviewing"} \cup Decided,
          reviewing |-> {"assigned"} \cup Decided,
          pending_confirmation |-> {"reviewing", "approved_with_risk", "approved", "rejected"},
          approved_with_risk |-> {"reviewing", "approved", "rejected"},
          approved |-> {"reviewing", "rejected"},
          rejected |-> {"reviewing", "pending_confirmation"}]
\* _allowed_admission_states has no open: its first state is new.
Asked == (States \ {"open"}) \cup {"new"}
Decisions == {"pass", "conditional_pass", "fail"}
Reports == DOMAIN Automatic
Nobody == "nobody"
People == Actors \cup {Nobody}
Missing == [missing |-> TRUE]

\* What the constants are.
ConstantsOK ==
  /\ Actors # {} /\ Nobody \notin Actors
  /\ Automatic \in Seq(Decisions) /\ Automatic # <<>>
  /\ \A c \in Circumstances :
       /\ c.processes \subseteq Processes /\ c.deaths \in BOOLEAN
       /\ {c.moves, c.overrides, c.room} \subseteq Nat /\ c.asked \subseteq Asked

VARIABLES
  circumstance,  \* the same throughout
  baseline,      \* its report, and how often it was moved
  override,      \* overrides.json: what the gate is overridden with, and how often it was
  record,        \* admission_cases.json of the collaboration
  cases,         \* case.json of each report
  index,         \* index.json: the report whose case is the current one, 0 if none
  announced,     \* contracts published, oldest first
  accepted,      \* the case took the last assignment or transition
  command        \* what each process is doing, with what it has read

vars == <<circumstance, baseline, override, record, cases, index, announced, accepted, command>>

-----------------------------------------------------------------------------
NewRecord == [state |-> "new", assignee |-> Nobody, reviewer |-> Nobody]
Record == [state : Asked, assignee : People, reviewer : People]
\* Both show in the opinion of the gate.
Gate == [decision : Decisions, overridden : BOOLEAN]
Event == [from : States \cup {""}, to : States]
RoleChange == [role : {"assignee", "reviewer"}, from : People, to : People]
\* updated, by: when and by whom the baseline was moved, or who updated the case;
\* shown: there is an override in it.
Case == [report : Reports, updated : 0..circumstance.moves, status : States, revision : Nat,
         assignee : People, reviewer : People, gate : Gate, shown : BOOLEAN,
         by : People, events : Seq(Event), roles : Seq(RoleChange)]

\* payload_revision_fingerprint.
Fingerprint(c) == [c EXCEPT !.revision = 0]
\* ci_contract.
Contract(c) ==
  [report |-> c.report, revision |-> c.revision, status |-> c.status,
   assignee |-> c.assignee, reviewer |-> c.reviewer, gate |-> c.gate]
Contracts == [report : Reports, revision : Nat, status : States, assignee : People,
              reviewer : People, gate : Gate]
\* load_case_for_baseline.
Current == IF index = 0 THEN Missing ELSE cases[index]
\* normalize_status.
Normal(state) == IF state = "new" THEN "open" ELSE state

Idle == [at |-> "idle"]
Verb == [what : {"view", "assign", "transition", "comment"}, by : Actors, whom : Actors,
         to : Asked]
Look == [what |-> "view", by |-> CHOOSE a \in Actors : TRUE, whom |-> CHOOSE a \in Actors : TRUE,
         to |-> "new"]
\* base, gate, previous, item: read, or built, so far; apply: a look that is the start
\* of an update.
Command ==
  {Idle}
  \cup [at : {"record", "load"}, verb : Verb, record : Record]
  \cup [at : {"gate", "previous"}, verb : Verb, record : Record,
        base : [report : Reports, moved : 0..circumstance.moves], gate : {Missing} \cup Gate]
  \cup [at : {"apply", "number", "case", "index", "publish"}, verb : Verb, record : Record,
        looking : BOOLEAN, previous : {Missing} \cup Case, item : Case]

Free(p) ==
  /\ p \in circumstance.processes /\ command[p] = Idle
  /\ Len(announced) < circumstance.room
  /\ Current # Missing => Current.revision < circumstance.room
Quiet == \A p \in Processes : command[p] = Idle
Serial == \A p, q \in circumstance.processes : p = q
Become(p, c) == command' = [command EXCEPT ![p] = c]
Files == <<baseline, override, record, cases, index, announced, accepted>>

Init ==
  /\ circumstance \in Circumstances
  /\ baseline = [report |-> 1, moved |-> 0]
  /\ override = [decision |-> {}, count |-> 0]
  /\ record = NewRecord
  /\ cases = [r \in Reports |-> Missing]
  /\ index = 0
  /\ announced = <<>>
  /\ accepted = TRUE
  /\ command = [p \in Processes |-> Idle]

-----------------------------------------------------------------------------
(* The inputs of a case.                                                   *)

\* RuleReviewReportService sets, promotes or rolls back the baseline.
MoveBaseline ==
  /\ baseline.moved < circumstance.moves
  /\ \E r \in Reports \ {baseline.report} :
       baseline' = [report |-> r, moved |-> baseline.moved + 1]
  /\ UNCHANGED <<circumstance, override, record, cases, index, announced, accepted, command>>

\* record_override.  It says nothing of the report it was made for.
RecordOverride ==
  /\ override.count < circumstance.overrides
  /\ \E d \in Decisions : override' = [decision |-> {d}, count |-> override.count + 1]
  /\ UNCHANGED <<circumstance, baseline, record, cases, index, announced, accepted, command>>

\* get_quality_gate: automatic, or as overridden.
GateNow ==
  IF override.decision = {}
    THEN [decision |-> Automatic[baseline.report], overridden |-> FALSE]
    ELSE [decision |-> CHOOSE d \in override.decision : TRUE, overridden |-> TRUE]

-----------------------------------------------------------------------------
(* A look at the case.                                                     *)

\* get_case reads the baseline,
Read(p, verb, r) ==
  Become(p, [at |-> "gate", verb |-> verb, record |-> r, base |-> baseline, gate |-> Missing])

View(p) ==
  /\ Free(p) /\ Read(p, Look, record)
  /\ UNCHANGED <<circumstance, Files>>

\* then the gate, which reads the baseline by itself,
ReadGate(p) ==
  /\ command[p].at = "gate"
  /\ Become(p, [command[p] EXCEPT !.at = "previous", !.gate = GateNow])
  /\ UNCHANGED <<circumstance, Files>>

\* Mutant: the case of a new report starts with an empty history.
RebuildOwnHistory(previous, base, gate) ==
  LET kept == IF previous = Missing
                THEN [status |-> "open", revision |-> 1, assignee |-> Nobody,
                      reviewer |-> Nobody, events |-> <<>>, roles |-> <<>>]
                ELSE previous
      same == previous = Missing \/ previous.report = base.report
  IN  [report |-> base.report, updated |-> base.moved, status |-> kept.status,
       revision |-> kept.revision, assignee |-> kept.assignee, reviewer |-> kept.reviewer,
       gate |-> gate, shown |-> gate.overridden, by |-> Nobody,
       events |-> IF same THEN kept.events ELSE <<>>, roles |-> kept.roles]

\* The candidate: what people decided is the previous case's, whatever its report.
Rebuild(previous, base, gate) ==
  LET kept == IF previous = Missing
                THEN [status |-> "open", revision |-> 1, assignee |-> Nobody,
                      reviewer |-> Nobody, events |-> <<>>, roles |-> <<>>]
                ELSE previous
  IN  [report |-> base.report, updated |-> base.moved, status |-> kept.status,
       revision |-> kept.revision, assignee |-> kept.assignee, reviewer |-> kept.reviewer,
       gate |-> gate, shown |-> gate.overridden, by |-> Nobody,
       events |-> kept.events, roles |-> kept.roles]

\* and the case before.
ReadPrevious(p) ==
  LET c == command[p] IN
  /\ c.at = "previous"
  /\ Become(p, [at |-> "number", verb |-> c.verb, record |-> c.record, looking |-> TRUE,
                previous |-> Current, item |-> Rebuild(Current, c.base, c.gate)])
  /\ UNCHANGED <<circumstance, Files>>

-----------------------------------------------------------------------------
(* _persist_case.                                                          *)

\* Mutant: only another status makes another revision.
RevisionByStatus(previous, raw, item) ==
  LET n == IF previous = Missing THEN 0 ELSE previous.revision
  IN  IF raw # Missing /\ raw.status = item.status /\ n > 0 THEN n ELSE n + 1

\* The revision of the case before, or the next if the file of that case differs from item.
Revision(previous, raw, item) ==
  LET n == IF previous = Missing THEN 0 ELSE previous.revision
  IN  IF raw # Missing /\ Fingerprint(raw) = Fingerprint(item) /\ n > 0 THEN n ELSE n + 1

Number(p) ==
  LET c == command[p]
      raw == cases[IF c.previous = Missing THEN c.item.report ELSE c.previous.report]
  IN  /\ c.at = "number"
      /\ Become(p, [c EXCEPT !.at = "case", !.item.revision = Revision(c.previous, raw, c.item)])
      /\ UNCHANGED <<circumstance, Files>>

WriteCase(p) ==
  LET c == command[p] IN
  /\ c.at = "case"
  /\ cases' = [cases EXCEPT ![c.item.report] = c.item]
  /\ Become(p, [c EXCEPT !.at = "index"])
  /\ UNCHANGED <<circumstance, baseline, override, record, index, announced, accepted>>

WriteIndex(p) ==
  LET c == command[p] IN
  /\ c.at = "index"
  /\ index' = c.item.report
  /\ Become(p, [c EXCEPT !.at = "publish"])
  /\ UNCHANGED <<circumstance, baseline, override, record, cases, announced, accepted>>

\* The contract is compared with the one in the case before.
News(previous, item) == previous = Missing \/ Contract(previous) # Contract(item)

\* A look is over then, an update that began with it goes on with what it got.
Publish(p) ==
  LET c == command[p] IN
  /\ c.at = "publish"
  /\ announced' = IF News(c.previous, c.item) THEN Append(announced, Contract(c.item))
                  ELSE announced
  /\ Become(p, IF c.looking /\ c.verb.what # "view"
                 THEN [c EXCEPT !.at = "apply", !.looking = FALSE, !.previous = c.item]
                 ELSE Idle)
  /\ UNCHANGED <<circumstance, baseline, override, record, cases, index, accepted>>

-----------------------------------------------------------------------------
(* Collaboration.                                                          *)

\* assign_admission_case, comment_admission_case, transition_admission_case: the record as
\* it is to be.
Revised(r, verb) ==
  CASE verb.what = "assign" -> [r EXCEPT !.state = "assigned", !.assignee = verb.whom]
    [] verb.what = "transition" ->
         [r EXCEPT !.state = verb.to, !.reviewer = IF verb.to \in Decided THEN verb.by ELSE @]
    [] verb.what = "comment" -> r

Ask(p, verb) == Become(p, [at |-> "record", verb |-> verb, record |-> Revised(record, verb)])

Collaborate(p) ==
  /\ Free(p)
  /\ \E a \in Actors :
       \/ \E b \in Actors : Ask(p, [Look EXCEPT !.what = "assign", !.by = a, !.whom = b])
       \/ \E to \in circumstance.asked :
            Ask(p, [Look EXCEPT !.what = "transition", !.by = a, !.to = to])
       \/ Ask(p, [Look EXCEPT !.what = "comment"])
  /\ UNCHANGED <<circumstance, Files>>

\* The record is saved before the case is asked.
SaveRecord(p) ==
  LET c == command[p] IN
  /\ c.at = "record"
  /\ record' = c.record
  /\ Become(p, IF c.verb.what = "comment" THEN Idle ELSE [c EXCEPT !.at = "load"])
  /\ UNCHANGED <<circumstance, baseline, override, cases, index, announced, accepted>>

\* update_case_collaboration: the case there is, its override not read back, or a look.
LoadCase(p) ==
  LET c == command[p] IN
  /\ c.at = "load"
  /\ IF Current = Missing
       THEN Read(p, c.verb, c.record)
       ELSE LET loaded == [Current EXCEPT !.shown = FALSE]
            IN  Become(p, [at |-> "apply", verb |-> c.verb, record |-> c.record, looking |-> FALSE,
                           previous |-> loaded, item |-> loaded])
  /\ UNCHANGED <<circumstance, Files>>

RoleChanges(role, from, to) ==
  IF from = to THEN <<>> ELSE <<[role |-> role, from |-> from, to |-> to]>>

\* The case with the record's state and people, and the events that tell of it.
Updated(c, r, by) ==
  LET to == Normal(r.state)
      first == IF c.events = <<>> THEN <<[from |-> "", to |-> c.status]>> ELSE <<>>
      move == IF c.status = to THEN <<>> ELSE <<[from |-> c.status, to |-> to]>>
  IN  [c EXCEPT !.status = to, !.assignee = r.assignee, !.reviewer = r.reviewer, !.by = by,
                !.events = @ \o first \o move,
                !.roles = @ \o RoleChanges("assignee", c.assignee, r.assignee)
                            \o RoleChanges("reviewer", c.reviewer, r.reviewer)]

Permitted(from, to) == to = from \/ to \in Moves[from]

Apply(p) ==
  LET c == command[p] IN
  /\ c.at = "apply"
  /\ Permitted(c.previous.status, Normal(c.record.state))
  /\ Become(p, [c EXCEPT !.at = "number", !.item = Updated(c.previous, c.record, c.verb.by)])
  /\ accepted' = TRUE
  /\ UNCHANGED <<circumstance, baseline, override, record, cases, index, announced>>

\* validate_status_transition raises: the record keeps what the case does not take.
Refuse(p) ==
  LET c == command[p] IN
  /\ c.at = "apply"
  /\ ~Permitted(c.previous.status, Normal(c.record.state))
  /\ Become(p, Idle)
  /\ accepted' = FALSE
  /\ UNCHANGED <<circumstance, baseline, override, record, cases, index, announced>>

\* The process dies before a write, or in the middle of it.
Crash(p) ==
  LET c == command[p] IN
  /\ circumstance.deaths /\ c # Idle
  /\ \/ UNCHANGED <<record, cases, index>>
     \/ c.at = "record" /\ record' = NewRecord /\ UNCHANGED <<cases, index>>
     \/ /\ c.at = "case"
        /\ cases' = [cases EXCEPT ![c.item.report] = Missing] /\ UNCHANGED <<record, index>>
     \/ c.at = "index" /\ index' = 0 /\ UNCHANGED <<record, cases>>
  /\ Become(p, Idle)
  /\ UNCHANGED <<circumstance, baseline, override, announced, accepted>>

Next ==
  \/ MoveBaseline \/ RecordOverride
  \/ \E p \in Processes :
       \/ View(p) \/ ReadGate(p) \/ ReadPrevious(p)
       \/ Number(p) \/ WriteCase(p) \/ WriteIndex(p) \/ Publish(p)
       \/ Collaborate(p) \/ SaveRecord(p) \/ LoadCase(p) \/ Apply(p) \/ Refuse(p) \/ Crash(p)

Spec == Init /\ [][Next]_vars

-----------------------------------------------------------------------------
(* Properties.                                                             *)

Orderly == Serial /\ ~circumstance.deaths

\* The files hold what they are to hold.
TypeOK ==
  /\ ConstantsOK
  /\ circumstance \in Circumstances
  /\ baseline \in [report : Reports, moved : 0..circumstance.moves]
  /\ override \in [decision : SUBSET Decisions, count : 0..circumstance.overrides]
  /\ record \in Record
  /\ cases \in [Reports -> {Missing} \cup Case]
  /\ index \in Reports \cup {0}
  /\ announced \in Seq(Contracts)
  /\ accepted \in BOOLEAN
  /\ command \in [Processes -> Command]

\* One command at a time, and none dies: between commands the record of the collaboration
\* and the case say the same, unless the case refused the last assignment or transition.
RecordAgreesWithCase ==
  (Orderly /\ Quiet /\ accepted /\ Current # Missing) =>
    /\ Current.status = Normal(record.state)
    /\ Current.assignee = record.assignee /\ Current.reviewer = record.reviewer

\* The status the first n events lead to, and who has a role after the first n changes.
Told(events, n) == IF n = 0 THEN "" ELSE events[n].to
Has(person, role, roles, n) ==
  IF \A i \in 1..n : roles[i].role # role THEN person = Nobody
  ELSE \E i \in 1..n : /\ roles[i].role = role /\ roles[i].to = person
                       /\ \A j \in 1..n : roles[j].role = role => j <= i

\* The events of a case lead to its status by allowed transitions,
EventsExplain(c) ==
  /\ \A i \in DOMAIN c.events :
       /\ c.events[i].from = Told(c.events, i - 1)
       /\ i > 1 => c.events[i].to \in Moves[c.events[i].from]
  /\ c.status = IF c.events = <<>> THEN "open" ELSE Told(c.events, Len(c.events))
\* and each role change starts with who had the role, up to its assignee and its reviewer.
RolesExplain(c) ==
  /\ \A i \in DOMAIN c.roles : Has(c.roles[i].from, c.roles[i].role, c.roles, i - 1)
  /\ Has(c.assignee, "assignee", c.roles, Len(c.roles))
  /\ Has(c.reviewer, "reviewer", c.roles, Len(c.roles))

\* However commands overlap, wherever one dies, and whichever report the baseline is moved
\* to, the history of a case explains the case.
HistoryExplainsCase ==
  \A r \in Reports : cases[r] # Missing => EventsExplain(cases[r]) /\ RolesExplain(cases[r])

\* One command at a time, and none dies: no two contracts are announced under one revision,
\* and a later one has the greater revision.
RevisionsAnnouncedOnce ==
  Orderly =>
    \A i, j \in DOMAIN announced : i < j => announced[i].revision < announced[j].revision

\* One command at a time, and none dies: between commands the contract announced last is
\* that of the case.
LastContractIsCase ==
  (Orderly /\ Quiet /\ Current # Missing) =>
    announced # <<>> /\ announced[Len(announced)] = Contract(Current)

\* Record, case and the contracts announced of it agree (AdmissionWorkflowMixin,
\* AdmissionCaseService).
StoresAgree == RecordAgreesWithCase /\ RevisionsAnnouncedOnce /\ LastContractIsCase
=============================================================================
