------------------------------- MODULE Baselines -------------------------------
(***************************************************************************)
(* RuleReviewReportService: reports over review snapshots, their           *)
(* comparison, the named baselines (set, promoted under a policy, rolled   *)
(* back) with their history, and the latest audit of each with its         *)
(* versions, index and retention.                                          *)
(*                                                                         *)
(* A command is a process of its own, nothing is locked, and every file is *)
(* written in place: a process that dies in a write leaves it Torn.        *)
(* Revisions are numbered in the order of their time.  The keys of the     *)
(* baselines have directories of their own.                                *)
(***************************************************************************)
EXTENDS Integers, FiniteSetsExt, Sequences

CONSTANTS
  Processes,        \* commands running at the same time
  Keys,             \* names of baselines
  Families,         \* issue families, as numbers
  ChangePriority,   \* of each family
  MaxFamilies,      \* a report shows that many (20)
  MaxVersions,      \* the index keeps that many (_latest_audit_max_versions)
  Circumstances     \* who runs, may one die, reports and snapshots there are, the policy,
                    \* how many reports may be added and revisions made

Torn == <<>>   \* a registry that tells of no baseline
Unset == [report |-> 0, history |-> <<>>]
Decisions == {"pass", "conditional_pass", "fail"}
Statuses == {"added", "removed", "changed", "unchanged"}
\* changed: changed_family_count; families: how often each occurs, 0 if it did not change.
Snapshot == [decision : Decisions, changed : Nat, findings : Nat, families : [Families -> Nat]]

\* config/rule_review_baseline_policy.json, the policy the repository comes with.
FilePolicy == [decisions |-> {"pass", "conditional_pass"}, changed |-> 0, findings |-> 0,
               families |-> 0, statuses |-> {"unchanged", "removed"}]

\* What the constants are.
ConstantsOK ==
  /\ Keys # {} /\ Families \subseteq Nat /\ IsFiniteSet(Families) /\ ChangePriority \in [Families -> Nat]
  /\ MaxFamilies \in Nat /\ MaxVersions \in Nat \ {0}
  /\ \A c \in Circumstances :
       /\ c.processes \subseteq Processes /\ c.deaths \in BOOLEAN
       /\ c.reports \in Seq(SUBSET Snapshot)
       /\ c.snapshots \subseteq Snapshot
       /\ c.policy.decisions \subseteq Decisions /\ c.policy.statuses \subseteq Statuses
       /\ {c.policy.changed, c.policy.findings, c.policy.families} \subseteq Nat
       /\ {c.room, c.revisions} \subseteq Nat

VARIABLES
  circumstance,  \* the same throughout
  reports,       \* the reports, by number: the snapshots each was made from
  registry,      \* baselines.json
  audit,         \* the latest audit of each key: report.json, versions, index.json
  revision,      \* revisions made so far
  command        \* what each process is doing, with what it has read

vars == <<circumstance, reports, registry, audit, revision, command>>

-----------------------------------------------------------------------------
(* Reports and their comparison.                                           *)

Priority(decision) == CASE decision = "fail" -> 3 [] decision = "conditional_pass" -> 2
                        [] decision = "pass" -> 1

\* _high_risk_families: the families of the snapshots,
Naming(report, f) == {s \in report : s.families[f] > 0}
Seen(report) == {f \in Families : Naming(report, f) # {}}

\* and what a report says of each: its FamilySummary.
Weight(report, f) ==
  [decision |-> Max({Priority(s.decision) : s \in Naming(report, f)}),
   count |-> Cardinality(Naming(report, f)),
   occurrences |-> MapThenSumSet(LAMBDA s : s.families[f], Naming(report, f))]

\* A tuple that is greater than another comes first.
Greater(u, v) ==
  \E i \in DOMAIN u : u[i] > v[i] /\ \A j \in 1..(i - 1) : u[j] = v[j]
SortKey(report, f) ==
  LET w == Weight(report, f)
  IN  <<w.decision, ChangePriority[f], w.count, w.occurrences, f>>

\* Only the first MaxFamilies are kept.
Shown(report) ==
  {f \in Seen(report) :
     Cardinality({g \in Seen(report) \ {f} : Greater(SortKey(report, g), SortKey(report, f))})
       < MaxFamilies}

\* _summary, as far as the policy asks.
Changed(report) == MapThenSumSet(LAMBDA s : s.changed, report)
Findings(report) == MapThenSumSet(LAMBDA s : s.findings, report)
Verdicts(report) == {s.decision : s \in report}

\* Mutant: a family is compared by its decision only.
StatusByDecision(left, right, f) ==
  IF f \notin Shown(left) THEN "added"
  ELSE IF f \notin Shown(right) THEN "removed"
  ELSE IF Weight(left, f).decision = Weight(right, f).decision THEN "unchanged" ELSE "changed"

\* _compare_family_summaries.
Status(left, right, f) ==
  IF f \notin Shown(left) THEN "added"
  ELSE IF f \notin Shown(right) THEN "removed"
  ELSE IF Weight(left, f) = Weight(right, f) THEN "unchanged" ELSE "changed"

\* Fifty rows are kept; two reports show forty families at most, so none is cut off.
Rows(left, right, includeUnchanged) ==
  {Status(left, right, f) : f \in Shown(left) \cup Shown(right)}
    \ (IF includeUnchanged THEN {} ELSE {"unchanged"})

\* _evaluate_baseline_promotion.
Acceptable(left, right, policy, includeUnchanged) ==
  /\ Verdicts(right) \subseteq policy.decisions
  /\ Changed(right) - Changed(left) <= policy.changed
  /\ Findings(right) - Findings(left) <= policy.findings
  /\ Cardinality(Shown(right)) - Cardinality(Shown(left)) <= policy.families
  /\ Rows(left, right, includeUnchanged) \subseteq policy.statuses

-----------------------------------------------------------------------------
(* The files.                                                              *)

Numbers == 1..(Len(circumstance.reports) + circumstance.room)
Revisions == 1..circumstance.revisions
\* undo is history: a rollback that named no report.
Entry == [rev : Revisions, report : Numbers, action : {"set", "promote", "rollback"},
          undo : BOOLEAN]
Baseline == {Unset} \cup [report : Numbers, history : Seq(Entry)]
Registry == {Torn} \cup [Keys -> Baseline]
Indexed == [rev : Revisions, action : {"set", "promote", "rollback"}]
\* A torn index reads as an empty one; a torn report.json is about no report, 0.
Audit == [latest : Numbers \cup {0}, versions : SUBSET Revisions, index : SUBSET Indexed]

Idle == [at |-> "idle"]
\* k, report, action, undo: what is asked; registry: as it was read; history: with the
\* new entry; index, gone: what is to be kept and deleted.
Command ==
  {Idle}
  \cup [at : {"promote"}, k : Keys, report : Numbers]
  \cup [at : {"latest", "version", "index", "prune", "keep", "save"}, k : Keys,
        report : Numbers, registry : Registry \ {Torn}, history : Seq(Entry),
        index : SUBSET Indexed, gone : SUBSET Revisions]

Free(p) == p \in circumstance.processes /\ command[p] = Idle
Quiet == \A p \in Processes : command[p] = Idle
Serial == \A p, q \in circumstance.processes : p = q
Become(p, c) == command' = [command EXCEPT ![p] = c]

\* The new entry of the history, and the files still to be written for it.
Proceed(p, k, r, history) ==
  Become(p, [at |-> "latest", k |-> k, report |-> r, registry |-> registry,
             history |-> history, index |-> {}, gone |-> {}])

Init ==
  /\ circumstance \in Circumstances
  /\ reports = circumstance.reports
  /\ registry = [k \in Keys |-> Unset]
  /\ audit = [k \in Keys |-> [latest |-> 0, versions |-> {}, index |-> {}]]
  /\ revision = 0
  /\ command = [p \in Processes |-> Idle]

-----------------------------------------------------------------------------
\* create_report, over some of the snapshots there are.
CreateReport(p) ==
  /\ Free(p) /\ Len(reports) < Len(circumstance.reports) + circumstance.room
  /\ \E S \in (SUBSET circumstance.snapshots) \ {{}} : reports' = Append(reports, S)
  /\ UNCHANGED <<circumstance, registry, audit, revision, command>>

\* set_baseline: a report that is the baseline already adds nothing to the history, but
\* its audit is written again.  A torn registry stops every command.
Set(p, k, r, action) ==
  /\ registry # Torn
  /\ IF registry[k].report = r
       THEN Proceed(p, k, r, registry[k].history) /\ revision' = revision
       ELSE /\ revision < circumstance.revisions
            /\ Proceed(p, k, r, Append(registry[k].history,
                 [rev |-> revision + 1, report |-> r, action |-> action, undo |-> FALSE]))
            /\ revision' = revision + 1
  /\ UNCHANGED <<circumstance, reports, registry, audit>>

SetBaseline(p) ==
  Free(p) /\ \E k \in Keys, r \in DOMAIN reports : Set(p, k, r, "set")

\* promote_baseline: compared with the baseline of the moment, refused or accepted,
PromoteCompare(p) ==
  /\ Free(p) /\ registry # Torn
  /\ \E k \in Keys, r \in DOMAIN reports, all \in BOOLEAN :
       /\ registry[k] # Unset /\ registry[k].report # r
       /\ Acceptable(reports[registry[k].report], reports[r], circumstance.policy, all)
       /\ Become(p, [at |-> "promote", k |-> k, report |-> r])
  /\ UNCHANGED <<circumstance, reports, registry, audit, revision>>

\* and then set, by a call that reads the registry again.
PromoteSet(p) ==
  command[p].at = "promote" /\ Set(p, command[p].k, command[p].report, "promote")

\* Mutant: the oldest report that is not the current one.
TargetOldest(history, current, asked) ==
  LET eligible == {i \in DOMAIN history :
                     history[i].report # current /\ asked \in {0, history[i].report}}
  IN  IF eligible = {} THEN 0 ELSE history[Min(eligible)].report

\* _select_rollback_target: the newest entry with another report, or with the one asked for.
Target(history, current, asked) ==
  LET eligible == {i \in DOMAIN history :
                     history[i].report # current /\ asked \in {0, history[i].report}}
  IN  IF eligible = {} THEN 0 ELSE history[Max(eligible)].report

\* Mutant: it is not noticed that there is nothing to roll back to.
RollbackUnchecked(p) ==
  /\ Free(p) /\ registry # Torn /\ revision < circumstance.revisions
  /\ \E k \in Keys, asked \in {0} \cup DOMAIN reports :
       /\ registry[k] # Unset
       /\ LET r == Target(registry[k].history, registry[k].report, asked)
          IN  Proceed(p, k, r, Append(registry[k].history,
                [rev |-> revision + 1, report |-> r, action |-> "rollback", undo |-> asked = 0]))
  /\ revision' = revision + 1
  /\ UNCHANGED <<circumstance, reports, registry, audit>>

\* rollback_baseline; a rollback is an entry of the history itself.
RollbackBaseline(p) ==
  /\ Free(p) /\ registry # Torn /\ revision < circumstance.revisions
  /\ \E k \in Keys, asked \in {0} \cup DOMAIN reports :
       /\ registry[k] # Unset
       /\ LET r == Target(registry[k].history, registry[k].report, asked)
          IN  /\ r # 0
              /\ Proceed(p, k, r, Append(registry[k].history,
                   [rev |-> revision + 1, report |-> r, action |-> "rollback",
                    undo |-> asked = 0]))
  /\ revision' = revision + 1
  /\ UNCHANGED <<circumstance, reports, registry, audit>>

\* _write_latest_baseline_audit: the audit of the new baseline,
WriteLatest(p) ==
  LET c == command[p] IN
  /\ c.at = "latest"
  /\ audit' = [audit EXCEPT ![c.k].latest = c.report]
  /\ Become(p, [c EXCEPT !.at = "version"])
  /\ UNCHANGED <<circumstance, reports, registry, revision>>

\* a copy of it in the directory of the last revision,
WriteVersion(p) ==
  LET c == command[p] IN
  /\ c.at = "version"
  /\ audit' = [audit EXCEPT ![c.k].versions = @ \cup {c.history[Len(c.history)].rev}]
  /\ Become(p, [c EXCEPT !.at = "index"])
  /\ UNCHANGED <<circumstance, reports, registry, revision>>

\* _apply_latest_audit_retention: the newest, and every promotion and rollback.
Retained(entries) ==
  {e \in entries : \/ Cardinality({f \in entries : f.rev > e.rev}) < MaxVersions
                   \/ e.action \in {"promote", "rollback"}}

\* the index with the last revision in it (a torn one starts again),
ReadIndex(p) ==
  LET c == command[p]
      last == c.history[Len(c.history)]
      entries == {e \in audit[c.k].index : e.rev # last.rev}
                   \cup {[rev |-> last.rev, action |-> last.action]}
  IN  /\ c.at = "index"
      /\ Become(p, [c EXCEPT !.at = "prune", !.index = Retained(entries),
                             !.gone = {e.rev : e \in entries \ Retained(entries)}])
      /\ UNCHANGED <<circumstance, reports, registry, audit, revision>>

\* the directories of what falls out of it,
Prune(p) ==
  LET c == command[p] IN
  /\ c.at = "prune"
  /\ audit' = [audit EXCEPT ![c.k].versions = @ \ c.gone]
  /\ Become(p, [c EXCEPT !.at = "keep"])
  /\ UNCHANGED <<circumstance, reports, registry, revision>>

WriteIndex(p) ==
  LET c == command[p] IN
  /\ c.at = "keep"
  /\ audit' = [audit EXCEPT ![c.k].index = c.index]
  /\ Become(p, [c EXCEPT !.at = "save"])
  /\ UNCHANGED <<circumstance, reports, registry, revision>>

\* and at last the whole registry as it was read, but for this key.
SaveRegistry(p) ==
  LET c == command[p] IN
  /\ c.at = "save"
  /\ registry' = [c.registry EXCEPT ![c.k] = [report |-> c.report, history |-> c.history]]
  /\ Become(p, Idle)
  /\ UNCHANGED <<circumstance, reports, audit, revision>>

\* The process dies before a write, or in the middle of it.
Crash(p) ==
  LET c == command[p] IN
  /\ circumstance.deaths /\ c # Idle
  /\ \/ UNCHANGED <<registry, audit>>
     \/ c.at = "latest" /\ audit' = [audit EXCEPT ![c.k].latest = 0] /\ UNCHANGED registry
     \/ c.at = "keep" /\ audit' = [audit EXCEPT ![c.k].index = {}] /\ UNCHANGED registry
     \/ c.at = "save" /\ registry' = Torn /\ UNCHANGED audit
  /\ Become(p, Idle)
  /\ UNCHANGED <<circumstance, reports, revision>>

Next ==
  \E p \in Processes :
    \/ CreateReport(p) \/ SetBaseline(p) \/ PromoteCompare(p) \/ PromoteSet(p)
    \/ RollbackBaseline(p)
    \/ WriteLatest(p) \/ WriteVersion(p) \/ ReadIndex(p) \/ Prune(p) \/ WriteIndex(p)
    \/ SaveRegistry(p) \/ Crash(p)

Spec == Init /\ [][Next]_vars

-----------------------------------------------------------------------------
(* Properties.                                                             *)

Orderly == Serial /\ ~circumstance.deaths
Known == IF registry = Torn THEN {} ELSE {k \in Keys : registry[k] # Unset}

\* The files hold what they are to hold.
TypeOK ==
  /\ ConstantsOK
  /\ circumstance \in Circumstances
  /\ reports \in Seq(SUBSET Snapshot) /\ Len(reports) <= Len(circumstance.reports) + circumstance.room
  /\ registry \in Registry
  /\ audit \in [Keys -> Audit]
  /\ revision \in 0..circumstance.revisions
  /\ command \in [Processes -> Command]

\* However commands overlap, and wherever one dies: the last entry of a baseline's
\* history is the baseline, and no entry repeats the one before it.
HistoryTellsCurrent ==
  \A k \in Known :
    LET h == registry[k].history
    IN  /\ h # <<>> /\ h[Len(h)].report = registry[k].report
        /\ \A i \in 2..Len(h) : h[i].report # h[i - 1].report

\* However commands overlap, and wherever one dies: a rollback that names no report takes
\* back the entry before it, be that a rollback itself.
RollbackTakesBackOne ==
  \A k \in Known :
    LET h == registry[k].history
    IN  \A i \in DOMAIN h : h[i].undo => i > 2 /\ h[i].report = h[i - 2].report

\* One command at a time, even if one dies: with the policy the repository comes with, a
\* promoted report has no failed snapshot, no more findings than the baseline it
\* replaced, and no family that one did not have, unless there are more than are shown.
PromotionAddsNothing ==
  (Serial /\ circumstance.policy = FilePolicy) =>
    \A k \in Known :
      LET h == registry[k].history
      IN  \A i \in DOMAIN h :
            h[i].action = "promote" =>
              LET new == reports[h[i].report]
                  old == reports[h[i - 1].report]
              IN  /\ "fail" \notin Verdicts(new)
                  /\ Findings(new) - Findings(old) <= 0
                  /\ (Cardinality(Seen(new)) <= MaxFamilies /\ Cardinality(Seen(old)) <= MaxFamilies)
                       => /\ Seen(new) \subseteq Seen(old)
                          /\ \A f \in Seen(new) : Weight(new, f) = Weight(old, f)

\* One command at a time, and none dies: between commands the index of a baseline names
\* its newest revisions and all promotions and rollbacks, those and no other have a
\* directory, and the latest audit is about the baseline.
AuditMatchesRegistry ==
  (Orderly /\ Quiet) =>
    \A k \in Known :
      LET h == registry[k].history
          kept == {i \in DOMAIN h : \/ i > Len(h) - MaxVersions
                                    \/ h[i].action \in {"promote", "rollback"}}
      IN  /\ audit[k].latest = registry[k].report
          /\ audit[k].index = {[rev |-> h[i].rev, action |-> h[i].action] : i \in kept}
          /\ audit[k].versions = {h[i].rev : i \in kept}

\* History, baseline and audit say the same, and a rollback takes back one entry
\* (RuleReviewBaselinesMixin).
HistoryIsSound == HistoryTellsCurrent /\ RollbackTakesBackOne /\ AuditMatchesRegistry
=============================================================================
