------------------------------ MODULE MCGovernance ------------------------------
(* Small circumstances for each of the records.  Those that do not move    *)
(* start in one state only.                                                *)
EXTENDS Governance

-----------------------------------------------------------------------------
(* Rules.                                                                  *)

Team == [a \in Actors |-> IF a = "cli" THEN "admin" ELSE "reviewer"]
Unbound == [a \in Actors |-> Nobody]
All(v) == [f \in Fields |-> v]
RuleCase(who, dies, bound, n, source, c, v) ==
  [processes |-> who, deaths |-> dies, bound |-> bound, binds |-> n, source |-> source,
   room |-> c, publications |-> v]
AllCircumstances ==
  {RuleCase({1}, FALSE, Team, 0, s, 2, 3) : s \in {Empty, All("a"), All("bad")}}
  \cup {RuleCase({1}, FALSE, Unbound, 1, Empty, 1, 2), RuleCase({1}, TRUE, Team, 0, All("a"), 1, 2),
        RuleCase({1, 2}, FALSE, Team, 0, All("a"), 1, 2)}
RulesAside == Init /\ circumstance = RuleCase({1}, FALSE, Unbound, 1, Empty, 1, 2)

-----------------------------------------------------------------------------
(* Baselines.                                                              *)

Snap(d, n, m, fs) == [decision |-> d, changed |-> n, findings |-> m, families |-> fs]
Plain == Snap("pass", 1, 1, <<1, 0, 0>>)
Worse == Snap("conditional_pass", 1, 1, <<1, 0, 0>>)
Wide == Snap("pass", 2, 1, <<1, 1, 0>>)
Widest == Snap("pass", 2, 1, <<1, 1, 2>>)
Clean == Snap("pass", 0, 0, <<0, 0, 0>>)
Failed == Snap("fail", 0, 0, <<0, 0, 0>>)
Priorities == <<1, 1, 2>>
\* Baselines!FilePolicy, whose module takes its circumstances from here.
Shipped == [decisions |-> {"pass", "conditional_pass"}, changed |-> 0, findings |-> 0,
            families |-> 0, statuses |-> {"unchanged", "removed"}]
BaselineCase(who, dies, rs, ss, c, n) ==
  [processes |-> who, deaths |-> dies, reports |-> rs, snapshots |-> ss, policy |-> Shipped,
   room |-> c, revisions |-> n]
BaselineCases ==
  {BaselineCase({1}, FALSE, <<{Plain}, {Clean}, {Plain, Clean}>>, {}, 0, 5),
   BaselineCase({1}, FALSE, <<{Wide}, {Widest}>>, {Worse, Wide, Plain, Failed}, 1, 2),
   BaselineCase({1}, TRUE, <<{Wide}, {Clean}>>, {}, 0, 3),
   BaselineCase({1, 2}, FALSE, <<{Plain}, {Clean}>>, {}, 0, 3)}
BaselinesAside ==
  Baselines!Init /\ bCircumstance = BaselineCase({1}, TRUE, <<{Wide}, {Clean}>>, {}, 0, 3)

-----------------------------------------------------------------------------
(* Admission cases.                                                        *)

AdmissionStates == {"new", "assigned", "reviewing", "pending_confirmation",
                    "approved_with_risk", "approved", "rejected"}
AdmissionCase(who, dies, m, o, states, n) ==
  [processes |-> who, deaths |-> dies, moves |-> m, overrides |-> o, asked |-> states, room |-> n]
Automatics == <<"pass", "fail">>
CasesOfAdmission ==
  {AdmissionCase({1}, FALSE, 1, 0, {"reviewing", "approved"}, 4),
   AdmissionCase({1}, FALSE, 1, 1, {"reviewing"}, 3),
   AdmissionCase({1}, FALSE, 0, 0, AdmissionStates, 3),
   AdmissionCase({1}, TRUE, 0, 0, {"approved"}, 2),
   AdmissionCase({1}, TRUE, 1, 0, {"reviewing"}, 1),
   AdmissionCase({1, 2}, FALSE, 0, 0, {"reviewing"}, 1)}
AdmissionsAside ==
  Admissions!Init /\ aCircumstance = AdmissionCase({1}, TRUE, 0, 0, {"approved"}, 2)

-----------------------------------------------------------------------------
(* Sessions and issues.                                                    *)

IssueActions == {"assign", "comment", "transition", "defect_create", "defect_link", "defect_sync"}
CollaborationCase(who, dies, what, t, k, n) ==
  [processes |-> who, deaths |-> dies, asked |-> what, time |-> t, tokens |-> k, events |-> n]
RoleOf == [t |-> "tester", d |-> "developer"]
CollaborationCases ==
  {CollaborationCase({1}, FALSE, {"renew", "revoke", "sign", "comment"}, 3, 2, 1),
   CollaborationCase({1}, FALSE, IssueActions, 0, 0, 3),
   CollaborationCase({1, 2}, FALSE, {"transition", "defect_link"}, 0, 0, 2),
   CollaborationCase({1}, TRUE, IssueActions, 0, 0, 2),
   CollaborationCase({1, 2}, TRUE, {"renew", "revoke"}, 1, 1, 0)}
CollaborationsAside ==
  Collaborations!Init /\ cCircumstance = CollaborationCase({1}, TRUE, IssueActions, 0, 0, 2)

-----------------------------------------------------------------------------
(* The golden suite.  Two titles that normalise to one text, with raw      *)
(* keys or without, an issue of another kind, and one no rule regroups.    *)

SuiteIssue(n, kind, title, text, raw) ==
  [n |-> n, kind |-> kind, part |-> "p", title |-> title, text |-> text, raw |-> raw]
SuiteIssues ==
  {SuiteIssue(1, "crash", "T", "t", ""), SuiteIssue(2, "crash", "t", "t", "x"),
   SuiteIssue(3, "crash", "T", "t", "y"), SuiteIssue(4, "anr", "A", "a", "x"),
   SuiteIssue(5, "crash", "U", "u", "")}
AskFor(numbers, kind, limit) == [numbers |-> numbers, kind |-> kind, limit |-> limit]
KeepRaw == [ignored |-> {}]
IgnoreRaw == [ignored |-> {"crash"}]
SuiteCase(who, dies, asks, rs, ids, picks, edits, es, n) ==
  [processes |-> who, deaths |-> dies, issues |-> SuiteIssues, asks |-> asks,
   rules |-> [default |-> KeepRaw, candidate |-> IgnoreRaw], changes |-> rs,
   ids |-> ids, picks |-> picks, edits |-> edits, expects |-> es, commands |-> n]
SuiteCases ==
  {SuiteCase({1}, FALSE, {AskFor(s, "crash", l) : s \in SUBSET (1 .. 5), l \in 0 .. 2},
             {KeepRaw, IgnoreRaw}, {"a"}, {}, {}, BOOLEAN, 2),
   SuiteCase({1}, FALSE, {AskFor({1, 2}, "", 0), AskFor({3}, "", 0)},
             {}, {"a", "b"}, {{"b"}}, {"expected", "id"}, {FALSE}, 4),
   SuiteCase({1, 2}, TRUE, {AskFor({}, "crash", 0)}, {}, {"a", "b"}, {{"a"}}, {"expected"}, {FALSE}, 3)}
SuitesAside ==
  /\ Suites!Init
  /\ sCircumstance = SuiteCase({1, 2}, TRUE, {AskFor({}, "crash", 0)}, {}, {"a", "b"}, {{"a"}}, {"expected"}, {FALSE}, 3)

-----------------------------------------------------------------------------
MCInit ==
  /\ focus \in {"rules", "baselines", "admissions", "collaborations", "suites"}
  /\ IF focus = "rules" THEN Init ELSE RulesAside
  /\ IF focus = "baselines" THEN Baselines!Init ELSE BaselinesAside
  /\ IF focus = "admissions" THEN Admissions!Init ELSE AdmissionsAside
  /\ IF focus = "collaborations" THEN Collaborations!Init ELSE CollaborationsAside
  /\ IF focus = "suites" THEN Suites!Init ELSE SuitesAside

MCSpec == MCInit /\ [][AllNext]_allVars
=============================================================================
