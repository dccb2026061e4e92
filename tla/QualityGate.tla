------------------------------ MODULE QualityGate ------------------------------
(***************************************************************************)
(* QualityGateService: what the gate makes of a baseline, from its report, *)
(* the golden suite of its latest audit and a policy with scoped           *)
(* overrides, and the decisions people put in its place.                   *)
(*                                                                         *)
(* A command is a process of its own and nothing is locked.  The latest    *)
(* audit and overrides.json are written in place: one whose writer died    *)
(* reads as missing, and with overrides.json every override does.  The     *)
(* registry of the baselines is saved in one step (Baselines has more).    *)
(***************************************************************************)
EXTENDS Integers, Sequences, FiniteSetsExt

CONSTANTS
  Processes,      \* commands running at the same time
  Keys,           \* names of baselines
  Circumstances   \* who runs, may one die, the reports, the policy, how many commands

VARIABLES
  circumstance,  \* the same throughout
  baseline,      \* of each key: its report, by number, 0 if unset
  audit,         \* of each key: the report its latest audit is about, 0 if none
  overrides,     \* overrides.json
  left,          \* commands still to come
  command        \* what each process is doing, with what it has read

vars == <<circumstance, baseline, audit, overrides, left, command>>

-----------------------------------------------------------------------------
Decisions == {"pass", "conditional_pass", "fail"}
Thresholds == {"review_failures", "golden_suite_failures", "review_warnings",
               "high_risk_families", "review_snapshot_coverage", "golden_suite_coverage",
               "performance_risks"}
\* A report: its decision counts, families, golden suite and performance risks,
\* and what the policy asks of it.
Report == [fails : Nat, warnings : Nat, families : Nat, snapshots : Nat, cases : Nat,
           failedCases : Nat, risks : Nat, package : {"a", "b"}]
NotANumber == -1000
\* QualityGatePolicyOverride: without values it is not one.
Scoped(s) ==
  /\ s.keys \subseteq Keys /\ s.packages \subseteq {"a", "b"}
  /\ DOMAIN s.values # {} /\ DOMAIN s.values \subseteq Thresholds
  /\ \A t \in DOMAIN s.values : s.values[t] \in Int
ConstantsOK ==
  \A c \in Circumstances :
    /\ c.processes \subseteq Processes /\ c.deaths \in BOOLEAN /\ c.commands \in Nat
    /\ c.reports \in Seq(Report) /\ c.policy \in [Thresholds -> Nat]
    /\ Len(c.scoped) \in Nat /\ DOMAIN c.scoped = 1 .. Len(c.scoped)
    /\ \A i \in DOMAIN c.scoped : Scoped(c.scoped[i])

\* The defaults of QualityGatePolicy.
Default(t) == IF t \in {"review_snapshot_coverage", "golden_suite_coverage"} THEN 1 ELSE 0
\* from_mapping: what is no number is the default, not what was configured before.
Accepted(t, v) == IF v = NotANumber THEN Default(t) ELSE IF v < 0 THEN 0 ELSE v

\* _matches.
Matches(k, r, s) == k \in s.keys /\ r.package \in s.packages
\* resolve: a later override replaces what an earlier one says.
Resolve(k, r) ==
  [t \in Thresholds |->
     LET Value[i \in 0 .. Len(circumstance.scoped)] ==
           IF i = 0 THEN circumstance.policy[t]
           ELSE LET s == circumstance.scoped[i]
                IN IF Matches(k, r, s) /\ t \in DOMAIN s.values THEN s.values[t] ELSE Value[i - 1]
     IN Accepted(t, Value[Len(circumstance.scoped)])]

\* decision_on_trigger.
Consequence == [review_failures |-> "fail", golden_suite_failures |-> "fail",
                review_warnings |-> "conditional_pass", high_risk_families |-> "conditional_pass",
                review_snapshot_coverage |-> "conditional_pass",
                golden_suite_coverage |-> "conditional_pass", performance_risks |-> "risk_only"]
\* get_quality_gate, of report r and the golden suite g under policy p.
Triggers(r, g, p) ==
  [review_failures |-> r.fails > p.review_failures,
   golden_suite_failures |-> g.failedCases > p.golden_suite_failures,
   review_warnings |-> r.fails <= p.review_failures /\ r.warnings > p.review_warnings,
   high_risk_families |-> r.families > p.high_risk_families,
   review_snapshot_coverage |-> r.snapshots < p.review_snapshot_coverage,
   golden_suite_coverage |-> g.cases < p.golden_suite_coverage,
   performance_risks |-> r.risks > p.performance_risks]

Priority == [pass |-> 0, conditional_pass |-> 1, fail |-> 2]
\* _automatic_decision.
Worst(ds) == CHOOSE d \in ds : \A e \in ds : Priority[e] <= Priority[d]
Judged(r, g, p) ==
  LET triggered == {t \in Thresholds : Triggers(r, g, p)[t]}
  IN Worst({"pass"} \cup ({Consequence[t] : t \in triggered} \ {"risk_only"}))

\* _resolve_golden_suite: that of the latest audit, whatever report it is about.
GoldenSuite(k) == circumstance.reports[IF audit[k] # 0 THEN audit[k] ELSE baseline[k]]
Automatic(k) ==
  LET r == circumstance.reports[baseline[k]] IN Judged(r, GoldenSuite(k), Resolve(k, r))

-----------------------------------------------------------------------------
(* Files and commands.                                                     *)

Nothing == [decision |-> "none", automatic |-> "none"]
Override == {Nothing} \cup [decision : Decisions, automatic : Decisions]
None == [k \in Keys |-> Nothing]
Idle == [at |-> "idle"]
Command ==
  {Idle}
  \cup [at : {"audit", "save"}, key : Keys, report : Nat \ {0}]
  \cup [at : {"load"}, key : Keys, override : Override]
  \cup [at : {"write"}, key : Keys, override : Override, registry : [Keys -> Override]]

Init ==
  /\ circumstance \in Circumstances
  /\ baseline = [k \in Keys |-> 0] /\ audit = [k \in Keys |-> 0]
  /\ overrides = None
  /\ left = circumstance.commands
  /\ command = [p \in Processes |-> Idle]

Become(p, c) == command' = [command EXCEPT ![p] = c]
Free(p) == p \in circumstance.processes /\ command[p] = Idle /\ left > 0
Quiet == \A p \in Processes : command[p] = Idle
Orderly == (\A p, q \in circumstance.processes : p = q) /\ ~circumstance.deaths

\* set_baseline: the latest audit is written,
SetBaseline(p) ==
  /\ Free(p) /\ left' = left - 1
  /\ \E k \in Keys : \E r \in DOMAIN circumstance.reports \ {baseline[k]} :
       Become(p, [at |-> "audit", key |-> k, report |-> r])
  /\ UNCHANGED <<circumstance, baseline, audit, overrides>>
WriteAudit(p) ==
  LET c == command[p] IN
  /\ c.at = "audit"
  /\ audit' = [audit EXCEPT ![c.key] = c.report]
  /\ Become(p, [c EXCEPT !.at = "save"])
  /\ UNCHANGED <<circumstance, baseline, overrides, left>>
\* then the registry.
SaveBaseline(p) ==
  LET c == command[p] IN
  /\ c.at = "save"
  /\ baseline' = [baseline EXCEPT ![c.key] = c.report]
  /\ Become(p, Idle)
  /\ UNCHANGED <<circumstance, audit, overrides, left>>

\* record_override takes the automatic decision down,
RecordOverride(p) ==
  /\ Free(p) /\ left' = left - 1
  /\ \E k \in {k \in Keys : baseline[k] # 0} : \E d \in Decisions :
       Become(p, [at |-> "load", key |-> k, override |-> [decision |-> d, automatic |-> Automatic(k)]])
  /\ UNCHANGED <<circumstance, baseline, audit, overrides>>
\* reads the file,
LoadOverrides(p) ==
  LET c == command[p] IN
  /\ c.at = "load"
  /\ Become(p, [at |-> "write", key |-> c.key, override |-> c.override, registry |-> overrides])
  /\ UNCHANGED <<circumstance, baseline, audit, overrides, left>>
\* Mutant: the file keeps no other override.
WithAlone(c) == [k \in Keys |-> IF k = c.key THEN c.override ELSE Nothing]
With(c) == [c.registry EXCEPT ![c.key] = c.override]
\* and writes it whole.
WriteOverrides(p) ==
  LET c == command[p] IN
  /\ c.at = "write"
  /\ overrides' = With(c)
  /\ Become(p, Idle)
  /\ UNCHANGED <<circumstance, baseline, audit, left>>

\* A process that dies in a write tears the file.
Die(p) ==
  /\ circumstance.deaths /\ command[p] # Idle
  /\ \/ UNCHANGED <<audit, overrides>>
     \/ command[p].at = "audit" /\ audit' = [audit EXCEPT ![command[p].key] = 0] /\ UNCHANGED overrides
     \/ command[p].at = "write" /\ overrides' = None /\ UNCHANGED audit
  /\ Become(p, Idle)
  /\ UNCHANGED <<circumstance, baseline, left>>

Next ==
  \E p \in Processes :
    \/ SetBaseline(p) \/ WriteAudit(p) \/ SaveBaseline(p)
    \/ RecordOverride(p) \/ LoadOverrides(p) \/ WriteOverrides(p)
    \/ Die(p)
Spec == Init /\ [][Next]_vars

-----------------------------------------------------------------------------
(* Types.                                                                  *)
TypeOK ==
  /\ ConstantsOK /\ circumstance \in Circumstances
  /\ LET numbers == {0} \cup DOMAIN circumstance.reports
     IN baseline \in [Keys -> numbers] /\ audit \in [Keys -> numbers]
  /\ overrides \in [Keys -> Override]
  /\ left \in 0 .. circumstance.commands
  /\ command \in [Processes -> Command]

\* More of what the gate looks at, and less of what covers it.
AtLeastAsBad(s, r) ==
  /\ s.fails >= r.fails /\ s.warnings >= r.warnings /\ s.families >= r.families
  /\ s.failedCases >= r.failedCases /\ s.snapshots <= r.snapshots /\ s.cases <= r.cases
  /\ s.package = r.package

\* A baseline that moves to a report at least as bad in everything that decides
\* gets no better decision, though failures silence the rule on warnings; with
\* two reports that differ in performance risks alone the decision stays, for
\* those advise only.
WorseIsNeverBetter ==
  [][\A k \in Keys :
       baseline[k] \notin {0, baseline'[k]} /\ audit'[k] = baseline'[k] /\ Orderly =>
         LET r == circumstance.reports[baseline[k]]
             s == circumstance.reports[baseline'[k]]
         IN AtLeastAsBad(s, r) => Priority[Automatic(k)'] >= Priority[Judged(r, r, Resolve(k, r))]]_vars

\* With nobody else at work the decision is that of the baseline's own report,
\* its golden suite included, against thresholds of which each is that of the
\* last override that speaks of it, else that of the policy.
DecidesOnOwnReport ==
  Orderly /\ Quiet =>
    \A k \in Keys : baseline[k] # 0 =>
      LET r == circumstance.reports[baseline[k]]
          Says(t) == {i \in DOMAIN circumstance.scoped :
                        Matches(k, r, circumstance.scoped[i]) /\ t \in DOMAIN circumstance.scoped[i].values}
          At(t) == IF Says(t) = {} THEN circumstance.policy[t]
                   ELSE Accepted(t, circumstance.scoped[Max(Says(t))].values[t])
      IN Automatic(k) =
           IF r.fails > At("review_failures") \/ r.failedCases > At("golden_suite_failures") THEN "fail"
           ELSE IF \/ r.warnings > At("review_warnings") \/ r.families > At("high_risk_families")
                   \/ r.snapshots < At("review_snapshot_coverage") \/ r.cases < At("golden_suite_coverage")
           THEN "conditional_pass" ELSE "pass"

\* An override stands until somebody records another for the same baseline: the
\* file that holds all of them is rewritten for each.
OverrideStands ==
  [][\A k \in Keys :
       Orderly /\ overrides[k] # Nothing /\ overrides'[k] # overrides[k] =>
         \E p \in Processes : command[p].at = "write" /\ command[p].key = k]_vars

\* The gate decides on the report of its baseline, no better on a worse one, and by the
\* override given last (get_quality_gate).
GateSafe == []DecidesOnOwnReport /\ WorseIsNeverBetter /\ OverrideStands
=============================================================================
