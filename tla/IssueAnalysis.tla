------------------------------ MODULE IssueAnalysis ------------------------------
(***************************************************************************)
(* The verdict whether a target side has regressed from a baseline.        *)
(* AnalysisService groups the issues of the runs of a side by fingerprint, *)
(* and asks IssueFingerprintGovernanceService, whose aliases and           *)
(* suppressions are one file, about every single issue;                    *)
(* ComparisonService aligns the groups of both sides and keeps as many as  *)
(* asked for; RegressionService judges these and the metrics.  Issues are  *)
(* recorded and rules are edited while that goes on.                       *)
(*                                                                         *)
(* An issue is its identity without the template (the rest of its          *)
(* fingerprint); severity is high, which critical counts as, or not.       *)
(***************************************************************************)
EXTENDS Integers, Sequences, FiniteSets, FiniteSetsExt, Functions

CONSTANTS
  Editors,        \* processes that edit the rules
  Hops,           \* 16
  Circumstances   \* dimension, thresholds, limit, metrics; issues and edits to come

VARIABLES
  circumstance,  \* the same throughout
  events,        \* the issues recorded
  registry,      \* fingerprints.json
  command,       \* what each process is at
  left,          \* how many edits there may still be
  analysis       \* the evaluation

vars == <<circumstance, events, registry, command, left, analysis>>

-----------------------------------------------------------------------------
(* Inputs.                                                                 *)

Sides == {"baseline", "target"}
Event == [n : Nat, side : Sides, issue : STRING, template : STRING, run : STRING, device : STRING, high : BOOLEAN]
Fingerprint(e) == [issue |-> e.issue, template |-> e.template]
\* Averages are in hundredths.
Metric == [baseline : Nat, target : Nat, worse : {"higher", "lower"}, enough : BOOLEAN]
Counts == {"occurrences", "runs", "devices", "scenarios"}
Edit == [source : [issue : STRING, template : STRING], kind : {"alias", "suppress", "remove"},
         to : [issue : STRING, template : STRING]]
ConstantsOK ==
  \A c \in Circumstances :
    /\ c.dimension \in {"version", "device", "scenario"}
    /\ c.groups \in Nat /\ c.limit \in Nat \ {0} /\ c.ratio \in Nat
    /\ c.significant \in [Counts -> Nat \ {0}]
    /\ c.metrics \subseteq Metric /\ c.to_come \subseteq Event /\ c.edits \subseteq Edit
    /\ c.editors \subseteq Editors /\ c.changes \in Nat /\ c.deaths \in BOOLEAN

NoRules == [f \in {} |-> 0]
NoAnalysis == [at |-> "idle", todo |-> {}, resolved |-> {}, disturbed |-> FALSE, kept |-> {}, verdict |-> "none"]

Init ==
  /\ circumstance \in Circumstances
  /\ events = {}
  /\ registry = [torn |-> FALSE, rules |-> NoRules]
  /\ command = [p \in Editors |-> [at |-> "idle", rules |-> NoRules]]
  /\ left = circumstance.changes
  /\ analysis = NoAnalysis

Fixed == UNCHANGED circumstance
\* A query that is under way may notice.
Noticed == [analysis EXCEPT !.disturbed = @ \/ analysis.at \in Sides]

\* A run records an issue; a query that has not come to that run, and knows
\* of it, sees the issue too.
NotYetAt(e) == e.side = analysis.at /\ \A r \in analysis.resolved : r.event.side = e.side => r.event.n < e.n
Record(e) ==
  /\ events' = events \cup {e}
  /\ \/ analysis' = Noticed
     \/ NotYetAt(e) /\ analysis' = [Noticed EXCEPT !.todo = @ \cup {e}]
  /\ Fixed /\ UNCHANGED <<registry, command, left>>

-----------------------------------------------------------------------------
(* Rules of the fingerprints.                                              *)

\* A file that cannot be read holds no rules.
Loaded == IF registry.torn THEN NoRules ELSE registry.rules
Command(p, at, rules) == command' = [command EXCEPT ![p] = [at |-> at, rules |-> rules]]
Applied(edit, rules) ==
  IF edit.kind = "remove" THEN [f \in DOMAIN rules \ {edit.source} |-> rules[f]]
  ELSE [f \in DOMAIN rules \cup {edit.source} |->
         IF f = edit.source THEN [kind |-> edit.kind, to |-> edit.to] ELSE rules[f]]
LoadRules(p, edit) ==
  /\ p \in circumstance.editors /\ command[p].at = "idle" /\ left > 0 /\ left' = left - 1
  /\ edit.kind = "alias" => edit.source # edit.to
  /\ edit.kind = "remove" => edit.source \in DOMAIN Loaded
  /\ Command(p, "loaded", Applied(edit, Loaded))
  /\ Fixed /\ UNCHANGED <<events, registry, analysis>>
TruncateRules(p) ==
  /\ command[p].at = "loaded" /\ Command(p, "truncated", command[p].rules)
  /\ registry' = [registry EXCEPT !.torn = TRUE] /\ analysis' = Noticed
  /\ Fixed /\ UNCHANGED <<events, left>>
WriteRules(p) ==
  /\ command[p].at = "truncated" /\ Command(p, "idle", NoRules)
  /\ registry' = [torn |-> FALSE, rules |-> command[p].rules] /\ analysis' = Noticed
  /\ Fixed /\ UNCHANGED <<events, left>>
Die(p) ==
  /\ circumstance.deaths /\ command[p].at # "idle" /\ Command(p, "idle", NoRules)
  /\ Fixed /\ UNCHANGED <<events, registry, left, analysis>>

\* The aliases from f on.
Follow(rules, f) == IF f \in DOMAIN rules /\ rules[f].kind = "alias" THEN rules[f].to ELSE f
Chain(rules, f) == LET it[n \in 0 .. Hops] == IF n = 0 THEN f ELSE Follow(rules, it[n - 1]) IN it
Visited(chain, n) == \E m \in 0 .. n - 1 : chain[m] = chain[n]
Over(rules, chain) ==
  {n \in 0 .. Hops : n = Hops \/ Visited(chain, n) \/ Follow(rules, chain[n]) = chain[n]}
StopsAt(rules, chain) == Min(Over(rules, chain))
\* resolve_fingerprint: where it leads, by which way, and whether it is none.
Resolve(rules, f) ==
  LET chain == Chain(rules, f)
      n == StopsAt(rules, chain)
      hidden == /\ n < Hops /\ ~Visited(chain, n)
                /\ chain[n] \in DOMAIN rules /\ rules[chain[n]].kind = "suppress" IN
  [fp |-> chain[n], via |-> [m \in 1 .. n |-> chain[m - 1]], hidden |-> hidden]

-----------------------------------------------------------------------------
(* Groups of a side, and their comparison.  A resolved issue is a pair.    *)

Shown(resolved, side) == {r \in resolved : r.event.side = side /\ ~r.to.hidden}
Groups(resolved, side) == {r.to.fp : r \in Shown(resolved, side)}
Members(resolved, side, g) == {r \in Shown(resolved, side) : r.to.fp = g}
Number(resolved, side, g) ==
  LET all == {r.event : r \in Members(resolved, side, g)} IN
  [occurrences |-> Cardinality(all), runs |-> Cardinality({e.run : e \in all}),
   devices |-> Cardinality({e.device : e \in all}), scenarios |-> Cardinality({e.template : e \in all})]
High(members) == \E r \in members : r.event.high
\* Between templates groups align by what their first issue is without its
\* template, and by the rules that led it to the group, if any.
\* Mutant: fingerprints of templates are compared as they are.
AlignedPlainly(resolved, side, g) == [fp |-> g, via |-> <<>>]
Aligned(resolved, side, g) ==
  LET members == Members(resolved, side, g)
      first == CHOOSE r \in members : \A q \in members : r.event.n <= q.event.n IN
  IF circumstance.dimension # "scenario" THEN [fp |-> g, via |-> <<>>]
  ELSE [fp |-> [issue |-> first.event.issue, template |-> "any"],
        via |-> IF first.to.via = <<>> THEN <<>> ELSE Append(first.to.via, g)]

\* What a side has under each key.
Table(resolved, side) ==
  LET key == [g \in Groups(resolved, side) |-> Aligned(resolved, side, g)] IN
  [k \in Range(key) |->
    LET g == CHOOSE h \in DOMAIN key : key[h] = k IN
    [number |-> Number(resolved, side, g), high |-> High(Members(resolved, side, g))]]
Absent == [number |-> [c \in Counts |-> 0], high |-> FALSE]
Entry(table, k) == IF k \in DOMAIN table THEN table[k] ELSE Absent
Change(before, after, k) ==
  CASE k \notin DOMAIN before -> "new"
    [] k \notin DOMAIN after -> "gone"
    [] OTHER -> IF before[k].number = after[k].number THEN "unchanged" ELSE "changed"
Compared(resolved) ==
  LET before == Table(resolved, "baseline")
      after == Table(resolved, "target") IN
  {LET x == Entry(before, k).number
       y == Entry(after, k).number IN
   [key |-> k, change |-> Change(before, after, k),
    high |-> IF k \in DOMAIN after THEN after[k].high ELSE before[k].high,
    delta |-> [c \in Counts |-> y[c] - x[c]], most |-> Max({x.occurrences, y.occurrences})] :
   k \in DOMAIN before \cup DOMAIN after}

Priority == [new |-> 4, changed |-> 3, gone |-> 2, unchanged |-> 1]
Size(n) == IF n < 0 THEN -n ELSE n
Outranks(x, y) ==
  \/ Priority[x.change] > Priority[y.change]
  \/ /\ x.change = y.change
     /\ \/ Size(x.delta.occurrences) > Size(y.delta.occurrences)
        \/ Size(x.delta.occurrences) = Size(y.delta.occurrences) /\ x.most > y.most
\* The first of them, as many as asked for; equals are in any order.
Keeps(compared) ==
  {k \in SUBSET compared :
    /\ Cardinality(k) = Min({circumstance.limit, Cardinality(compared)})
    /\ \A x \in k, y \in compared \ k : ~Outranks(y, x)}

-----------------------------------------------------------------------------
(* Judgement.                                                              *)

JudgeIssue(x) ==
  CASE x.change # "changed" -> x.change
    [] \E c \in Counts : x.delta[c] >= circumstance.significant[c] -> "worsened"
    [] \E c \in Counts : x.delta[c] <= -circumstance.significant[c] -> "improved"
    [] OTHER -> "unchanged"
\* 100 times the change, against the threshold; at least 0.01.
JudgeMetric(m) ==
  LET threshold == Max({IF m.baseline = 0 THEN 100 * circumstance.ratio ELSE m.baseline * circumstance.ratio, 100})
      delta == m.target - m.baseline IN
  CASE ~m.enough -> "insufficient_data"
    [] m.enough /\ 100 * Size(delta) < threshold -> "unchanged"
    [] OTHER -> IF (delta > 0) = (m.worse = "higher") THEN "worsened" ELSE "improved"

Rank == [insufficient_data |-> 0, no_obvious_change |-> 1, suspected_regression |-> 2, obvious_regression |-> 3]
Overall(judged, few, metrics) ==
  CASE few /\ "worsened" \in metrics -> "suspected_regression"
    [] few /\ metrics = {"insufficient_data"} -> "insufficient_data"
    [] \E j \in judged : j.result \in {"new", "worsened"} /\ j.high -> "obvious_regression"
    [] "worsened" \in metrics \/ \E j \in judged : j.result \in {"new", "worsened"} -> "suspected_regression"
    [] few -> "insufficient_data"
    [] OTHER -> "no_obvious_change"
Few(resolved) == \E side \in Sides : Cardinality(Groups(resolved, side)) < circumstance.groups
Metrics == {JudgeMetric(m) : m \in circumstance.metrics}
Verdict(kept, resolved) ==
  Overall({[result |-> JudgeIssue(x), high |-> x.high] : x \in kept}, Few(resolved), Metrics)

-----------------------------------------------------------------------------
(* An evaluation: the baseline's issues, then the target's.                *)

Of(side) == {e \in events : e.side = side}
StartAnalysis ==
  /\ analysis.at = "idle"
  /\ analysis' = [NoAnalysis EXCEPT !.at = "baseline", !.todo = Of("baseline")]
  /\ Fixed /\ UNCHANGED <<events, registry, command, left>>
ResolveNext ==
  /\ analysis.at \in Sides
  /\ \E e \in analysis.todo :
       /\ \A d \in analysis.todo : e.n <= d.n
       /\ analysis' = [analysis EXCEPT !.todo = @ \ {e},
                         !.resolved = @ \cup {[event |-> e, to |-> Resolve(Loaded, Fingerprint(e))]}]
  /\ Fixed /\ UNCHANGED <<events, registry, command, left>>
OtherSide ==
  /\ analysis.at = "baseline" /\ analysis.todo = {}
  /\ analysis' = [analysis EXCEPT !.at = "target", !.todo = Of("target")]
  /\ Fixed /\ UNCHANGED <<events, registry, command, left>>
Judge ==
  /\ analysis.at = "target" /\ analysis.todo = {}
  /\ \E kept \in Keeps(Compared(analysis.resolved)) :
       analysis' = [analysis EXCEPT !.at = "done", !.kept = kept, !.verdict = Verdict(kept, analysis.resolved)]
  /\ Fixed /\ UNCHANGED <<events, registry, command, left>>

Next ==
  \/ \E e \in circumstance.to_come \ events : Record(e)
  \/ \E p \in Editors :
       \/ \E edit \in circumstance.edits : LoadRules(p, edit)
       \/ TruncateRules(p) \/ WriteRules(p) \/ Die(p)
  \/ StartAnalysis \/ ResolveNext \/ OtherSide \/ Judge

Spec == Init /\ [][Next]_vars

-----------------------------------------------------------------------------
(* Types.                                                                  *)
TypeOK ==
  /\ ConstantsOK /\ circumstance \in Circumstances
  /\ events \subseteq circumstance.to_come
  /\ registry.torn \in BOOLEAN /\ \A f \in DOMAIN registry.rules : registry.rules[f].kind \in {"alias", "suppress"}
  /\ \A p \in Editors : command[p].at \in {"idle", "loaded", "truncated"}
  /\ left \in 0 .. circumstance.changes
  /\ analysis.at \in {"idle", "done"} \cup Sides /\ analysis.todo \subseteq events
  /\ analysis.verdict \in DOMAIN Rank \cup {"none"} /\ Cardinality(analysis.kept) <= circumstance.limit

\* An alias and what it is an alias of end in one group, or in none, however
\* many aliases and suppressions were made in whatever order; but aliases
\* that form a circle do nothing, and a chain is followed so far only.
Circular(rules, f) == \E n \in 1 .. Hops : Visited(Chain(rules, f), n) /\ Chain(rules, f)[n] # Chain(rules, f)[n - 1]
Long(rules, f) == Follow(rules, Chain(rules, f)[Hops - 1]) # Chain(rules, f)[Hops - 1]
AliasesMeet ==
  \A f \in DOMAIN registry.rules :
    \/ registry.rules[f].kind # "alias" \/ Circular(registry.rules, f) \/ Long(registry.rules, f)
    \/ LET x == Resolve(registry.rules, f)
           y == Resolve(registry.rules, registry.rules[f].to) IN
       x.fp = y.fp /\ x.hidden = y.hidden

\* Between sides with the same issues, and metrics that did not get worse,
\* there is no regression, whatever the rules, unless the file or the issues
\* changed while they were read, or templates are compared and a rule is
\* about one of their fingerprints.
Seen(side) ==
  {[e EXCEPT !.side = "any", !.n = 0, !.template = IF circumstance.dimension = "scenario" THEN "any" ELSE @] :
     e \in Of(side)}
Mirrored == Seen("baseline") = Seen("target")
NoPhantom ==
  analysis.at = "done" /\ ~analysis.disturbed /\ {r.event : r \in analysis.resolved} = events
      /\ Mirrored /\ "worsened" \notin Metrics =>
    \/ Rank[analysis.verdict] < 2
    \/ circumstance.dimension = "scenario" /\ \E r \in analysis.resolved : r.to.hidden \/ r.to.via # <<>>

\* A metric that got worse is in every verdict.
MetricsCount == analysis.at = "done" /\ "worsened" \in Metrics => Rank[analysis.verdict] >= 2

\* A severe new issue is seen, though the list is cut, as long as the new
\* ones are no more than that.
SevereNewIsSeen ==
  analysis.at = "done" /\ ~Few(analysis.resolved) =>
    LET new == {x \in Compared(analysis.resolved) : x.change = "new"} IN
    Cardinality(new) <= circumstance.limit /\ (\E x \in new : x.high) => analysis.verdict = "obvious_regression"

\* One more issue on the target's side gives no better verdict, if nothing is
\* cut, both have enough to compare, and no rule decides what templates align.
All(es) == {[event |-> e, to |-> Resolve(Loaded, Fingerprint(e))] : e \in es}
Complete(resolved) ==
  /\ ~Few(resolved) /\ Cardinality(Compared(resolved)) <= circumstance.limit
  /\ circumstance.dimension = "scenario" => \A r \in resolved : r.to.via = <<>>
MoreIsNotBetter ==
  [][events' # events /\ (\E e \in events' \ events : e.side = "target") =>
       LET before == All(events)
           after == All(events') IN
       Complete(before) /\ Complete(after) =>
         Rank[Verdict(Compared(after), after)] >= Rank[Verdict(Compared(before), before)]]_vars

\* Aliases meet, the same issues are no regression, worse metrics and severe new issues
\* are seen whatever the limit, and one more issue gives no better verdict
\* (IssueFingerprintGovernanceService, RegressionService).
AnalysisSafe == [](AliasesMeet /\ NoPhantom /\ MetricsCount /\ SevereNewIsSeen) /\ MoreIsNotBetter
=============================================================================
