------------------------------ MODULE GoldenSuite ------------------------------
(***************************************************************************)
(* What a change of the analysis rules would do to known issues.           *)
(* RuleReplayService groups one set of issues under two rule files and     *)
(* names how each family changed; RuleReplayGoldenDraftService makes a     *)
(* case of the issues of a run, both rule files and what their replay      *)
(* says; a person edits the draft; RuleReplayGoldenPromotionService merges *)
(* its cases into the golden suite after RuleReplayAcceptanceService has   *)
(* replayed them.                                                          *)
(*                                                                         *)
(* An issue has a title and the text it is normalised to; part is the      *)
(* package, the process and the scenario; n is the order of a run.         *)
(***************************************************************************)
EXTENDS Integers, Sequences, FiniteSets, FiniteSetsExt, Functions

CONSTANTS
  Processes,      \* commands running at the same time
  Circumstances   \* the issues of the run, what is asked of it, which edits and deaths there are

VARIABLES
  circumstance,  \* the same throughout
  rules,         \* the rule files
  draft,         \* the file drafts are written to
  target,        \* the golden suite
  command,       \* what each process is doing, with what it has read
  left,          \* how many commands, edits and changes of rules there may still be
  promoted       \* history: the case last promoted under each id

vars == <<circumstance, rules, draft, target, command, left, promoted>>

-----------------------------------------------------------------------------
(* Inputs.                                                                 *)

Issue == [n : Nat, kind : STRING, part : STRING, title : STRING, text : STRING, raw : STRING]
Rule == [ignored : SUBSET {"crash", "anr"}]  \* ignore_raw_key_issue_types
RuleFiles == {"default", "candidate"}
Ask == [numbers : SUBSET Nat, kind : STRING, limit : Nat]
ConstantsOK ==
  \A c \in Circumstances :
    /\ c.processes \subseteq Processes /\ c.deaths \in BOOLEAN
    /\ c.issues \subseteq Issue /\ c.asks \subseteq Ask
    /\ c.rules \in [RuleFiles -> Rule] /\ c.changes \subseteq Rule
    /\ c.ids \subseteq STRING /\ c.picks \subseteq SUBSET c.ids
    /\ c.edits \subseteq {"id", "expected"} /\ c.commands \in Nat /\ c.expects \subseteq BOOLEAN

Serial == \A p, q \in circumstance.processes : p = q
Absent == [state |-> "absent", cases |-> <<>>]
Torn == [state |-> "torn", cases |-> <<>>]
Whole(cases) == [state |-> "whole", cases |-> cases]
Idle == [at |-> "idle", what |-> "", case |-> {}, base |-> {}, file |-> "", id |-> "", add |-> FALSE,
         cases |-> <<>>, replace |-> FALSE]

-----------------------------------------------------------------------------
(* Replay.                                                                 *)

\* build_fingerprint: the issue type, the normalised texts, and the raw key if it counts.
Fingerprint(i, rule) ==
  [kind |-> i.kind, part |-> i.part, text |-> i.text, raw |-> IF i.kind \in rule.ignored THEN "" ELSE i.raw]
\* The most common title, the first seen of equally common ones.
Title(group) ==
  LET count == [t \in {i.title : i \in group} |-> Cardinality({i \in group : i.title = t})]
      seen(t) == Min({i.n : i \in {j \in group : j.title = t}}) IN
  CHOOSE t \in DOMAIN count : \A u \in DOMAIN count \ {t} :
    count[t] > count[u] \/ (count[t] = count[u] /\ seen(t) < seen(u))
Family(group) == LET i == CHOOSE j \in group : TRUE IN [kind |-> i.kind, part |-> i.part, title |-> Title(group)]
\* query_aggregated_issues: the issues under each fingerprint.
Groups(issues, rule) ==
  [f \in {Fingerprint(i, rule) : i \in issues} |-> {i \in issues : Fingerprint(i, rule) = f}]
\* _family_map: the fingerprints of each family.
FamilyMap(groups) ==
  LET family == [f \in DOMAIN groups |-> Family(groups[f])] IN
  [k \in Range(family) |-> {f \in DOMAIN family : family[f] = k}]
Of(families, k) == IF k \in DOMAIN families THEN families[k] ELSE {}
Occurrences(groups, fs) == MapThenSumSet(LAMBDA f : Cardinality(groups[f]), fs)

ChangeTypes == {"added", "removed", "regrouped", "fingerprint_changed", "count_changed", "unchanged"}
\* What became of the family whose fingerprints were olds and are news.
ChangeType(before, after, olds, news) ==
  CASE olds = {} -> "added"
    [] olds # {} /\ news = {} -> "removed"
    [] OTHER -> IF Cardinality(olds) # Cardinality(news) THEN "regrouped"
                ELSE IF olds # news THEN "fingerprint_changed"
                ELSE IF Occurrences(before, olds) # Occurrences(after, news) THEN "count_changed"
                ELSE "unchanged"
\* _compare_families.
Compare(issues, pair) ==
  LET before == Groups(issues, pair[1])
      after == Groups(issues, pair[2])
      lefts == FamilyMap(before)
      rights == FamilyMap(after) IN
  [k \in DOMAIN lefts \cup DOMAIN rights |-> ChangeType(before, after, Of(lefts, k), Of(rights, k))]
\* replay_top_issues, as far as a suite looks at it: the summary counts only what is included.
Replay(issues, pair, unchangedToo) ==
  LET change == Compare(issues, pair)
      number(t) == Cardinality({k \in DOMAIN change : change[k] = t}) IN
  [families |-> Cardinality(DOMAIN change),
   changed |-> Cardinality({k \in DOMAIN change : change[k] # "unchanged"}),
   summary |-> [t \in ChangeTypes |-> IF t = "unchanged" /\ ~unchangedToo THEN 0 ELSE number(t)]]
\* _run_case: the replay of the issues and the rules a case holds,
Replayed(c) == Replay(c.issues, c.rules, c.unchangedToo)
\* and _validate_result: whether it is as expected.
Passes(c) == Replayed(c) = c.expected

-----------------------------------------------------------------------------
(* Drafts.                                                                 *)

\* _select_issues: the issues asked for, or the first of a kind; 0 is no limit.
Selected(ask) ==
  IF ask.numbers # {} THEN {i \in circumstance.issues : i.n \in ask.numbers}
  ELSE LET all == {i \in circumstance.issues : i.kind = ask.kind} IN
       {i \in all : ask.limit = 0 \/ Cardinality({j \in all : j.n < i.n}) < ask.limit}
Found(ask) == \A n \in ask.numbers : \E i \in circumstance.issues : i.n = n
Kinds(issues) == {i.kind : i \in issues}

\* _should_include_unchanged; who drafts may expect "unchanged" of a case without any.
IncludeUnchanged(expectsIt, expected) == expectsIt \/ expected.summary["unchanged"] > 0

\* _build_replay_preview: the replay of the selected issues alone.
Preview(issues, pair) == Replay(issues, pair, TRUE)
Case(id, issues, pair, expectsIt) ==
  LET preview == Preview(issues, pair) IN
  [id |-> id, issues |-> issues, rules |-> pair, unchangedToo |-> IncludeUnchanged(expectsIt, preview), expected |-> preview]

-----------------------------------------------------------------------------
(* Steps.                                                                  *)

Init ==
  /\ circumstance \in Circumstances
  /\ rules = circumstance.rules
  /\ draft = Absent /\ target = Absent
  /\ command = [p \in Processes |-> Idle]
  /\ left = circumstance.commands
  /\ promoted = [id \in {} |-> 0]

Free(p) == p \in circumstance.processes /\ command[p] = Idle /\ left > 0
Goes(p, c) == command' = [command EXCEPT ![p] = c]
Fixed == UNCHANGED circumstance

\* Rules are edited, or published, while commands run.
ChangeRules(file, rule) ==
  /\ left > 0 /\ left' = left - 1 /\ rules[file] # rule
  /\ rules' = [rules EXCEPT ![file] = rule]
  /\ Fixed /\ UNCHANGED <<draft, target, command, promoted>>

\* create_draft: the issues and the baseline rules are read,
DraftIssues(p, ask, id, file, add) ==
  /\ Free(p) /\ left' = left - 1
  /\ Found(ask) /\ Cardinality(Kinds(Selected(ask))) = 1
  /\ Goes(p, [Idle EXCEPT !.at = "rules", !.what = "draft", !.case = Selected(ask), !.base = {rules["default"]},
                          !.file = file, !.id = id, !.add = add])
  /\ Fixed /\ UNCHANGED <<rules, draft, target, promoted>>
\* the candidate's, by default the same file again, and replayed;
DraftRules(p) ==
  /\ command[p].at = "rules"
  /\ LET base == CHOOSE r \in command[p].base : TRUE IN
     \E expectsIt \in circumstance.expects :
       Goes(p, [command[p] EXCEPT
                  !.at = "drafted", !.base = {},
                  !.case = {Case(command[p].id, command[p].case, <<base, rules[command[p].file]>>, expectsIt)}])
  /\ Fixed /\ UNCHANGED <<rules, draft, target, left, promoted>>
\* what is in the output is kept if asked for, but for a case of that id.
Others(cases, ids) == SelectSeq(cases, LAMBDA c : c.id \notin ids)
DraftLoad(p) ==
  /\ command[p].at = "drafted"
  /\ LET c == CHOOSE x \in command[p].case : TRUE
         kept == IF command[p].add THEN draft.cases ELSE <<>> IN
     IF command[p].add /\ draft = Torn THEN Goes(p, Idle)
     ELSE Goes(p, [command[p] EXCEPT !.at = "save", !.case = {}, !.cases = Append(Others(kept, {c.id}), c)])
  /\ Fixed /\ UNCHANGED <<rules, draft, target, left, promoted>>

\* A person edits a case of the draft.
EditId(n, id) ==
  /\ left > 0 /\ left' = left - 1 /\ "id" \in circumstance.edits
  /\ n \in DOMAIN draft.cases /\ draft.cases[n].id # id
  /\ draft' = [draft EXCEPT !.cases[n].id = id]
  /\ Fixed /\ UNCHANGED <<rules, target, command, promoted>>
EditExpected(n) ==
  /\ left > 0 /\ left' = left - 1 /\ "expected" \in circumstance.edits
  /\ n \in DOMAIN draft.cases
  /\ draft' = [draft EXCEPT !.cases[n].expected.families = @ + 1]
  /\ Fixed /\ UNCHANGED <<rules, target, command, promoted>>

\* promote: the cases picked from the draft, all if none is named,
Ids(cases) == {cases[n].id : n \in DOMAIN cases}
Picked(cases, pick) == IF pick = {} THEN cases ELSE SelectSeq(cases, LAMBDA c : c.id \in pick)
Duplicates(cases) == Cardinality(Ids(cases)) < Len(cases)
PromoteLoad(p, pick, replace) ==
  /\ Free(p) /\ left' = left - 1
  /\ Picked(draft.cases, pick) # <<>> /\ ~Duplicates(Picked(draft.cases, pick))
  /\ Goes(p, [Idle EXCEPT !.at = "merge", !.what = "target", !.cases = Picked(draft.cases, pick), !.replace = replace])
  /\ Fixed /\ UNCHANGED <<rules, draft, target, promoted>>
\* are merged into the suite,
Conflicts(cases) == Ids(target.cases) \cap Ids(cases) # {}
Merged(cases) == Others(target.cases, Ids(cases)) \o cases
\* replayed by their ids (an empty id names none, and no id names all),
\* Mutant: acceptance ends with the first.
AcceptedFirst(merged, ids) == \A n \in DOMAIN merged : merged[n].id \in ids /\ n = 1 => Passes(merged[n])
Accepted(merged, ids) ==
  LET named == ids \ {""} IN
  \A n \in DOMAIN merged : named = {} \/ merged[n].id \in named => Passes(merged[n])
Promotable(cases, replace) ==
  target # Torn /\ (Conflicts(cases) => replace) /\ Accepted(Merged(cases), Ids(cases))
PromoteMerge(p) ==
  /\ command[p].at = "merge"
  /\ IF Promotable(command[p].cases, command[p].replace)
     THEN Goes(p, [command[p] EXCEPT !.at = "save", !.cases = Merged(command[p].cases)])
     ELSE Goes(p, Idle)
  /\ Fixed /\ UNCHANGED <<rules, draft, target, left, promoted>>

\* and written in place.
Put(what, file) ==
  IF what = "draft" THEN draft' = file /\ UNCHANGED target ELSE target' = file /\ UNCHANGED draft
Truncate(p) ==
  /\ command[p].at = "save" /\ Put(command[p].what, Torn)
  /\ Goes(p, [command[p] EXCEPT !.at = "write"])
  /\ Fixed /\ UNCHANGED <<rules, left, promoted>>
Noted(cases) ==
  [id \in DOMAIN promoted \cup Ids(cases) |->
    IF id \in Ids(cases) THEN cases[CHOOSE n \in DOMAIN cases : cases[n].id = id] ELSE promoted[id]]
Write(p) ==
  /\ command[p].at = "write" /\ Put(command[p].what, Whole(command[p].cases))
  /\ promoted' = IF command[p].what = "target" THEN Noted(command[p].cases) ELSE promoted
  /\ Goes(p, Idle)
  /\ Fixed /\ UNCHANGED <<rules, left>>
Die(p) ==
  /\ circumstance.deaths /\ command[p] # Idle /\ Goes(p, Idle)
  /\ Fixed /\ UNCHANGED <<rules, draft, target, left, promoted>>

Next ==
  \/ \E f \in RuleFiles, r \in circumstance.changes : ChangeRules(f, r)
  \/ \E n \in 1 .. 2, id \in circumstance.ids \cup {""} : EditId(n, id)
  \/ \E n \in 1 .. 2 : EditExpected(n)
  \/ \E p \in Processes :
       \/ \E ask \in circumstance.asks, id \in circumstance.ids, f \in RuleFiles, add \in BOOLEAN :
            DraftIssues(p, ask, id, f, add)
       \/ DraftRules(p) \/ DraftLoad(p)
       \/ \E pick \in circumstance.picks \cup {{}}, replace \in BOOLEAN : PromoteLoad(p, pick, replace)
       \/ PromoteMerge(p) \/ Truncate(p) \/ Write(p) \/ Die(p)
Spec == Init /\ [][Next]_vars

-----------------------------------------------------------------------------
(* Properties.                                                             *)

IsCase(c) ==
  /\ c.issues \subseteq circumstance.issues /\ c.id \in circumstance.ids \cup {""}
  /\ c.rules \in Rule \X Rule /\ c.unchangedToo \in BOOLEAN
IsFile(f) == (f.state # "whole" => f \in {Absent, Torn}) /\ \A n \in DOMAIN f.cases : IsCase(f.cases[n])

\* Types, and that a file that is not whole holds no case.
TypeOK ==
  /\ ConstantsOK /\ circumstance \in Circumstances
  /\ rules \in [RuleFiles -> Rule] /\ IsFile(draft) /\ IsFile(target)
  /\ \A p \in Processes :
       /\ command[p].at \in {"idle", "rules", "drafted", "merge", "save", "write"}
       /\ command[p].at = "drafted" => \A c \in command[p].case : IsCase(c)
       /\ \A n \in DOMAIN command[p].cases : IsCase(command[p].cases[n])
  /\ left \in 0 .. circumstance.commands
  /\ \A id \in DOMAIN promoted : IsCase(promoted[id])

Drafted == UNION {command[p].case : p \in {q \in Processes : command[q].at = "drafted"}}

\* A case passes as it is drafted: what was previewed with the unchanged
\* families is what acceptance finds, with or without them, whichever rules
\* the files held when each was read (create_draft, _verify_case).
DraftPasses == \A c \in Drafted : Passes(c)

\* A family reported unchanged has the same issues in the same groups under
\* both rules, although groups, fingerprints and occurrences are only counted
\* and titles choose the family (_change_type, _family_key).
UnchangedMeansSame ==
  \A c \in Drafted :
    LET before == Groups(c.issues, c.rules[1])
        after == Groups(c.issues, c.rules[2])
        change == Compare(c.issues, c.rules)
        groups(of, k) == {of[f] : f \in Of(FamilyMap(of), k)} IN
    \A k \in DOMAIN change : change[k] = "unchanged" => groups(before, k) = groups(after, k)

\* A suite that only promotions write passes, however they overlap, die, and
\* whatever was edited in the drafts; but for cases without an id, which are
\* accepted unseen when others have one (_verify_promoted_cases).
SuitePasses == \A n \in DOMAIN target.cases : target.cases[n].id # "" => Passes(target.cases[n])

\* One promotion at a time: the suite holds the case last promoted under each
\* id and no other (promote merges, replaces and writes the whole file).
SuiteIsPromoted ==
  Serial /\ target.state = "whole" =>
    /\ Range(target.cases) = Range(promoted)
    /\ ~Duplicates(target.cases)

\* One promotion at a time: a case of the suite is replaced only by a promotion
\* that was told to (replace_existing).
ReplacedWhenTold ==
  [][Serial => \A id \in DOMAIN promoted :
       promoted'[id] # promoted[id] => \E p \in Processes : command[p].at = "write" /\ command[p].replace]_vars

\* A draft passes as drafted, and what it calls unchanged is grouped the same; a suite
\* written by promotions passes, is what was promoted, and is replaced only as told
\* (create_draft, promote).
GoldenSafe ==
  /\ [](DraftPasses /\ UnchangedMeansSame /\ SuitePasses /\ SuiteIsPromoted)
  /\ ReplacedWhenTold
=============================================================================
