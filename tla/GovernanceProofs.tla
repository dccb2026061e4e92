---------------------------- MODULE GovernanceProofs ----------------------------
(***************************************************************************)
(* Proofs about the baselines, the admission cases and the collaboration,  *)
(* for any circumstances of each: what a history says, what an audit keeps *)
(* of it, what a promotion may bring, what the stores of a case agree on,  *)
(* what the events of an issue tell, and what becomes of sessions.         *)
(* Each part is proved of its own specification, which every behaviour of  *)
(* the records satisfies (EveryRecordBehaves).                             *)
(***************************************************************************)
EXTENDS Governance, SequenceTheorems, FiniteSetTheorems, WellFoundedInduction, TLAPS

-----------------------------------------------------------------------------
(* Baselines: what is always true of one.                                  *)

\* A history of later and later revisions, each entry with another report than the one
\* before it, and every undo taking one entry back; R are the reports there are, v the
\* revisions made.
SoundHistory(h, R, v) ==
  /\ \A i \in DOMAIN h : h[i].report \in R /\ h[i].rev <= v
  /\ \A i \in DOMAIN h : \A j \in DOMAIN h : j < i => h[j].rev < h[i].rev
  /\ \A i \in 2..Len(h) : h[i].report # h[i - 1].report
  /\ \A i \in DOMAIN h : h[i].undo => i > 2 /\ h[i].report = h[i - 2].report

\* A baseline has the report its history ends with.
Sound(b, R, v) ==
  /\ b.report \in R /\ b.history # <<>> /\ b.history[Len(b.history)].report = b.report
  /\ SoundHistory(b.history, R, v)
SoundRegistry(baselines, R, v) ==
  \A k \in Keys : baselines[k] # Baselines!Unset => Sound(baselines[k], R, v)

Writing(p) == bCommand[p] # Baselines!Idle /\ bCommand[p].at # "promote"
New(c) == [report |-> c.report, history |-> c.history]
SoundCommand(c, R, v) ==
  /\ c # Baselines!Idle => c.report \in R
  /\ (c # Baselines!Idle /\ c.at # "promote")
       => SoundRegistry(c.registry, R, v) /\ Sound(New(c), R, v)

\* The registry is sound, and so is what a command read of it and is going to write.
BaselinesSound ==
  /\ registry # Baselines!Torn => SoundRegistry(registry, DOMAIN reports, revision)
  /\ \A p \in Processes : SoundCommand(bCommand[p], DOMAIN reports, revision)
  /\ \A p \in Processes : bCommand[p] # Baselines!Idle => p \in bCircumstance.processes

-----------------------------------------------------------------------------
(* Baselines: what an audit keeps.                                         *)

Kept(h) == {i \in DOMAIN h : \/ i > Len(h) - MaxAudits
                             \/ h[i].action \in {"promote", "rollback"}}
Line(h, i) == [rev |-> h[i].rev, action |-> h[i].action]
Lines(h, J) == {Line(h, i) : i \in J}
Revs(h, J) == {h[i].rev : i \in J}
Audited(a, b) ==
  /\ a.latest = b.report
  /\ a.index = Lines(b.history, Kept(b.history))
  /\ a.versions = Revs(b.history, Kept(b.history))

\* What a command has written of the audit of its baseline, a; R is the registry.
Half(c, a, R) ==
  LET old == R[c.k]
      h == c.history
      oldLines == Lines(old.history, Kept(old.history))
      oldRevs == Revs(old.history, Kept(old.history))
  IN  /\ c.registry = R
      /\ h = old.history \/ h = Append(old.history, h[Len(h)])
      /\ c.at = "latest" => Audited(a, old)
      /\ c.at # "latest" => a.latest = c.report
      /\ c.at = "version" => a.index = oldLines /\ a.versions = oldRevs
      /\ c.at = "index" => a.index = oldLines /\ a.versions = oldRevs \cup {h[Len(h)].rev}
      /\ c.at = "prune" => a.versions \ c.gone = Revs(h, Kept(h)) /\ c.index = Lines(h, Kept(h))
      /\ c.at = "keep" => a.versions = Revs(h, Kept(h)) /\ c.index = Lines(h, Kept(h))
      /\ c.at = "save" => a.versions = Revs(h, Kept(h)) /\ a.index = Lines(h, Kept(h))

\* Every audit is about its baseline, but for the one a command is about to change.
AuditsFollow ==
  Baselines!Orderly =>
    /\ registry # Baselines!Torn
    /\ \A k \in Keys :
         (\A p \in Processes : Writing(p) => bCommand[p].k # k) => Audited(audit[k], registry[k])
    /\ \A p \in Processes :
         Writing(p) => Half(bCommand[p], audit[bCommand[p].k], registry)

-----------------------------------------------------------------------------
(* Baselines: what a promotion has compared.                               *)

\* What the policy of the repository asks of a report that follows another.
AddsNothing(new, old) ==
  /\ "fail" \notin Baselines!Verdicts(new)
  /\ Baselines!Findings(new) - Baselines!Findings(old) <= 0
  /\ (/\ Cardinality(Baselines!Seen(new)) <= MaxFamilies
      /\ Cardinality(Baselines!Seen(old)) <= MaxFamilies)
       => /\ Baselines!Seen(new) \subseteq Baselines!Seen(old)
          /\ \A f \in Baselines!Seen(new) : Baselines!Weight(new, f) = Baselines!Weight(old, f)
Compared(h, rs) ==
  \A i \in DOMAIN h :
    h[i].action = "promote" => i > 1 /\ AddsNothing(rs[h[i].report], rs[h[i - 1].report])

\* The entry a promotion is about to add has been compared with the last there is.
PromotionsCompared ==
  (Baselines!Serial /\ bCircumstance.policy = Baselines!FilePolicy) =>
    /\ registry # Baselines!Torn => \A k \in Keys : Compared(registry[k].history, reports)
    /\ \A p \in Processes :
         Writing(p) => /\ \A k \in Keys : Compared(bCommand[p].registry[k].history, reports)
                       /\ Compared(bCommand[p].history, reports)
    /\ \A p \in Processes : bCommand[p] # Baselines!Idle /\ bCommand[p].at = "promote" =>
         /\ registry # Baselines!Torn /\ registry[bCommand[p].k] # Baselines!Unset
         /\ AddsNothing(reports[bCommand[p].report], reports[registry[bCommand[p].k].report])

BaselinesInv == Baselines!TypeOK /\ BaselinesSound /\ AuditsFollow /\ PromotionsCompared

-----------------------------------------------------------------------------
(* Baselines: types.                                                       *)

\* The instance counts as this module does.
LEMMA SameFinite ==
  ASSUME NEW S
  PROVE  Baselines!IsFiniteSet(S) <=> IsFiniteSet(S)
BY DEF Baselines!IsFiniteSet, IsFiniteSet

LEMMA SameCardinality ==
  ASSUME NEW S
  PROVE  Baselines!Cardinality(S) = Cardinality(S)
BY DEF Baselines!Cardinality, Cardinality

LEMMA BaselineConstants ==
  ASSUME Baselines!TypeOK
  PROVE  /\ MaxAudits \in Nat \ {0} /\ MaxFamilies \in Nat /\ IsFiniteSet(Families)
         /\ bCircumstance \in BaselineCircumstances
         /\ bCircumstance.processes \subseteq Processes
         /\ bCircumstance.revisions \in Nat /\ bCircumstance.room \in Nat
         /\ bCircumstance.reports \in Seq(SUBSET Baselines!Snapshot)
         /\ Len(reports) \in Nat /\ DOMAIN reports = 1..Len(reports)
         /\ DOMAIN reports \subseteq Baselines!Numbers
         /\ Baselines!Numbers \subseteq Nat /\ Baselines!Revisions \subseteq Nat
         /\ 0 \notin Baselines!Numbers
<1> DEFINE S == Baselines!Snapshot
<1>1. /\ MaxAudits \in Nat \ {0} /\ MaxFamilies \in Nat /\ IsFiniteSet(Families)
      /\ bCircumstance \in BaselineCircumstances
      /\ bCircumstance.processes \subseteq Processes
      /\ bCircumstance.revisions \in Nat /\ bCircumstance.room \in Nat
      /\ bCircumstance.reports \in Seq(SUBSET S)
  <2>1. bCircumstance \in BaselineCircumstances /\ Baselines!ConstantsOK
    BY DEF Baselines!TypeOK
  <2>2. /\ MaxAudits \in Nat \ {0} /\ MaxFamilies \in Nat /\ IsFiniteSet(Families)
        /\ bCircumstance.processes \subseteq Processes
        /\ bCircumstance.reports \in Seq(SUBSET S)
    BY <2>1, SameFinite DEF Baselines!ConstantsOK
  <2>3. {bCircumstance.room, bCircumstance.revisions} \subseteq Nat
    BY <2>1, Zenon DEF Baselines!ConstantsOK
  <2> QED BY <2>1, <2>2, <2>3
<1>2. reports \in Seq(SUBSET S)
      /\ Len(reports) <= Len(bCircumstance.reports) + bCircumstance.room
  BY DEF Baselines!TypeOK
<1> HIDE DEF S
<1>3. /\ Len(reports) \in Nat /\ DOMAIN reports = 1..Len(reports)
      /\ Len(bCircumstance.reports) \in Nat
  BY <1>1, <1>2
<1>4. /\ DOMAIN reports \subseteq Baselines!Numbers
      /\ Baselines!Numbers \subseteq Nat /\ Baselines!Revisions \subseteq Nat
      /\ 0 \notin Baselines!Numbers
  BY <1>1, <1>2, <1>3 DEF Baselines!Numbers, Baselines!Revisions
<1> QED BY <1>1, <1>3, <1>4 DEF S

\* A set of numbers up to a limit, one at least, has a greatest one.
LEMMA GreatestNumber ==
  ASSUME NEW n \in Nat, NEW T \in SUBSET (1..n), T # {}
  PROVE  Baselines!Max(T) \in T /\ \A m \in T : m <= Baselines!Max(T)
<1> DEFINE R == {n - m : m \in T}
<1>1. R \in SUBSET Nat /\ R # {}
  <2>1. \A m \in T : n - m \in Nat
    OBVIOUS
  <2>2. PICK m \in T : TRUE
    OBVIOUS
  <2>3. n - m \in R
    OBVIOUS
  <2> QED BY <2>1, <2>3
<1> HIDE DEF R
<1>2. PICK x \in R : \A y \in R : ~(<<y, x>> \in OpToRel(<, Nat))
  BY <1>1, WFMin, NatLessThanWellFounded
<1>3. \A y \in R : ~(y < x)
  BY <1>1, <1>2 DEF OpToRel
<1>4. PICK m \in T : x = n - m
  BY DEF R
<1>5. \A i \in T : i <= m
  <2> TAKE i \in T
  <2>1. ~(n - i < n - m)
    BY <1>3, <1>4 DEF R
  <2> QED BY <2>1
<1> QED BY <1>5 DEF Baselines!Max

\* A report that is rolled back to is that of an entry of the history.
LEMMA TargetFound ==
  ASSUME Baselines!TypeOK, NEW h \in Seq(Baselines!Entry), NEW current, NEW asked,
         Baselines!Target(h, current, asked) # 0
  PROVE  \E i \in DOMAIN h :
           /\ Baselines!Target(h, current, asked) = h[i].report
           /\ h[i].report \in Baselines!Numbers /\ h[i].report # current
           /\ \A j \in DOMAIN h :
                asked \in {0, h[j].report} /\ h[j].report # current => j <= i
<1> DEFINE eligible == {i \in DOMAIN h :
                         h[i].report # current /\ asked \in {0, h[i].report}}
<1>1. eligible # {} /\ Baselines!Target(h, current, asked) = h[Baselines!Max(eligible)].report
  BY DEF Baselines!Target
<1>2. eligible \in SUBSET (1..Len(h)) /\ Len(h) \in Nat
  OBVIOUS
<1>3. Baselines!Max(eligible) \in eligible /\ \A m \in eligible : m <= Baselines!Max(eligible)
  <2> HIDE DEF eligible
  <2> QED BY <1>1, <1>2, GreatestNumber
<1>4. h[Baselines!Max(eligible)].report \in Baselines!Numbers
  <2>1. Baselines!Max(eligible) \in 1..Len(h)
    BY <1>2, <1>3
  <2>2. h[Baselines!Max(eligible)] \in Baselines!Entry
    BY <2>1
  <2> QED BY <2>2 DEF Baselines!Entry
<1> QED BY <1>1, <1>3, <1>4

\* The circumstances, and so the sets of numbers, are the same throughout.
LEMMA SameCircumstance ==
  ASSUME UNCHANGED bCircumstance
  PROVE  /\ Baselines!Numbers' = Baselines!Numbers /\ Baselines!Revisions' = Baselines!Revisions
         /\ Baselines!Entry' = Baselines!Entry /\ Baselines!Indexed' = Baselines!Indexed
         /\ Baselines!Baseline' = Baselines!Baseline /\ Baselines!Registry' = Baselines!Registry
         /\ Baselines!Audit' = Baselines!Audit /\ Baselines!Command' = Baselines!Command
         /\ (Baselines!Serial' <=> Baselines!Serial) /\ (Baselines!Orderly' <=> Baselines!Orderly)
BY DEF Baselines!Numbers, Baselines!Revisions, Baselines!Entry, Baselines!Indexed,
       Baselines!Baseline, Baselines!Registry, Baselines!Audit, Baselines!Command,
       Baselines!Serial, Baselines!Orderly

\* A registry that is not torn has a baseline for each key.
LEMMA WholeRegistry ==
  ASSUME registry \in Baselines!Registry, registry # Baselines!Torn
  PROVE  registry \in [Keys -> Baselines!Baseline]
BY DEF Baselines!Registry

LEMMA BaselineParts ==
  ASSUME NEW b \in Baselines!Baseline
  PROVE  /\ b.history \in Seq(Baselines!Entry) /\ b.report \in Baselines!Numbers \cup {0}
         /\ b # Baselines!Unset => b.report \in Baselines!Numbers
         /\ b = Baselines!Unset => b.history = <<>> /\ b.report = 0
         /\ b = [report |-> b.report, history |-> b.history]
<1>1. CASE b = Baselines!Unset
  BY <1>1 DEF Baselines!Unset
<1>2. CASE b \in [report : Baselines!Numbers, history : Seq(Baselines!Entry)]
  BY <1>2 DEF Baselines!Unset
<1> QED BY <1>1, <1>2 DEF Baselines!Baseline

LEMMA WritingType ==
  ASSUME Baselines!TypeOK, NEW p \in Processes, Writing(p)
  PROVE  bCommand[p] \in [at : {"latest", "version", "index", "prune", "keep", "save"}, k : Keys,
                          report : Baselines!Numbers,
                          registry : Baselines!Registry \ {Baselines!Torn},
                          history : Seq(Baselines!Entry), index : SUBSET Baselines!Indexed,
                          gone : SUBSET Baselines!Revisions]
BY DEF Baselines!TypeOK, Baselines!Command, Writing

LEMMA ProceedType ==
  ASSUME Baselines!TypeOK, NEW p \in Processes, NEW k \in Keys, NEW r \in Baselines!Numbers,
         NEW h \in Seq(Baselines!Entry), registry # Baselines!Torn, Baselines!Proceed(p, k, r, h)
  PROVE  /\ bCommand' \in [Processes -> Baselines!Command]
         /\ bCommand' = [bCommand EXCEPT ![p] =
              [at |-> "latest", k |-> k, report |-> r, registry |-> registry,
               history |-> h, index |-> {}, gone |-> {}]]
<1> DEFINE c == [at |-> "latest", k |-> k, report |-> r, registry |-> registry,
                 history |-> h, index |-> {}, gone |-> {}]
<1>1. c \in Baselines!Command
  BY DEF Baselines!TypeOK, Baselines!Command
<1> QED BY <1>1 DEF Baselines!TypeOK, Baselines!Proceed, Baselines!Become

\* The history with one more entry.
LEMMA EntryAdded ==
  ASSUME Baselines!TypeOK, NEW h \in Seq(Baselines!Entry), NEW r \in Baselines!Numbers,
         NEW action \in {"set", "promote", "rollback"}, NEW undo \in BOOLEAN,
         revision < bCircumstance.revisions
  PROVE  LET e == [rev |-> revision + 1, report |-> r, action |-> action, undo |-> undo]
         IN  /\ e \in Baselines!Entry
             /\ Append(h, e) \in Seq(Baselines!Entry) /\ Len(Append(h, e)) = Len(h) + 1
             /\ \A i \in 1..Len(h) : Append(h, e)[i] = h[i]
             /\ Append(h, e)[Len(h) + 1] = e
<1> DEFINE e == [rev |-> revision + 1, report |-> r, action |-> action, undo |-> undo]
<1>1. e \in Baselines!Entry
  BY BaselineConstants DEF Baselines!TypeOK, Baselines!Entry, Baselines!Revisions
<1> HIDE DEF e
<1>2. /\ Append(h, e) \in Seq(Baselines!Entry) /\ Len(Append(h, e)) = Len(h) + 1
      /\ \A i \in 1..Len(h) : Append(h, e)[i] = h[i]
      /\ Append(h, e)[Len(h) + 1] = e
  BY <1>1, AppendProperties
<1> QED BY <1>1, <1>2 DEF e

LEMMA SetType ==
  ASSUME Baselines!TypeOK, NEW p \in Processes, NEW k \in Keys, NEW r \in DOMAIN reports,
         NEW action \in {"set", "promote"}, Baselines!Set(p, k, r, action)
  PROVE  Baselines!TypeOK'
<1>1. registry[k].history \in Seq(Baselines!Entry) /\ r \in Baselines!Numbers
  BY WholeRegistry, BaselineParts, BaselineConstants DEF Baselines!TypeOK, Baselines!Set
<1>2. bCommand' \in [Processes -> Baselines!Command] /\ revision' \in 0..bCircumstance.revisions
  <2>1. CASE registry[k].report = r
    <3>1. Baselines!Proceed(p, k, r, registry[k].history) /\ revision' = revision
      BY <2>1 DEF Baselines!Set
    <3>2. bCommand' \in [Processes -> Baselines!Command]
      BY <3>1, <1>1, ProceedType DEF Baselines!Set
    <3> QED BY <3>1, <3>2 DEF Baselines!TypeOK
  <2>2. CASE registry[k].report # r
    <3> DEFINE e == [rev |-> revision + 1, report |-> r, action |-> action, undo |-> FALSE]
    <3>1. /\ revision < bCircumstance.revisions /\ revision' = revision + 1
          /\ Baselines!Proceed(p, k, r, Append(registry[k].history, e))
      BY <2>2 DEF Baselines!Set
    <3>2. Append(registry[k].history, e) \in Seq(Baselines!Entry)
      BY <3>1, <1>1, EntryAdded
    <3> HIDE DEF e
    <3>3. bCommand' \in [Processes -> Baselines!Command]
      BY <3>1, <3>2, <1>1, ProceedType DEF Baselines!Set
    <3> QED BY <3>1, <3>3, BaselineConstants DEF Baselines!TypeOK
  <2> QED BY <2>1, <2>2
<1>3. UNCHANGED <<bCircumstance, reports, registry, audit>>
  BY DEF Baselines!Set
<1> QED BY <1>2, <1>3, SameCircumstance DEF Baselines!TypeOK

LEMMA RollbackType ==
  ASSUME Baselines!TypeOK, NEW p \in Processes, Baselines!RollbackBaseline(p)
  PROVE  Baselines!TypeOK'
<1>1. PICK k \in Keys, asked \in {0} \cup DOMAIN reports :
         /\ registry[k] # Baselines!Unset
         /\ LET r == Baselines!Target(registry[k].history, registry[k].report, asked)
            IN  /\ r # 0
                /\ Baselines!Proceed(p, k, r, Append(registry[k].history,
                     [rev |-> revision + 1, report |-> r, action |-> "rollback",
                      undo |-> asked = 0]))
  BY DEF Baselines!RollbackBaseline
<1>2. /\ registry # Baselines!Torn /\ revision < bCircumstance.revisions
      /\ revision' = revision + 1
      /\ UNCHANGED <<bCircumstance, reports, registry, audit>>
  BY DEF Baselines!RollbackBaseline
<1> DEFINE h == registry[k].history
           r == Baselines!Target(h, registry[k].report, asked)
           e == [rev |-> revision + 1, report |-> r, action |-> "rollback", undo |-> asked = 0]
<1>3. h \in Seq(Baselines!Entry)
  BY <1>2, WholeRegistry, BaselineParts DEF Baselines!TypeOK
<1>4. r \in Baselines!Numbers
  BY <1>1, <1>3, TargetFound
<1>5. Append(h, e) \in Seq(Baselines!Entry)
  BY <1>2, <1>3, <1>4, EntryAdded
<1>6. Baselines!Proceed(p, k, r, Append(h, e))
  BY <1>1
<1> HIDE DEF e, r
<1>7. bCommand' \in [Processes -> Baselines!Command]
  BY <1>2, <1>4, <1>5, <1>6, ProceedType
<1>8. revision' \in 0..bCircumstance.revisions
  BY <1>2, BaselineConstants DEF Baselines!TypeOK
<1> QED BY <1>2, <1>7, <1>8, SameCircumstance DEF Baselines!TypeOK

\* Writing the audit and the registry.
LEMMA StageType ==
  ASSUME Baselines!TypeOK, NEW p \in Processes, Writing(p)
  PROVE  /\ \A at \in {"latest", "version", "index", "prune", "keep", "save"} :
              [bCommand[p] EXCEPT !.at = at] \in Baselines!Command
         /\ Baselines!Idle \in Baselines!Command
         /\ \A a \in Baselines!Audit :
              /\ [a EXCEPT !.latest = bCommand[p].report] \in Baselines!Audit
              /\ [a EXCEPT !.latest = 0] \in Baselines!Audit
              /\ \A v \in SUBSET Baselines!Revisions : [a EXCEPT !.versions = v] \in Baselines!Audit
              /\ \A v \in SUBSET Baselines!Indexed : [a EXCEPT !.index = v] \in Baselines!Audit
<1>1. ASSUME NEW at \in {"latest", "version", "index", "prune", "keep", "save"}
      PROVE  [bCommand[p] EXCEPT !.at = at] \in Baselines!Command
  BY WritingType DEF Baselines!Command
<1>2. \A a \in Baselines!Audit :
              /\ [a EXCEPT !.latest = bCommand[p].report] \in Baselines!Audit
              /\ [a EXCEPT !.latest = 0] \in Baselines!Audit
              /\ \A v \in SUBSET Baselines!Revisions : [a EXCEPT !.versions = v] \in Baselines!Audit
              /\ \A v \in SUBSET Baselines!Indexed : [a EXCEPT !.index = v] \in Baselines!Audit
  BY WritingType DEF Baselines!Audit
<1> QED BY <1>1, <1>2 DEF Baselines!Command

LEMMA AuditSteps ==
  ASSUME Baselines!TypeOK, NEW p \in Processes,
         \/ Baselines!WriteLatest(p) \/ Baselines!WriteVersion(p) \/ Baselines!ReadIndex(p)
         \/ Baselines!Prune(p) \/ Baselines!WriteIndex(p) \/ Baselines!SaveRegistry(p)
  PROVE  Writing(p) /\ UNCHANGED <<bCircumstance, reports, revision>>
<1>1. ASSUME Baselines!WriteLatest(p)
      PROVE  Writing(p) /\ UNCHANGED <<bCircumstance, reports, revision>>
  BY <1>1 DEF Baselines!WriteLatest, Writing, Baselines!Idle
<1>2. ASSUME Baselines!WriteVersion(p)
      PROVE  Writing(p) /\ UNCHANGED <<bCircumstance, reports, revision>>
  BY <1>2 DEF Baselines!WriteVersion, Writing, Baselines!Idle
<1>3. ASSUME Baselines!ReadIndex(p)
      PROVE  Writing(p) /\ UNCHANGED <<bCircumstance, reports, revision>>
  <2>1. bCommand[p].at = "index" /\ UNCHANGED <<bCircumstance, reports, revision>>
    BY <1>3, Zenon DEF Baselines!ReadIndex
  <2> QED BY <2>1 DEF Writing, Baselines!Idle
<1>4. ASSUME Baselines!Prune(p)
      PROVE  Writing(p) /\ UNCHANGED <<bCircumstance, reports, revision>>
  BY <1>4 DEF Baselines!Prune, Writing, Baselines!Idle
<1>5. ASSUME Baselines!WriteIndex(p)
      PROVE  Writing(p) /\ UNCHANGED <<bCircumstance, reports, revision>>
  BY <1>5 DEF Baselines!WriteIndex, Writing, Baselines!Idle
<1>6. ASSUME Baselines!SaveRegistry(p)
      PROVE  Writing(p) /\ UNCHANGED <<bCircumstance, reports, revision>>
  BY <1>6 DEF Baselines!SaveRegistry, Writing, Baselines!Idle
<1> QED BY <1>1, <1>2, <1>3, <1>4, <1>5, <1>6

LEMMA ReadIndexType ==
  ASSUME Baselines!TypeOK, NEW p \in Processes, Baselines!ReadIndex(p), bCommand[p].history # <<>>
  PROVE  Baselines!TypeOK'
<1> DEFINE c == bCommand[p]
           last == c.history[Len(c.history)]
           entries == {e \in audit[c.k].index : e.rev # last.rev}
                        \cup {[rev |-> last.rev, action |-> last.action]}
           kept == Baselines!Retained(entries)
           d == [c EXCEPT !.at = "prune", !.index = kept,
                          !.gone = {e.rev : e \in entries \ kept}]
<1>1. /\ bCommand' = [bCommand EXCEPT ![p] = d]
      /\ UNCHANGED <<bCircumstance, reports, registry, audit, revision>>
  BY DEF Baselines!ReadIndex, Baselines!Become
<1>2. last \in Baselines!Entry
  <2>1. c.history \in Seq(Baselines!Entry)
    BY AuditSteps, WritingType
  <2> QED BY <2>1
<1>3. audit[c.k].index \subseteq Baselines!Indexed
  BY AuditSteps, WritingType DEF Baselines!TypeOK, Baselines!Audit
<1>4. entries \subseteq Baselines!Indexed
  BY <1>2, <1>3 DEF Baselines!Entry, Baselines!Indexed
<1>5. kept \subseteq entries
  BY DEF Baselines!Retained
<1>6. {e.rev : e \in entries \ kept} \subseteq Baselines!Revisions
  BY <1>4 DEF Baselines!Indexed
<1>7. d \in Baselines!Command
  <2> HIDE DEF entries, kept
  <2> QED BY <1>4, <1>5, <1>6, AuditSteps, WritingType DEF Baselines!Command
<1> QED BY <1>1, <1>7, SameCircumstance DEF Baselines!TypeOK

LEMMA WriteType ==
  ASSUME Baselines!TypeOK, NEW p \in Processes, bCommand[p].history # <<>>,
         \/ Baselines!WriteLatest(p) \/ Baselines!WriteVersion(p)
         \/ Baselines!Prune(p) \/ Baselines!WriteIndex(p) \/ Baselines!SaveRegistry(p)
  PROVE  Baselines!TypeOK'
<1> DEFINE c == bCommand[p]
<1>1. Writing(p) /\ UNCHANGED <<bCircumstance, reports, revision>>
  BY AuditSteps
<1>2. /\ c.k \in Keys /\ c.report \in Baselines!Numbers /\ c.history \in Seq(Baselines!Entry)
      /\ c.index \subseteq Baselines!Indexed /\ audit[c.k] \in Baselines!Audit
      /\ c.registry \in [Keys -> Baselines!Baseline]
  BY <1>1, WritingType DEF Baselines!TypeOK, Baselines!Registry
<1>3. c.history[Len(c.history)].rev \in Baselines!Revisions
  <2>1. c.history[Len(c.history)] \in Baselines!Entry
    BY <1>2
  <2> QED BY <2>1 DEF Baselines!Entry
<1>4. audit[c.k].versions \subseteq Baselines!Revisions
  BY <1>2 DEF Baselines!Audit
<1>5. CASE Baselines!WriteLatest(p)
  <2>1. /\ audit' = [audit EXCEPT ![c.k].latest = c.report]
        /\ bCommand' = [bCommand EXCEPT ![p] = [c EXCEPT !.at = "version"]] /\ UNCHANGED registry
    BY <1>5 DEF Baselines!WriteLatest, Baselines!Become
  <2>2. audit' = [audit EXCEPT ![c.k] = [audit[c.k] EXCEPT !.latest = c.report]]
    BY <2>1, <1>2 DEF Baselines!TypeOK
  <2> QED BY ZenonT(30), <1>1, <1>2, <2>1, <2>2, StageType, SameCircumstance DEF Baselines!TypeOK
<1>6. CASE Baselines!WriteVersion(p)
  <2> DEFINE v == audit[c.k].versions \cup {c.history[Len(c.history)].rev}
  <2>1. /\ audit' = [audit EXCEPT ![c.k] = [audit[c.k] EXCEPT !.versions = v]]
        /\ bCommand' = [bCommand EXCEPT ![p] = [c EXCEPT !.at = "index"]] /\ UNCHANGED registry
    BY <1>6, <1>2 DEF Baselines!WriteVersion, Baselines!Become, Baselines!TypeOK
  <2>2. v \subseteq Baselines!Revisions
    BY <1>3, <1>4
  <2> HIDE DEF v
  <2> QED BY <1>1, <1>2, <2>1, <2>2, StageType, SameCircumstance DEF Baselines!TypeOK
<1>7. CASE Baselines!Prune(p)
  <2> DEFINE v == audit[c.k].versions \ c.gone
  <2>1. /\ audit' = [audit EXCEPT ![c.k] = [audit[c.k] EXCEPT !.versions = v]]
        /\ bCommand' = [bCommand EXCEPT ![p] = [c EXCEPT !.at = "keep"]] /\ UNCHANGED registry
    BY <1>7, <1>2 DEF Baselines!Prune, Baselines!Become, Baselines!TypeOK
  <2>2. v \subseteq Baselines!Revisions
    BY <1>4
  <2> HIDE DEF v
  <2> QED BY <1>1, <1>2, <2>1, <2>2, StageType, SameCircumstance DEF Baselines!TypeOK
<1>8. CASE Baselines!WriteIndex(p)
  <2>1. /\ audit' = [audit EXCEPT ![c.k] = [audit[c.k] EXCEPT !.index = c.index]]
        /\ bCommand' = [bCommand EXCEPT ![p] = [c EXCEPT !.at = "save"]] /\ UNCHANGED registry
    BY <1>8, <1>2 DEF Baselines!WriteIndex, Baselines!Become, Baselines!TypeOK
  <2> QED BY <1>1, <1>2, <2>1, StageType, SameCircumstance DEF Baselines!TypeOK
<1>9. CASE Baselines!SaveRegistry(p)
  <2>1. /\ registry' = [c.registry EXCEPT ![c.k] = [report |-> c.report, history |-> c.history]]
        /\ bCommand' = [bCommand EXCEPT ![p] = Baselines!Idle] /\ UNCHANGED audit
    BY <1>9 DEF Baselines!SaveRegistry, Baselines!Become
  <2>2. [report |-> c.report, history |-> c.history] \in Baselines!Baseline
    BY <1>2 DEF Baselines!Baseline
  <2>3. registry' \in Baselines!Registry
    BY <1>2, <2>1, <2>2 DEF Baselines!Registry
  <2> QED BY <1>1, <2>1, <2>3, StageType, SameCircumstance DEF Baselines!TypeOK
<1> QED BY <1>5, <1>6, <1>7, <1>8, <1>9

LEMMA CrashType ==
  ASSUME Baselines!TypeOK, NEW p \in Processes, Baselines!Crash(p)
  PROVE  Baselines!TypeOK'
<1> DEFINE c == bCommand[p]
<1>1. /\ UNCHANGED <<bCircumstance, reports, revision>>
      /\ bCommand' = [bCommand EXCEPT ![p] = Baselines!Idle]
  BY DEF Baselines!Crash, Baselines!Become
<1>2. Baselines!Idle \in Baselines!Command /\ Baselines!Torn \in Baselines!Registry
  BY DEF Baselines!Command, Baselines!Registry
<1>3. CASE UNCHANGED <<registry, audit>>
  BY <1>1, <1>2, <1>3, SameCircumstance DEF Baselines!TypeOK
<1>4. CASE c.at \in {"latest", "keep"} /\ UNCHANGED registry
           /\ \/ audit' = [audit EXCEPT ![c.k].latest = 0]
              \/ audit' = [audit EXCEPT ![c.k].index = {}]
  <2>1. Writing(p)
    BY <1>4 DEF Writing, Baselines!Idle
  <2>2. c.k \in Keys /\ audit[c.k] \in Baselines!Audit
    BY <2>1, WritingType DEF Baselines!TypeOK
  <2>3. \/ audit' = [audit EXCEPT ![c.k] = [audit[c.k] EXCEPT !.latest = 0]]
        \/ audit' = [audit EXCEPT ![c.k] = [audit[c.k] EXCEPT !.index = {}]]
    BY <1>4, <2>2 DEF Baselines!TypeOK
  <2>4. audit' \in [Keys -> Baselines!Audit]
    <3>1. {} \in SUBSET Baselines!Indexed
      OBVIOUS
    <3>2. /\ [audit[c.k] EXCEPT !.latest = 0] \in Baselines!Audit
          /\ [audit[c.k] EXCEPT !.index = {}] \in Baselines!Audit
      BY <2>1, <2>2, <3>1, StageType
    <3> QED BY <2>2, <2>3, <3>2 DEF Baselines!TypeOK
  <2> QED BY <1>1, <1>2, <1>4, <2>4, SameCircumstance DEF Baselines!TypeOK
<1>5. CASE registry' = Baselines!Torn /\ UNCHANGED audit
  BY <1>1, <1>2, <1>5, SameCircumstance DEF Baselines!TypeOK
<1> QED BY <1>3, <1>4, <1>5 DEF Baselines!Crash

LEMMA CreateReportType ==
  ASSUME Baselines!TypeOK, NEW p \in Processes, Baselines!CreateReport(p)
  PROVE  /\ Baselines!TypeOK'
         /\ Len(reports') = Len(reports) + 1
         /\ \A i \in DOMAIN reports : i \in DOMAIN reports' /\ reports'[i] = reports[i]
<1> DEFINE S == Baselines!Snapshot
<1>1. /\ Len(reports) < Len(bCircumstance.reports) + bCircumstance.room
      /\ UNCHANGED <<bCircumstance, registry, audit, revision, bCommand>>
  BY DEF Baselines!CreateReport
<1>2. PICK T \in (SUBSET bCircumstance.snapshots) \ {{}} : reports' = Append(reports, T)
  BY DEF Baselines!CreateReport
<1>3. T \in SUBSET S
  BY <1>2 DEF Baselines!TypeOK, Baselines!ConstantsOK
<1>4. reports \in Seq(SUBSET S) /\ Len(bCircumstance.reports) \in Nat /\ bCircumstance.room \in Nat
  BY BaselineConstants DEF Baselines!TypeOK
<1> HIDE DEF S
<1>5. /\ reports' \in Seq(SUBSET S) /\ Len(reports') = Len(reports) + 1
      /\ \A i \in 1..Len(reports) : reports'[i] = reports[i]
  BY <1>2, <1>3, <1>4, AppendProperties
<1>6. \A i \in DOMAIN reports : i \in DOMAIN reports' /\ reports'[i] = reports[i]
  BY <1>4, <1>5
<1>7. Len(reports') <= Len(bCircumstance.reports) + bCircumstance.room
  BY <1>1, <1>4, <1>5
<1> QED BY <1>1, <1>5, <1>6, <1>7, SameCircumstance DEF Baselines!TypeOK, S

LEMMA PromoteCompareType ==
  ASSUME Baselines!TypeOK, NEW p \in Processes, Baselines!PromoteCompare(p)
  PROVE  Baselines!TypeOK'
<1>1. PICK k \in Keys, r \in DOMAIN reports :
        bCommand' = [bCommand EXCEPT ![p] = [at |-> "promote", k |-> k, report |-> r]]
  BY DEF Baselines!PromoteCompare, Baselines!Become
<1>2. [at |-> "promote", k |-> k, report |-> r] \in Baselines!Command
  BY BaselineConstants DEF Baselines!Command
<1>3. UNCHANGED <<bCircumstance, reports, registry, audit, revision>>
  BY DEF Baselines!PromoteCompare
<1> QED BY <1>1, <1>2, <1>3, SameCircumstance DEF Baselines!TypeOK

LEMMA PromotingType ==
  ASSUME Baselines!TypeOK, BaselinesSound, NEW p \in Processes,
         bCommand[p].at = "promote"
  PROVE  bCommand[p].k \in Keys /\ bCommand[p].report \in DOMAIN reports
BY DEF Baselines!TypeOK, Baselines!Command, Baselines!Idle, BaselinesSound, SoundCommand

\* Whatever happens, the types are kept.
LEMMA BaselineTypeStep ==
  ASSUME Baselines!TypeOK, BaselinesSound, Baselines!Next
  PROVE  Baselines!TypeOK'
<1>1. PICK p \in Processes :
        \/ Baselines!CreateReport(p) \/ Baselines!SetBaseline(p) \/ Baselines!PromoteCompare(p)
        \/ Baselines!PromoteSet(p) \/ Baselines!RollbackBaseline(p)
        \/ Baselines!WriteLatest(p) \/ Baselines!WriteVersion(p) \/ Baselines!ReadIndex(p)
        \/ Baselines!Prune(p) \/ Baselines!WriteIndex(p) \/ Baselines!SaveRegistry(p)
        \/ Baselines!Crash(p)
  BY DEF Baselines!Next
<1>2. Writing(p) => bCommand[p].history # <<>>
  BY DEF BaselinesSound, SoundCommand, Sound, New, Writing
<1>3. CASE Baselines!SetBaseline(p)
  BY <1>3, SetType DEF Baselines!SetBaseline
<1>4. CASE Baselines!PromoteSet(p)
  <2>1. bCommand[p].k \in Keys /\ bCommand[p].report \in DOMAIN reports
    BY <1>4, PromotingType DEF Baselines!PromoteSet
  <2> QED BY <1>4, <2>1, SetType DEF Baselines!PromoteSet
<1> QED BY <1>1, <1>2, <1>3, <1>4, AuditSteps, CreateReportType, PromoteCompareType, RollbackType,
           WriteType, ReadIndexType, CrashType

-----------------------------------------------------------------------------
(* Baselines: histories.                                                   *)

\* More reports and revisions disturb nothing.
LEMMA SoundMore ==
  ASSUME NEW E, NEW h \in Seq(E), \A e \in E : e.rev \in Nat,
         NEW R, NEW S, R \subseteq S, NEW v \in Nat, NEW w \in Nat, v <= w,
         SoundHistory(h, R, v)
  PROVE  SoundHistory(h, S, w)
<1>1. \A i \in DOMAIN h : h[i] \in E
  OBVIOUS
<1>2. \A i \in DOMAIN h : h[i].report \in S /\ h[i].rev <= w
  BY <1>1 DEF SoundHistory
<1> QED BY <1>2 DEF SoundHistory

LEMMA RevisionsAreNumbers ==
  ASSUME Baselines!TypeOK
  PROVE  \A e \in Baselines!Entry : e.rev \in Nat
BY BaselineConstants DEF Baselines!Entry

LEMMA SoundRegistryMore ==
  ASSUME Baselines!TypeOK, NEW baselines \in [Keys -> Baselines!Baseline],
         NEW R, NEW S, R \subseteq S, NEW v \in Nat, NEW w \in Nat, v <= w,
         SoundRegistry(baselines, R, v)
  PROVE  SoundRegistry(baselines, S, w)
<1> SUFFICES ASSUME NEW k \in Keys, baselines[k] # Baselines!Unset
             PROVE  Sound(baselines[k], S, w)
  BY DEF SoundRegistry
<1>1. Sound(baselines[k], R, v)
  BY DEF SoundRegistry
<1>2. baselines[k].history \in Seq(Baselines!Entry)
  BY BaselineParts
<1>3. SoundHistory(baselines[k].history, S, w)
  BY <1>1, <1>2, SoundMore, RevisionsAreNumbers, Zenon DEF Sound
<1> QED BY <1>1, <1>3 DEF Sound

LEMMA SoundCommandMore ==
  ASSUME Baselines!TypeOK, NEW p \in Processes,
         NEW R, NEW S, R \subseteq S, NEW v \in Nat, NEW w \in Nat, v <= w,
         SoundCommand(bCommand[p], R, v)
  PROVE  SoundCommand(bCommand[p], S, w)
<1>1. bCommand[p] # Baselines!Idle => bCommand[p].report \in S
  BY DEF SoundCommand
<1>2. ASSUME Writing(p)
      PROVE  SoundRegistry(bCommand[p].registry, S, w) /\ Sound(New(bCommand[p]), S, w)
  <2>1. /\ bCommand[p].history \in Seq(Baselines!Entry)
        /\ bCommand[p].registry \in [Keys -> Baselines!Baseline]
    BY <1>2, WritingType DEF Baselines!Registry
  <2>2. SoundRegistry(bCommand[p].registry, R, v) /\ Sound(New(bCommand[p]), R, v)
    BY <1>2 DEF SoundCommand, Writing
  <2>3. SoundRegistry(bCommand[p].registry, S, w)
    BY <2>1, <2>2, SoundRegistryMore
  <2>4. New(bCommand[p]).history = bCommand[p].history /\ New(bCommand[p]).report = bCommand[p].report
    BY DEF New
  <2>5. SoundHistory(bCommand[p].history, S, w)
    BY <2>1, <2>2, <2>4, SoundMore, RevisionsAreNumbers, Zenon DEF Sound
  <2> QED BY <2>2, <2>3, <2>4, <2>5 DEF Sound
<1> QED BY <1>1, <1>2 DEF SoundCommand, Writing

\* A history stays sound with a new entry of another report, an undo being of the
\* report before the last.
LEMMA SoundEntry ==
  ASSUME Baselines!TypeOK, NEW h \in Seq(Baselines!Entry), NEW r \in DOMAIN reports,
         NEW action \in {"set", "promote", "rollback"}, NEW undo \in BOOLEAN,
         revision < bCircumstance.revisions,
         SoundHistory(h, DOMAIN reports, revision),
         h # <<>> => h[Len(h)].report # r,
         undo => Len(h) > 1 /\ r = h[Len(h) - 1].report
  PROVE  LET e == [rev |-> revision + 1, report |-> r, action |-> action, undo |-> undo]
         IN  Sound([report |-> r, history |-> Append(h, e)], DOMAIN reports, revision + 1)
<1> DEFINE e == [rev |-> revision + 1, report |-> r, action |-> action, undo |-> undo]
           g == Append(h, e)
           n == Len(h)
<1>1. /\ e \in Baselines!Entry /\ g \in Seq(Baselines!Entry) /\ Len(g) = n + 1
      /\ \A i \in 1..n : g[i] = h[i]
      /\ g[n + 1] = e
  BY EntryAdded, BaselineConstants
<1>2. n \in Nat /\ revision \in Nat /\ DOMAIN h = 1..n /\ DOMAIN g = 1..(n + 1)
  BY <1>1 DEF Baselines!TypeOK
<1>3. e.rev = revision + 1 /\ e.report = r /\ e.undo = undo
  OBVIOUS
<1>4. \A i \in 1..n : h[i].rev \in Nat
  BY <1>2, RevisionsAreNumbers
<1>5. h # <<>> <=> n > 0
  BY <1>2
<1> HIDE DEF e, g, n
<1>6. \A i \in DOMAIN g : g[i].report \in DOMAIN reports /\ g[i].rev <= revision + 1
  <2> TAKE i \in DOMAIN g
  <2>1. CASE i \in 1..n
    <3>1. g[i] = h[i] /\ h[i].report \in DOMAIN reports /\ h[i].rev <= revision
      BY <1>1, <1>2, <2>1 DEF SoundHistory
    <3> QED BY <1>2, <1>4, <2>1, <3>1
  <2>2. CASE i = n + 1
    BY <1>1, <1>2, <1>3, <2>2
  <2> QED BY <1>2, <2>1, <2>2
<1>7. \A i \in DOMAIN g : \A j \in DOMAIN g : j < i => g[j].rev < g[i].rev
  <2> SUFFICES ASSUME NEW i \in DOMAIN g, NEW j \in DOMAIN g, j < i
               PROVE  g[j].rev < g[i].rev
    OBVIOUS
  <2>1. j \in 1..n /\ g[j] = h[j]
    BY <1>1, <1>2
  <2>2. CASE i \in 1..n
    <3>1. g[i] = h[i] /\ h[j].rev < h[i].rev
      BY <1>1, <1>2, <2>1, <2>2 DEF SoundHistory
    <3> QED BY <2>1, <3>1
  <2>3. CASE i = n + 1
    <3>1. h[j].rev <= revision
      BY <1>2, <2>1 DEF SoundHistory
    <3>2. g[i].rev = revision + 1 /\ g[j].rev \in Nat
      BY <1>1, <1>3, <1>4, <2>1, <2>3
    <3> QED BY <1>2, <2>1, <3>1, <3>2
  <2> QED BY <1>2, <2>2, <2>3
<1>8. \A i \in 2..Len(g) : g[i].report # g[i - 1].report
  <2> TAKE i \in 2..Len(g)
  <2>1. CASE i <= n
    <3>1. i \in 2..n /\ i \in 1..n /\ i - 1 \in 1..n
      BY <1>1, <1>2, <2>1
    <3>2. g[i] = h[i] /\ g[i - 1] = h[i - 1]
      BY <1>1, <3>1
    <3> QED BY <3>1, <3>2 DEF SoundHistory, n
  <2>2. CASE i = n + 1
    <3>1. i - 1 = n /\ n \in 1..n /\ g[i] = e /\ g[n] = h[n]
      BY <1>1, <1>2, <2>2
    <3> QED BY <1>2, <1>3, <1>5, <3>1 DEF n
  <2> QED BY <1>1, <1>2, <2>1, <2>2
<1>9. \A i \in DOMAIN g : g[i].undo => i > 2 /\ g[i].report = g[i - 2].report
  <2> SUFFICES ASSUME NEW i \in DOMAIN g, g[i].undo
               PROVE  i > 2 /\ g[i].report = g[i - 2].report
    OBVIOUS
  <2>1. CASE i \in 1..n
    <3>1. g[i] = h[i]
      BY <1>1, <2>1
    <3>2. i > 2 /\ h[i].report = h[i - 2].report
      BY <1>2, <2>1, <3>1 DEF SoundHistory
    <3>3. g[i - 2] = h[i - 2]
      BY <1>1, <1>2, <2>1, <3>2
    <3> QED BY <3>1, <3>2, <3>3
  <2>2. CASE i = n + 1
    <3>1. g[i] = e /\ undo
      BY <1>1, <1>3, <2>2
    <3>2. n > 1 /\ r = h[n - 1].report
      BY <3>1 DEF n
    <3>3. i - 2 = n - 1 /\ n - 1 \in 1..n /\ g[n - 1] = h[n - 1] /\ i > 2
      BY <1>1, <1>2, <2>2, <3>2
    <3> QED BY <1>3, <3>1, <3>2, <3>3
  <2> QED BY <1>2, <2>1, <2>2
<1>10. SoundHistory(g, DOMAIN reports, revision + 1)
  BY <1>6, <1>7, <1>8, <1>9 DEF SoundHistory
<1>11. g # <<>> /\ g[Len(g)].report = r
  BY <1>1, <1>2, <1>3
<1> QED BY <1>10, <1>11 DEF Sound, e, g

\* What a step has to show: the registry and the command it changes are sound.
LEMMA SoundStep ==
  ASSUME Baselines!TypeOK, BaselinesSound, UNCHANGED bCircumstance, NEW p \in Processes,
         \A i \in DOMAIN reports : i \in DOMAIN reports',
         revision' \in Nat, revision <= revision',
         NEW c, Baselines!Become(p, c),
         SoundCommand(c, DOMAIN reports', revision'),
         c # Baselines!Idle => p \in bCircumstance.processes,
         \/ UNCHANGED registry
         \/ registry' # Baselines!Torn => SoundRegistry(registry', DOMAIN reports', revision')
  PROVE  BaselinesSound'
<1>1. DOMAIN reports \subseteq DOMAIN reports' /\ revision \in Nat
  BY DEF Baselines!TypeOK
<1>2. registry' # Baselines!Torn => SoundRegistry(registry', DOMAIN reports', revision')
  <2> SUFFICES ASSUME UNCHANGED registry, registry # Baselines!Torn
               PROVE  SoundRegistry(registry, DOMAIN reports', revision')
    OBVIOUS
  <2>1. SoundRegistry(registry, DOMAIN reports, revision)
    BY DEF BaselinesSound
  <2> QED BY <1>1, <2>1, WholeRegistry, SoundRegistryMore DEF Baselines!TypeOK
<1>3. ASSUME NEW q \in Processes
      PROVE  SoundCommand(bCommand'[q], DOMAIN reports', revision')
  <2>1. CASE q = p
    BY <2>1 DEF Baselines!TypeOK, Baselines!Become
  <2>2. CASE q # p
    <3>1. bCommand'[q] = bCommand[q]
      BY <2>2 DEF Baselines!TypeOK, Baselines!Become
    <3>2. SoundCommand(bCommand[q], DOMAIN reports, revision)
      BY DEF BaselinesSound
    <3> QED BY <1>1, <3>1, <3>2, SoundCommandMore
  <2> QED BY <2>1, <2>2
<1>4. \A q \in Processes : bCommand'[q] # Baselines!Idle => q \in bCircumstance'.processes
  BY DEF BaselinesSound, Baselines!TypeOK, Baselines!Become
<1>5. Baselines!Torn' = Baselines!Torn /\ Baselines!Idle' = Baselines!Idle
  BY DEF Baselines!Torn, Baselines!Idle
<1> QED BY <1>2, <1>3, <1>4, <1>5 DEF BaselinesSound

LEMMA ProceedSound ==
  ASSUME Baselines!TypeOK, BaselinesSound, UNCHANGED <<bCircumstance, reports, registry>>,
         NEW p \in Processes, p \in bCircumstance.processes, NEW k \in Keys,
         NEW r \in DOMAIN reports, NEW h \in Seq(Baselines!Entry), registry # Baselines!Torn,
         revision' \in Nat, revision <= revision',
         Sound([report |-> r, history |-> h], DOMAIN reports, revision'),
         Baselines!Proceed(p, k, r, h)
  PROVE  BaselinesSound'
<1> DEFINE c == [at |-> "latest", k |-> k, report |-> r, registry |-> registry,
                 history |-> h, index |-> {}, gone |-> {}]
<1>1. Baselines!Become(p, c)
  BY DEF Baselines!Proceed
<1>2. SoundRegistry(registry, DOMAIN reports', revision')
  <2>1. SoundRegistry(registry, DOMAIN reports, revision) /\ revision \in Nat
    BY DEF BaselinesSound, Baselines!TypeOK
  <2> QED BY <2>1, WholeRegistry, SoundRegistryMore DEF Baselines!TypeOK
<1>3. SoundCommand(c, DOMAIN reports', revision')
  BY <1>2 DEF SoundCommand, New
<1> HIDE DEF c
<1> QED BY <1>1, <1>3, SoundStep

LEMMA KnownSound ==
  ASSUME Baselines!TypeOK, BaselinesSound, registry # Baselines!Torn, NEW k \in Keys
  PROVE  /\ registry[k].history \in Seq(Baselines!Entry)
         /\ SoundHistory(registry[k].history, DOMAIN reports, revision)
         /\ registry[k] # Baselines!Unset => Sound(registry[k], DOMAIN reports, revision)
         /\ registry[k] = Baselines!Unset <=> registry[k].report = 0
         /\ registry[k] = Baselines!Unset <=> registry[k].history = <<>>
<1>1. registry[k] \in Baselines!Baseline
  BY WholeRegistry DEF Baselines!TypeOK
<1>2. CASE registry[k] = Baselines!Unset
  <2>1. registry[k].history = <<>> /\ registry[k].report = 0
    BY <1>2 DEF Baselines!Unset
  <2> QED BY <1>2, <2>1 DEF SoundHistory
<1>3. CASE registry[k] # Baselines!Unset
  <2>1. Sound(registry[k], DOMAIN reports, revision)
    BY <1>3 DEF BaselinesSound, SoundRegistry
  <2>2. registry[k].report # 0
    BY <1>1, <1>3, BaselineParts, BaselineConstants
  <2> QED BY <1>1, <1>3, <2>1, <2>2, BaselineParts DEF Sound
<1> QED BY <1>2, <1>3

LEMMA SetSound ==
  ASSUME Baselines!TypeOK, BaselinesSound, NEW p \in Processes, p \in bCircumstance.processes,
         NEW k \in Keys, NEW r \in DOMAIN reports,
         NEW action \in {"set", "promote"}, Baselines!Set(p, k, r, action)
  PROVE  BaselinesSound'
<1>1. registry # Baselines!Torn /\ UNCHANGED <<bCircumstance, reports, registry>>
  BY DEF Baselines!Set
<1>2. revision \in Nat /\ r # 0
  BY BaselineConstants DEF Baselines!TypeOK
<1> DEFINE b == registry[k]
<1>3. CASE b.report = r
  <2>1. Baselines!Proceed(p, k, r, b.history) /\ revision' = revision
    BY <1>3 DEF Baselines!Set
  <2>2. Sound(b, DOMAIN reports, revision) /\ b.history \in Seq(Baselines!Entry)
    BY <1>1, <1>2, <1>3, KnownSound
  <2>3. Sound([report |-> r, history |-> b.history], DOMAIN reports, revision')
    BY <1>3, <2>1, <2>2 DEF Sound
  <2> HIDE DEF b
  <2> QED BY <1>1, <1>2, <2>1, <2>2, <2>3, ProceedSound
<1>4. CASE b.report # r
  <2> DEFINE e == [rev |-> revision + 1, report |-> r, action |-> action, undo |-> FALSE]
  <2>1. /\ Baselines!Proceed(p, k, r, Append(b.history, e)) /\ revision' = revision + 1
        /\ revision < bCircumstance.revisions
    BY <1>4 DEF Baselines!Set
  <2>2. b.history # <<>> => b.history[Len(b.history)].report # r
    BY <1>1, <1>4, KnownSound DEF Sound
  <2>3. Sound([report |-> r, history |-> Append(b.history, e)], DOMAIN reports, revision + 1)
    BY <1>1, <2>1, <2>2, KnownSound, SoundEntry
  <2>4. Append(b.history, e) \in Seq(Baselines!Entry)
    BY <1>1, <2>1, KnownSound, EntryAdded, BaselineConstants
  <2> DEFINE g == Append(b.history, e)
  <2>5. /\ Baselines!Proceed(p, k, r, g) /\ g \in Seq(Baselines!Entry)
        /\ Sound([report |-> r, history |-> g], DOMAIN reports, revision')
    BY <2>1, <2>3, <2>4
  <2> HIDE DEF e, b, g
  <2> QED BY <1>1, <1>2, <2>1, <2>5, ProceedSound
<1> QED BY <1>3, <1>4

\* A rollback that names no report finds the report before the last.
LEMMA RollbackSound ==
  ASSUME Baselines!TypeOK, BaselinesSound, NEW p \in Processes, Baselines!RollbackBaseline(p)
  PROVE  BaselinesSound'
<1>1. PICK k \in Keys, asked \in {0} \cup DOMAIN reports :
         /\ registry[k] # Baselines!Unset
         /\ LET r == Baselines!Target(registry[k].history, registry[k].report, asked)
            IN  /\ r # 0
                /\ Baselines!Proceed(p, k, r, Append(registry[k].history,
                     [rev |-> revision + 1, report |-> r, action |-> "rollback",
                      undo |-> asked = 0]))
  BY DEF Baselines!RollbackBaseline
<1>2. /\ registry # Baselines!Torn /\ revision < bCircumstance.revisions
      /\ revision' = revision + 1 /\ revision \in Nat
      /\ UNCHANGED <<bCircumstance, reports, registry>> /\ p \in bCircumstance.processes
  BY DEF Baselines!RollbackBaseline, Baselines!Free, Baselines!TypeOK
<1> DEFINE h == registry[k].history
           r == Baselines!Target(h, registry[k].report, asked)
           n == Len(h)
           e == [rev |-> revision + 1, report |-> r, action |-> "rollback", undo |-> asked = 0]
<1>3. /\ h \in Seq(Baselines!Entry) /\ SoundHistory(h, DOMAIN reports, revision)
      /\ Sound(registry[k], DOMAIN reports, revision)
  BY <1>1, <1>2, KnownSound
<1>4. n \in Nat /\ n > 0 /\ DOMAIN h = 1..n /\ h[n].report = registry[k].report
  BY <1>3 DEF Sound
<1>5. PICK i \in DOMAIN h :
        /\ r = h[i].report /\ h[i].report # registry[k].report
        /\ \A j \in DOMAIN h : asked \in {0, h[j].report} /\ h[j].report # registry[k].report
                                => j <= i
  BY <1>1, <1>3, TargetFound
<1>6. r \in DOMAIN reports /\ h[n].report # r
  BY <1>3, <1>4, <1>5 DEF SoundHistory
<1>7. ASSUME asked = 0
      PROVE  n > 1 /\ r = h[n - 1].report
  <2>1. i < n
    BY <1>4, <1>5
  <2>2. n \in 2..n /\ n - 1 \in DOMAIN h
    BY <1>4, <1>5, <2>1
  <2>3. h[n].report # h[n - 1].report
    BY <1>3, <2>2 DEF SoundHistory
  <2>4. n - 1 <= i
    BY <1>4, <1>5, <1>7, <2>2, <2>3
  <2>5. i = n - 1
    BY <1>4, <1>5, <2>1, <2>4
  <2> QED BY <1>4, <1>5, <2>2, <2>5
<1> HIDE DEF r
<1>8. Sound([report |-> r, history |-> Append(h, e)], DOMAIN reports, revision + 1)
  BY <1>2, <1>3, <1>6, <1>7, SoundEntry
<1>9. Append(h, e) \in Seq(Baselines!Entry)
  BY <1>2, <1>3, <1>6, EntryAdded, BaselineConstants
<1>10. Baselines!Proceed(p, k, r, Append(h, e))
  BY <1>1 DEF r
<1> DEFINE g == Append(h, e)
<1>11. /\ Baselines!Proceed(p, k, r, g) /\ g \in Seq(Baselines!Entry)
       /\ Sound([report |-> r, history |-> g], DOMAIN reports, revision')
  BY <1>2, <1>8, <1>9, <1>10
<1> HIDE DEF e, h, g
<1> QED BY <1>2, <1>6, <1>11, ProceedSound

LEMMA SoundStage ==
  ASSUME Baselines!TypeOK, BaselinesSound, UNCHANGED <<bCircumstance, reports, revision, registry>>,
         NEW p \in Processes, Writing(p), NEW c, Baselines!Become(p, c),
         c.report = bCommand[p].report, c.registry = bCommand[p].registry,
         c.history = bCommand[p].history
  PROVE  BaselinesSound'
<1>1. SoundCommand(bCommand[p], DOMAIN reports, revision) /\ p \in bCircumstance.processes
  BY DEF BaselinesSound, Writing
<1>2. SoundCommand(c, DOMAIN reports', revision')
  BY <1>1 DEF SoundCommand, Writing, New
<1> QED BY <1>1, <1>2, SoundStep DEF Baselines!TypeOK

\* A stage of the writing before the last changes of the command only how far it is, and
\* what is to be kept.
LEMMA StageCommand ==
  ASSUME Baselines!TypeOK, NEW p \in Processes,
         \/ Baselines!WriteLatest(p) \/ Baselines!WriteVersion(p) \/ Baselines!ReadIndex(p)
         \/ Baselines!Prune(p) \/ Baselines!WriteIndex(p)
  PROVE  /\ Writing(p) /\ UNCHANGED <<bCircumstance, reports, revision, registry>>
         /\ \E d : /\ Baselines!Become(p, d) /\ d.at # "promote" /\ d.report = bCommand[p].report
                   /\ d.registry = bCommand[p].registry /\ d.history = bCommand[p].history
<1> DEFINE c == bCommand[p]
           last == c.history[Len(c.history)]
           entries == {e \in audit[c.k].index : e.rev # last.rev}
                        \cup {[rev |-> last.rev, action |-> last.action]}
           gone == {e.rev : e \in entries \ Baselines!Retained(entries)}
           read == [c EXCEPT !.at = "prune", !.index = Baselines!Retained(entries), !.gone = gone]
           Moved(d) == /\ d.at # "promote" /\ d.report = c.report
                       /\ d.registry = c.registry /\ d.history = c.history
<1>1. Writing(p) /\ UNCHANGED <<bCircumstance, reports, revision, registry>>
  <2>1. UNCHANGED registry
    BY DEF Baselines!WriteLatest, Baselines!WriteVersion, Baselines!ReadIndex,
           Baselines!Prune, Baselines!WriteIndex
  <2> QED BY <2>1, AuditSteps
<1>2. \A at \in {"version", "index", "keep", "save"} : Moved([c EXCEPT !.at = at])
  BY <1>1, WritingType
<1>3. \A x, y : Moved([c EXCEPT !.at = "prune", !.index = x, !.gone = y])
  BY <1>1, WritingType
<1>4. \/ \E at \in {"version", "index", "keep", "save"} :
             Baselines!Become(p, [c EXCEPT !.at = at])
      \/ Baselines!Become(p, read)
  BY Zenon DEF Baselines!WriteLatest, Baselines!WriteVersion, Baselines!ReadIndex,
               Baselines!Prune, Baselines!WriteIndex
<1>5. Moved(read)
  <2> HIDE DEF entries, gone, Moved
  <2> QED BY <1>3
<1> HIDE DEF read, Moved
<1>6. \E d : Baselines!Become(p, d) /\ Moved(d)
  BY <1>2, <1>4, <1>5
<1> QED BY <1>1, <1>6 DEF Moved

\* Whatever happens, and whatever else is happening, it stays sound.
LEMMA BaselineSoundStep ==
  ASSUME Baselines!TypeOK, BaselinesSound, Baselines!Next
  PROVE  BaselinesSound'
<1>1. PICK p \in Processes :
        \/ Baselines!CreateReport(p) \/ Baselines!SetBaseline(p) \/ Baselines!PromoteCompare(p)
        \/ Baselines!PromoteSet(p) \/ Baselines!RollbackBaseline(p)
        \/ Baselines!WriteLatest(p) \/ Baselines!WriteVersion(p) \/ Baselines!ReadIndex(p)
        \/ Baselines!Prune(p) \/ Baselines!WriteIndex(p) \/ Baselines!SaveRegistry(p)
        \/ Baselines!Crash(p)
  BY DEF Baselines!Next
<1> DEFINE c == bCommand[p]
<1>2. revision \in Nat /\ SoundCommand(Baselines!Idle, DOMAIN reports', revision')
  BY DEF Baselines!TypeOK, SoundCommand
<1>3. CASE Baselines!CreateReport(p)
  <2>1. UNCHANGED <<bCircumstance, registry, revision, bCommand>> /\ c = Baselines!Idle
    BY <1>3 DEF Baselines!CreateReport, Baselines!Free
  <2>2. Baselines!Become(p, Baselines!Idle)
    BY <2>1 DEF Baselines!TypeOK, Baselines!Become
  <2> QED BY <1>2, <1>3, <2>1, <2>2, CreateReportType, SoundStep
<1>4. CASE Baselines!SetBaseline(p)
  BY <1>4, SetSound DEF Baselines!SetBaseline, Baselines!Free
<1>5. CASE Baselines!PromoteCompare(p)
  <2>1. PICK k \in Keys, r \in DOMAIN reports :
          Baselines!Become(p, [at |-> "promote", k |-> k, report |-> r])
    BY <1>5 DEF Baselines!PromoteCompare
  <2>2. /\ UNCHANGED <<bCircumstance, reports, registry, revision>>
        /\ p \in bCircumstance.processes
    BY <1>5 DEF Baselines!PromoteCompare, Baselines!Free
  <2> DEFINE d == [at |-> "promote", k |-> k, report |-> r]
  <2>3. SoundCommand(d, DOMAIN reports', revision')
    BY <2>2 DEF SoundCommand
  <2> HIDE DEF d
  <2>4. Baselines!Become(p, d)
    BY <2>1 DEF d
  <2> QED BY <1>2, <2>2, <2>3, <2>4, SoundStep
<1>6. CASE Baselines!PromoteSet(p)
  <2>1. /\ c.k \in Keys /\ c.report \in DOMAIN reports
        /\ Baselines!Set(p, c.k, c.report, "promote") /\ c # Baselines!Idle
    BY <1>6, PromotingType DEF Baselines!PromoteSet, Baselines!Idle
  <2>2. p \in bCircumstance.processes
    BY <2>1 DEF BaselinesSound
  <2> QED BY <2>1, <2>2, SetSound
<1>7. CASE \/ Baselines!WriteLatest(p) \/ Baselines!WriteVersion(p) \/ Baselines!ReadIndex(p)
           \/ Baselines!Prune(p) \/ Baselines!WriteIndex(p)
  BY <1>7, StageCommand, SoundStage
<1>8. CASE Baselines!SaveRegistry(p)
  <2>1. /\ UNCHANGED <<bCircumstance, reports, revision>> /\ Writing(p)
        /\ registry' = [c.registry EXCEPT ![c.k] = New(c)]
        /\ Baselines!Become(p, Baselines!Idle)
    BY <1>8, AuditSteps DEF Baselines!SaveRegistry, New
  <2>2. SoundCommand(c, DOMAIN reports, revision) /\ c.registry \in [Keys -> Baselines!Baseline]
    BY <2>1, WritingType DEF BaselinesSound, Baselines!Registry
  <2>3. SoundRegistry(registry', DOMAIN reports', revision')
    BY <2>1, <2>2 DEF SoundCommand, SoundRegistry, Writing
  <2> QED BY <1>2, <2>1, <2>3, SoundStep
<1>9. CASE Baselines!Crash(p)
  <2>1. /\ UNCHANGED <<bCircumstance, reports, revision>>
        /\ Baselines!Become(p, Baselines!Idle)
        /\ UNCHANGED registry \/ registry' = Baselines!Torn
    BY <1>9 DEF Baselines!Crash
  <2> QED BY <1>2, <2>1, SoundStep
<1> QED BY <1>1, <1>3, <1>4, <1>5, <1>6, <1>7, <1>8, <1>9, RollbackSound

-----------------------------------------------------------------------------
(* Baselines: what is kept.                                                *)

\* As many lines come after one as there are later entries.
LEMMA LinesAfter ==
  ASSUME Baselines!TypeOK, NEW h \in Seq(Baselines!Entry), NEW R, NEW v, SoundHistory(h, R, v),
         NEW J \in SUBSET DOMAIN h, NEW i \in DOMAIN h
  PROVE  LET after == {j \in J : j > i}
         IN  /\ IsFiniteSet(after)
             /\ Cardinality({f \in Lines(h, J) : f.rev > h[i].rev}) = Cardinality(after)
<1> DEFINE after == {j \in J : j > i}
           later == {f \in Lines(h, J) : f.rev > h[i].rev}
           line == [j \in after |-> Line(h, j)]
<1>1. Len(h) \in Nat /\ DOMAIN h = 1..Len(h)
  OBVIOUS
<1>2. \A j \in DOMAIN h : h[j].rev \in Nat
  BY RevisionsAreNumbers
<1>3. \A j \in DOMAIN h, m \in DOMAIN h : j < m => h[j].rev < h[m].rev
  BY DEF SoundHistory
<1>4. \A j \in J : h[j].rev > h[i].rev <=> j > i
  <2> TAKE j \in J
  <2>1. CASE j = i
    BY <1>1, <1>2, <2>1
  <2>2. CASE j < i
    BY <1>1, <1>2, <1>3, <2>2
  <2>3. CASE j > i
    BY <1>1, <1>2, <1>3, <2>3
  <2> QED BY <1>1, <2>1, <2>2, <2>3
<1>5. later = {Line(h, j) : j \in after}
  <2>1. \A f \in later : \E j \in after : f = Line(h, j)
    BY <1>4 DEF Lines, Line
  <2>2. \A j \in after : Line(h, j) \in later
    BY <1>4 DEF Lines, Line
  <2> QED BY <2>1, <2>2
<1>6. \A j \in after, m \in after : Line(h, j) = Line(h, m) => j = m
  <2> SUFFICES ASSUME NEW j \in after, NEW m \in after, Line(h, j) = Line(h, m)
               PROVE  j = m
    OBVIOUS
  <2>1. h[j].rev = h[m].rev
    BY DEF Line
  <2>2. j \in DOMAIN h /\ m \in DOMAIN h
    OBVIOUS
  <2>3. ~(j < m) /\ ~(m < j)
    BY <1>2, <1>3, <2>1, <2>2
  <2> QED BY <1>1, <2>2, <2>3
<1>7. IsFiniteSet(after)
  <2>1. after \in SUBSET (1..Len(h)) /\ IsFiniteSet(1..Len(h))
    BY <1>1, FS_Interval
  <2> HIDE DEF after
  <2> QED BY <2>1, FS_Subset
<1>8. line \in Bijection(after, later)
  <2>1. line \in [after -> later]
    BY <1>5
  <2>2. \A f \in later : \E j \in after : line[j] = f
    BY <1>5
  <2> HIDE DEF after, later
  <2> QED BY <1>6, <2>1, <2>2 DEF Bijection, Injection, Surjection, IsInjective
<1> HIDE DEF after, later, line
<1>9. Cardinality(later) = Cardinality(after)
  BY <1>7, <1>8, FS_Bijection DEF ExistsBijection
<1> QED BY <1>7, <1>9 DEF after, later

\* Of an index that has at least the lines to be kept, those are kept, and the
\* directories of no other stay.
LEMMA RetainedLines ==
  ASSUME Baselines!TypeOK, NEW h \in Seq(Baselines!Entry), NEW R, NEW v, SoundHistory(h, R, v),
         NEW J \in SUBSET DOMAIN h, Kept(h) \subseteq J
  PROVE  LET lines == Lines(h, J)
             kept == Baselines!Retained(lines)
         IN  /\ kept = Lines(h, Kept(h))
             /\ Revs(h, J) \ {e.rev : e \in lines \ kept} = Revs(h, Kept(h))
<1> DEFINE lines == Lines(h, J)
           n == Len(h)
           M == MaxAudits
<1>1. n \in Nat /\ DOMAIN h = 1..n /\ M \in Nat \ {0}
  BY BaselineConstants
<1>2. \A i \in DOMAIN h : h[i].rev \in Nat
  BY RevisionsAreNumbers
<1>3. \A j \in DOMAIN h, m \in DOMAIN h : h[j].rev = h[m].rev => j = m
  <2> SUFFICES ASSUME NEW j \in DOMAIN h, NEW m \in DOMAIN h, h[j].rev = h[m].rev
               PROVE  j = m
    OBVIOUS
  <2>1. ~(j < m) /\ ~(m < j)
    BY <1>2 DEF SoundHistory
  <2> QED BY <1>1, <2>1
<1>4. ASSUME NEW i \in J
      PROVE  Cardinality({f \in lines : f.rev > h[i].rev}) < M <=> i > n - M
  <2> DEFINE after == {j \in J : j > i}
  <2>1. i \in DOMAIN h
    OBVIOUS
  <2>2. /\ IsFiniteSet(after)
        /\ Cardinality({f \in lines : f.rev > h[i].rev}) = Cardinality(after)
    BY <2>1, LinesAfter
  <2>3. CASE i > n - M
    <3>1. after \in SUBSET ((i + 1)..n)
      BY <1>1, <2>1
    <3>2. IsFiniteSet((i + 1)..n) /\ Cardinality((i + 1)..n) <= n - i
      <4> DEFINE m == i + 1
      <4>1. m \in Int /\ n \in Int /\ i \in Nat /\ i <= n
        BY <1>1, <2>1
      <4> HIDE DEF n
      <4>2. IsFiniteSet(m..n) /\ Cardinality(m..n) = IF m > n THEN 0 ELSE n - m + 1
        BY <4>1, FS_Interval
      <4> QED BY <4>1, <4>2
    <3> HIDE DEF after
    <3>3. Cardinality(after) <= Cardinality((i + 1)..n) /\ Cardinality(after) \in Nat
      BY <2>2, <3>1, <3>2, FS_Subset, FS_CardinalityType
    <3>4. Cardinality((i + 1)..n) \in Nat
      BY <3>2, FS_CardinalityType
    <3> QED BY <1>1, <2>1, <2>2, <2>3, <3>2, <3>3, <3>4
  <2>4. CASE ~(i > n - M)
    <3> DEFINE last == (n - M + 1)..n
    <3>1. last \in SUBSET after
      <4> SUFFICES ASSUME NEW j \in last
                   PROVE  j \in after
        OBVIOUS
      <4>1. j \in 1..n /\ j > n - M /\ j > i
        BY <1>1, <2>1, <2>4
      <4>2. j \in Kept(h)
        BY <1>1, <4>1 DEF Kept
      <4> QED BY <4>1, <4>2
    <3>2. Cardinality(last) = M
      BY <1>1, FS_Interval
    <3> HIDE DEF after, last
    <3>3. M <= Cardinality(after) /\ Cardinality(after) \in Nat
      BY <2>2, <3>1, <3>2, FS_Subset, FS_CardinalityType
    <3> QED BY <1>1, <2>2, <2>4, <3>3
  <2> QED BY <2>3, <2>4
<1>5. \A i \in J : Line(h, i) \in Baselines!Retained(lines) <=> i \in Kept(h)
  <2> TAKE i \in J
  <2>1. Line(h, i) \in lines /\ Line(h, i).rev = h[i].rev /\ Line(h, i).action = h[i].action
    BY DEF Lines, Line
  <2>2. i \in Kept(h) <=> (i > n - M \/ h[i].action \in {"promote", "rollback"})
    BY DEF Kept
  <2> HIDE DEF lines
  <2> QED BY <1>4, <2>1, <2>2, SameCardinality DEF Baselines!Retained
<1>6. \A e \in lines : \E i \in J : e = Line(h, i)
  BY DEF Lines
<1>7. Baselines!Retained(lines) \subseteq lines
  BY DEF Baselines!Retained
<1>8. Baselines!Retained(lines) = Lines(h, Kept(h))
  <2>1. \A e \in Baselines!Retained(lines) : e \in Lines(h, Kept(h))
    BY <1>5, <1>6, <1>7 DEF Lines
  <2>2. \A i \in Kept(h) : Line(h, i) \in Baselines!Retained(lines)
    BY <1>5
  <2> QED BY <2>1, <2>2 DEF Lines
<1>9. Revs(h, J) \ {e.rev : e \in lines \ Baselines!Retained(lines)} = Revs(h, Kept(h))
  <2> DEFINE kept == Baselines!Retained(lines)
             gone == {e.rev : e \in lines \ kept}
  <2>1. \A x \in gone : \E i \in J : x = h[i].rev /\ i \notin Kept(h)
    BY <1>5, <1>6 DEF Line
  <2>2. \A i \in J : i \notin Kept(h) => h[i].rev \in gone
    <3> TAKE i \in J
    <3> HAVE i \notin Kept(h)
    <3>1. Line(h, i) \in lines \ kept /\ Line(h, i).rev = h[i].rev
      BY <1>5 DEF Lines, Line
    <3> HIDE DEF lines, kept
    <3> QED BY <3>1
  <2>3. \A i \in Kept(h) : h[i].rev \notin gone
    BY ZenonT(30), <1>3, <2>1
  <2> HIDE DEF gone
  <2>4. \A x \in Revs(h, J) \ gone : x \in Revs(h, Kept(h))
    BY <2>2 DEF Revs
  <2>5. \A x \in Revs(h, Kept(h)) : x \in Revs(h, J) \ gone
    BY <2>3 DEF Revs
  <2> QED BY <2>4, <2>5 DEF gone
<1> QED BY <1>8, <1>9

\* A history that grew by one entry still has what was to be kept of it.
LEMMA KeptGrows ==
  ASSUME Baselines!TypeOK, NEW h \in Seq(Baselines!Entry), NEW e \in Baselines!Entry
  PROVE  LET g == Append(h, e)
             n == Len(h) + 1
         IN  /\ Kept(g) \subseteq Kept(h) \cup {n} /\ Kept(h) \cup {n} \subseteq DOMAIN g
             /\ Len(g) = n /\ g[n] = e
             /\ \A i \in Kept(h) : g[i] = h[i]
<1> DEFINE g == Append(h, e)
           n == Len(h) + 1
<1>1. /\ Len(h) \in Nat /\ DOMAIN h = 1..Len(h) /\ Len(g) = n /\ DOMAIN g = 1..n
      /\ \A i \in 1..Len(h) : g[i] = h[i]
      /\ g[n] = e
  BY AppendProperties
<1> HIDE DEF g
<1>2. Kept(g) \subseteq Kept(h) \cup {n}
  <2> SUFFICES ASSUME NEW i \in Kept(g), i # n
               PROVE  i \in Kept(h)
    OBVIOUS
  <2>1. i \in 1..Len(h) /\ g[i] = h[i]
    BY <1>1 DEF Kept
  <2> QED BY <1>1, <2>1, BaselineConstants DEF Kept
<1>3. Kept(h) \cup {n} \subseteq DOMAIN g
  BY <1>1 DEF Kept
<1>4. \A i \in Kept(h) : g[i] = h[i]
  BY <1>1 DEF Kept
<1> QED BY <1>1, <1>2, <1>3, <1>4 DEF g

\* What ReadIndex keeps and gives up of the index is what is to be kept of the new history.
LEMMA IndexRead ==
  ASSUME Baselines!TypeOK, NEW h \in Seq(Baselines!Entry), NEW g, NEW R, NEW v,
         SoundHistory(g, R, v), g # <<>>,
         g = h \/ \E e \in Baselines!Entry : g = Append(h, e)
  PROVE  LET last == g[Len(g)]
             lines == {e \in Lines(h, Kept(h)) : e.rev # last.rev}
                        \cup {[rev |-> last.rev, action |-> last.action]}
             revs == Revs(h, Kept(h)) \cup {last.rev}
             kept == Baselines!Retained(lines)
         IN  /\ kept = Lines(g, Kept(g))
             /\ revs \ {e.rev : e \in lines \ kept} = Revs(g, Kept(g))
<1> DEFINE n == Len(g)
           last == g[n]
           J == Kept(h) \cup {n}
           lines == {e \in Lines(h, Kept(h)) : e.rev # last.rev}
                      \cup {[rev |-> last.rev, action |-> last.action]}
           revs == Revs(h, Kept(h)) \cup {last.rev}
<1>1. /\ g \in Seq(Baselines!Entry) /\ J \subseteq DOMAIN g /\ Kept(g) \subseteq J
      /\ \A i \in Kept(h) : g[i] = h[i]
  <2>1. CASE g = h
    <3>1. n \in DOMAIN g
      BY <2>1
    <3> QED BY <2>1, <3>1 DEF Kept
  <2>2. CASE \E e \in Baselines!Entry : g = Append(h, e)
    <3>1. PICK e \in Baselines!Entry : g = Append(h, e)
      BY <2>2
    <3>2. Append(h, e) \in Seq(Baselines!Entry)
      BY AppendProperties
    <3> QED BY <3>1, <3>2, KeptGrows
  <2> QED BY <2>1, <2>2
<1>2. n \in DOMAIN g /\ n \in J
  BY <1>1
<1>3. \A i \in DOMAIN g : i # n => g[i].rev # g[n].rev
  <2> TAKE i \in DOMAIN g
  <2> HAVE i # n
  <2>1. i < n /\ g[i].rev < g[n].rev
    BY <1>1, <1>2 DEF SoundHistory
  <2>2. g[i].rev \in Nat /\ g[n].rev \in Nat
    BY <1>1, <1>2, RevisionsAreNumbers
  <2> QED BY <2>1, <2>2
<1> HIDE DEF n
<1>4. lines = Lines(g, J)
  <2>1. \A e \in lines : e \in Lines(g, J)
    BY <1>1 DEF Lines, Line
  <2>2. \A i \in J : Line(g, i) \in lines
    <3> TAKE i \in J
    <3>1. CASE i = n
      BY <3>1 DEF Line
    <3>2. CASE i # n
      <4>1. i \in Kept(h) /\ Line(g, i) = Line(h, i) /\ Line(g, i).rev # last.rev
        BY <1>1, <1>3, <3>2 DEF Line
      <4>2. Line(h, i) \in Lines(h, Kept(h))
        BY <4>1 DEF Lines
      <4> QED BY <4>1, <4>2
    <3> QED BY <3>1, <3>2
  <2> HIDE DEF lines
  <2> QED BY <2>1, <2>2 DEF Lines
<1>5. revs = Revs(g, J)
  BY <1>1 DEF Revs
<1> HIDE DEF lines, revs, J, last
<1>6. LET kept == Baselines!Retained(Lines(g, J))
      IN  /\ kept = Lines(g, Kept(g))
          /\ Revs(g, J) \ {e.rev : e \in Lines(g, J) \ kept} = Revs(g, Kept(g))
  BY <1>1, RetainedLines
<1>7. LET kept == Baselines!Retained(lines)
      IN  /\ kept = Lines(g, Kept(g))
          /\ revs \ {e.rev : e \in lines \ kept} = Revs(g, Kept(g))
  BY <1>4, <1>5, <1>6
<1> QED BY <1>7 DEF lines, revs, last, n

-----------------------------------------------------------------------------
(* Baselines: audits.                                                      *)

\* One command at a time: while one is moving the others are idle.
LEMMA OthersIdle ==
  ASSUME Baselines!TypeOK, BaselinesSound, Baselines!Serial, NEW p \in Processes,
         p \in bCircumstance.processes, NEW q \in Processes, q # p
  PROVE  bCommand[q] = Baselines!Idle /\ ~Writing(q)
BY DEF Baselines!Serial, BaselinesSound, Writing

\* After a step of one command it is the only one there is.
LEMMA OneCommand ==
  ASSUME Baselines!TypeOK, BaselinesSound, Baselines!Serial, NEW p \in Processes,
         p \in bCircumstance.processes, NEW c, Baselines!Become(p, c)
  PROVE  /\ bCommand'[p] = c
         /\ \A q \in Processes : q # p => bCommand'[q] = Baselines!Idle
         /\ \A q \in Processes : Writing(q)' => q = p
         /\ (c = Baselines!Idle \/ c.at = "promote") => ~Writing(p)'
<1>1. bCommand'[p] = c /\ \A q \in Processes : q # p => bCommand'[q] = bCommand[q]
  BY DEF Baselines!TypeOK, Baselines!Become
<1>2. \A q \in Processes : q # p => bCommand'[q] = Baselines!Idle
  BY <1>1, OthersIdle
<1> QED BY <1>1, <1>2 DEF Writing, Baselines!Idle

\* A command that begins finds every audit about its baseline.
LEMMA AuditsAtRest ==
  ASSUME AuditsFollow, Baselines!Orderly, \A q \in Processes : ~Writing(q)
  PROVE  \A k \in Keys : Audited(audit[k], registry[k])
BY DEF AuditsFollow

LEMMA ProceedAudits ==
  ASSUME Baselines!TypeOK, BaselinesSound, AuditsFollow,
         UNCHANGED <<bCircumstance, registry, audit>>,
         NEW p \in Processes, p \in bCircumstance.processes, NEW k \in Keys,
         NEW r, NEW h, ~Writing(p),
         h = registry[k].history \/ \E e \in Baselines!Entry : h = Append(registry[k].history, e),
         Baselines!Proceed(p, k, r, h)
  PROVE  AuditsFollow'
<1> SUFFICES ASSUME Baselines!Orderly
             PROVE  AuditsFollow'
  BY SameCircumstance DEF AuditsFollow
<1> DEFINE c == [at |-> "latest", k |-> k, report |-> r, registry |-> registry,
                 history |-> h, index |-> {}, gone |-> {}]
<1>1. Baselines!Serial /\ Baselines!Become(p, c)
  BY DEF Baselines!Orderly, Baselines!Proceed
<1>2. \A q \in Processes : ~Writing(q)
  BY <1>1, OthersIdle
<1>3. \A j \in Keys : Audited(audit[j], registry[j])
  BY <1>2, AuditsAtRest
<1>4. Half(c, audit[c.k], registry)
  <2>1. h = registry[k].history \/ h = Append(registry[k].history, h[Len(h)])
    <3> SUFFICES ASSUME NEW e \in Baselines!Entry, h = Append(registry[k].history, e)
                 PROVE  h[Len(h)] = e
      OBVIOUS
    <3>1. registry[k].history \in Seq(Baselines!Entry)
      BY WholeRegistry, BaselineParts DEF AuditsFollow, Baselines!TypeOK
    <3> QED BY <3>1, AppendProperties
  <2> QED BY <1>3, <2>1 DEF Half
<1>5. c.k = k
  OBVIOUS
<1> HIDE DEF c
<1>6. bCommand'[p] = c /\ \A q \in Processes : Writing(q)' => q = p
  BY <1>1, OneCommand
<1>7. registry' # Baselines!Torn'
  BY DEF AuditsFollow, Baselines!Torn
<1>8. \A j \in Keys : Audited(audit'[j], registry'[j])
  BY <1>3
<1>9. \A q \in Processes : Writing(q)' => Half(bCommand'[q], audit'[bCommand'[q].k], registry')
  BY <1>4, <1>6
<1> QED BY <1>7, <1>8, <1>9 DEF AuditsFollow

\* A stage of the writing that leaves the registry alone.
LEMMA StageAudits ==
  ASSUME Baselines!TypeOK, BaselinesSound, AuditsFollow, Baselines!Orderly,
         UNCHANGED <<bCircumstance, registry>>,
         NEW p \in Processes, Writing(p), NEW d, NEW a,
         audit' = [audit EXCEPT ![bCommand[p].k] = a], Baselines!Become(p, d),
         d.k = bCommand[p].k, Half(d, a, registry), d # Baselines!Idle, d.at # "promote"
  PROVE  AuditsFollow'
<1> DEFINE k == bCommand[p].k
<1>1. k \in Keys /\ p \in bCircumstance.processes /\ Baselines!Serial
  BY WritingType DEF BaselinesSound, Writing, Baselines!Orderly
<1>2. bCommand'[p] = d /\ \A q \in Processes : Writing(q)' => q = p
  BY <1>1, OneCommand
<1>3. \A j \in Keys : j # k => audit'[j] = audit[j]
  BY DEF Baselines!TypeOK
<1>4. audit'[k] = a
  BY <1>1 DEF Baselines!TypeOK
<1>5. \A q \in Processes : Writing(q) => q = p
  BY <1>1, OthersIdle
<1>6. \A j \in Keys : j # k => Audited(audit[j], registry[j])
  BY <1>5 DEF AuditsFollow
<1>7. Writing(p)'
  BY <1>2 DEF Writing, Baselines!Idle
<1>8. registry' # Baselines!Torn'
  BY DEF AuditsFollow, Baselines!Torn
<1>9. \A q \in Processes : Writing(q)' => Half(bCommand'[q], audit'[bCommand'[q].k], registry')
  BY <1>2, <1>4
<1>10. \A j \in Keys : (\A q \in Processes : Writing(q)' => bCommand'[q].k # j)
                         => Audited(audit'[j], registry'[j])
  BY <1>2, <1>3, <1>6, <1>7
<1> QED BY <1>8, <1>9, <1>10 DEF AuditsFollow

LEMMA SetAudits ==
  ASSUME Baselines!TypeOK, BaselinesSound, AuditsFollow, NEW p \in Processes,
         p \in bCircumstance.processes, ~Writing(p), NEW k \in Keys, NEW r \in DOMAIN reports,
         NEW action \in {"set", "promote"}, Baselines!Set(p, k, r, action)
  PROVE  AuditsFollow'
<1> DEFINE b == registry[k]
           e == [rev |-> revision + 1, report |-> r, action |-> action, undo |-> FALSE]
<1>1. registry # Baselines!Torn /\ UNCHANGED <<bCircumstance, reports, registry, audit>>
  BY DEF Baselines!Set
<1>2. \/ Baselines!Proceed(p, k, r, b.history)
      \/ Baselines!Proceed(p, k, r, Append(b.history, e)) /\ revision < bCircumstance.revisions
  BY DEF Baselines!Set
<1>3. revision < bCircumstance.revisions => e \in Baselines!Entry
  BY <1>1, EntryAdded, KnownSound, BaselineConstants
<1> HIDE DEF e, b
<1> QED BY <1>1, <1>2, <1>3, ProceedAudits DEF b

LEMMA RollbackAudits ==
  ASSUME Baselines!TypeOK, BaselinesSound, AuditsFollow, NEW p \in Processes,
         Baselines!RollbackBaseline(p)
  PROVE  AuditsFollow'
<1>1. PICK k \in Keys, asked \in {0} \cup DOMAIN reports :
         /\ registry[k] # Baselines!Unset
         /\ LET r == Baselines!Target(registry[k].history, registry[k].report, asked)
            IN  /\ r # 0
                /\ Baselines!Proceed(p, k, r, Append(registry[k].history,
                     [rev |-> revision + 1, report |-> r, action |-> "rollback",
                      undo |-> asked = 0]))
  BY DEF Baselines!RollbackBaseline
<1>2. /\ registry # Baselines!Torn /\ revision < bCircumstance.revisions
      /\ UNCHANGED <<bCircumstance, registry, audit>>
      /\ p \in bCircumstance.processes /\ ~Writing(p)
  BY DEF Baselines!RollbackBaseline, Baselines!Free, Writing
<1> DEFINE h == registry[k].history
           r == Baselines!Target(h, registry[k].report, asked)
           e == [rev |-> revision + 1, report |-> r, action |-> "rollback", undo |-> asked = 0]
<1>3. h \in Seq(Baselines!Entry)
  BY <1>2, KnownSound
<1>4. r \in Baselines!Numbers
  BY <1>1, <1>3, TargetFound
<1>5. e \in Baselines!Entry
  <2> HIDE DEF r
  <2> QED BY <1>2, <1>3, <1>4, EntryAdded
<1>6. Baselines!Proceed(p, k, r, Append(h, e))
  BY <1>1
<1> HIDE DEF e, r
<1> QED BY <1>2, <1>5, <1>6, ProceedAudits

LEMMA WritingAudits ==
  ASSUME Baselines!TypeOK, BaselinesSound, AuditsFollow, Baselines!Orderly, NEW p \in Processes,
         \/ Baselines!WriteLatest(p) \/ Baselines!WriteVersion(p) \/ Baselines!ReadIndex(p)
         \/ Baselines!Prune(p) \/ Baselines!WriteIndex(p)
  PROVE  AuditsFollow'
<1> DEFINE c == bCommand[p]
           a == audit[c.k]
           old == registry[c.k]
<1>1. Writing(p) /\ UNCHANGED <<bCircumstance, reports, revision, registry>>
  <2>1. UNCHANGED registry
    BY DEF Baselines!WriteLatest, Baselines!WriteVersion, Baselines!ReadIndex,
           Baselines!Prune, Baselines!WriteIndex
  <2> QED BY <2>1, AuditSteps
<1>2. /\ c \in [at : {"latest", "version", "index", "prune", "keep", "save"}, k : Keys,
               report : Baselines!Numbers, registry : Baselines!Registry \ {Baselines!Torn},
               history : Seq(Baselines!Entry), index : SUBSET Baselines!Indexed,
               gone : SUBSET Baselines!Revisions]
      /\ a \in Baselines!Audit
  BY <1>1, WritingType DEF Baselines!TypeOK
<1>3. Half(c, a, registry) /\ registry # Baselines!Torn
  BY <1>1 DEF AuditsFollow
<1>4. a \in [latest : Baselines!Numbers \cup {0}, versions : SUBSET Baselines!Revisions,
             index : SUBSET Baselines!Indexed]
  BY <1>2 DEF Baselines!Audit
<1>5. audit = [audit EXCEPT ![c.k] = a]
  BY <1>2 DEF Baselines!TypeOK
<1>6. CASE Baselines!WriteLatest(p)
  <2> DEFINE b == [a EXCEPT !.latest = c.report]
             d == [c EXCEPT !.at = "version"]
  <2>1. /\ audit' = [audit EXCEPT ![c.k] = b] /\ Baselines!Become(p, d) /\ c.at = "latest"
    BY <1>2, <1>6 DEF Baselines!WriteLatest, Baselines!TypeOK
  <2>2. /\ b.latest = c.report /\ b.index = a.index /\ b.versions = a.versions
        /\ d.at = "version" /\ d.k = c.k /\ d.history = c.history /\ d.registry = c.registry
        /\ d.report = c.report /\ d # Baselines!Idle
    BY <1>2, <1>4 DEF Baselines!Idle
  <2> HIDE DEF b, d
  <2>3. Half(d, b, registry)
    BY <1>3, <2>1, <2>2 DEF Half, Audited
  <2> QED BY <1>1, <2>1, <2>2, <2>3, StageAudits
<1>7. CASE Baselines!WriteVersion(p)
  <2> DEFINE b == [a EXCEPT !.versions = a.versions \cup {c.history[Len(c.history)].rev}]
             d == [c EXCEPT !.at = "index"]
  <2>1. /\ audit' = [audit EXCEPT ![c.k] = b] /\ Baselines!Become(p, d) /\ c.at = "version"
    BY <1>2, <1>7 DEF Baselines!WriteVersion, Baselines!TypeOK
  <2>2. /\ b.latest = a.latest /\ b.index = a.index
        /\ b.versions = a.versions \cup {c.history[Len(c.history)].rev}
        /\ d.at = "index" /\ d.k = c.k /\ d.history = c.history /\ d.registry = c.registry
        /\ d.report = c.report /\ d # Baselines!Idle
    BY <1>2, <1>4 DEF Baselines!Idle
  <2> HIDE DEF b, d
  <2>3. Half(d, b, registry)
    BY <1>3, <2>1, <2>2 DEF Half
  <2> QED BY <1>1, <2>1, <2>2, <2>3, StageAudits
<1>8. CASE Baselines!ReadIndex(p)
  <2> DEFINE last == c.history[Len(c.history)]
             entries == {e \in a.index : e.rev # last.rev}
                          \cup {[rev |-> last.rev, action |-> last.action]}
             kept == Baselines!Retained(entries)
             gone == {e.rev : e \in entries \ kept}
             d == [c EXCEPT !.at = "prune", !.index = kept, !.gone = gone]
  <2>1. UNCHANGED audit /\ Baselines!Become(p, d) /\ c.at = "index"
    BY <1>8 DEF Baselines!ReadIndex
  <2>2. /\ a.latest = c.report
        /\ a.index = Lines(old.history, Kept(old.history))
        /\ a.versions = Revs(old.history, Kept(old.history)) \cup {last.rev}
        /\ c.history = old.history \/ c.history = Append(old.history, last)
    BY <1>3, <2>1 DEF Half
  <2>3. /\ SoundHistory(c.history, DOMAIN reports, revision) /\ c.history # <<>>
        /\ old.history \in Seq(Baselines!Entry) /\ last \in Baselines!Entry
    <3>1. Sound(New(c), DOMAIN reports, revision)
      BY <1>1 DEF BaselinesSound, SoundCommand, Writing
    <3> QED BY <1>2, <1>3, <3>1, KnownSound DEF Sound, New
  <2>4. kept = Lines(c.history, Kept(c.history))
        /\ a.versions \ gone = Revs(c.history, Kept(c.history))
    <3> DEFINE h == old.history
               g == c.history
               end == g[Len(g)]
               lines == {e \in Lines(h, Kept(h)) : e.rev # end.rev}
                          \cup {[rev |-> end.rev, action |-> end.action]}
               revs == Revs(h, Kept(h)) \cup {end.rev}
    <3>1. /\ Baselines!Retained(lines) = Lines(g, Kept(g))
          /\ revs \ {e.rev : e \in lines \ Baselines!Retained(lines)} = Revs(g, Kept(g))
      <4>1. /\ h \in Seq(Baselines!Entry) /\ g # <<>> /\ SoundHistory(g, DOMAIN reports, revision)
            /\ g = h \/ \E e \in Baselines!Entry : g = Append(h, e)
        BY <2>2, <2>3
      <4> HIDE DEF g, h, last, entries
      <4> QED BY <4>1, IndexRead
    <3>2. entries = lines /\ a.versions = revs
      BY <2>2
    <3> HIDE DEF entries, lines, revs
    <3> QED BY <3>1, <3>2
  <2> HIDE DEF kept, gone
  <2>5. /\ d.at = "prune" /\ d.k = c.k /\ d.history = c.history /\ d.registry = c.registry
        /\ d.report = c.report /\ d # Baselines!Idle /\ d.index = kept /\ d.gone = gone
    BY <1>2 DEF Baselines!Idle
  <2> HIDE DEF d
  <2>6. Half(d, a, registry)
    BY <1>3, <2>2, <2>4, <2>5 DEF Half
  <2>7. audit' = [audit EXCEPT ![c.k] = a]
    BY <1>5, <2>1
  <2> QED BY <1>1, <2>1, <2>5, <2>6, <2>7, StageAudits
<1>9. CASE Baselines!Prune(p)
  <2> DEFINE b == [a EXCEPT !.versions = a.versions \ c.gone]
             d == [c EXCEPT !.at = "keep"]
  <2>1. /\ audit' = [audit EXCEPT ![c.k] = b] /\ Baselines!Become(p, d) /\ c.at = "prune"
    BY <1>2, <1>9 DEF Baselines!Prune, Baselines!TypeOK
  <2>2. /\ b.latest = a.latest /\ b.index = a.index /\ b.versions = a.versions \ c.gone
        /\ d.at = "keep" /\ d.k = c.k /\ d.history = c.history /\ d.registry = c.registry
        /\ d.report = c.report /\ d # Baselines!Idle /\ d.index = c.index
    BY <1>2, <1>4 DEF Baselines!Idle
  <2> HIDE DEF b, d
  <2>3. Half(d, b, registry)
    BY <1>3, <2>1, <2>2 DEF Half
  <2> QED BY <1>1, <2>1, <2>2, <2>3, StageAudits
<1>10. CASE Baselines!WriteIndex(p)
  <2> DEFINE b == [a EXCEPT !.index = c.index]
             d == [c EXCEPT !.at = "save"]
  <2>1. /\ audit' = [audit EXCEPT ![c.k] = b] /\ Baselines!Become(p, d) /\ c.at = "keep"
    BY <1>2, <1>10 DEF Baselines!WriteIndex, Baselines!TypeOK
  <2>2. /\ b.latest = a.latest /\ b.index = c.index /\ b.versions = a.versions
        /\ d.at = "save" /\ d.k = c.k /\ d.history = c.history /\ d.registry = c.registry
        /\ d.report = c.report /\ d # Baselines!Idle
    BY <1>2, <1>4 DEF Baselines!Idle
  <2> HIDE DEF b, d
  <2>3. Half(d, b, registry)
    BY <1>3, <2>1, <2>2 DEF Half
  <2> QED BY <1>1, <2>1, <2>2, <2>3, StageAudits
<1> QED BY <1>6, <1>7, <1>8, <1>9, <1>10

LEMMA SaveAudits ==
  ASSUME Baselines!TypeOK, BaselinesSound, AuditsFollow, Baselines!Orderly, NEW p \in Processes,
         Baselines!SaveRegistry(p)
  PROVE  AuditsFollow'
<1> DEFINE c == bCommand[p]
<1>1. /\ Writing(p) /\ UNCHANGED <<bCircumstance, audit>>
      /\ registry' = [c.registry EXCEPT ![c.k] = New(c)]
      /\ Baselines!Become(p, Baselines!Idle) /\ c.at = "save"
  BY AuditSteps DEF Baselines!SaveRegistry, New
<1>2. Half(c, audit[c.k], registry) /\ registry # Baselines!Torn
  BY <1>1 DEF AuditsFollow
<1>3. c.k \in Keys /\ registry \in [Keys -> Baselines!Baseline] /\ c.registry = registry
  BY <1>1, <1>2, WritingType, WholeRegistry DEF Baselines!TypeOK, Half
<1>4. p \in bCircumstance.processes /\ Baselines!Serial
  BY <1>1 DEF BaselinesSound, Writing, Baselines!Orderly
<1>5. \A q \in Processes : ~Writing(q)'
  BY <1>1, <1>4, OneCommand
<1>6. \A q \in Processes : Writing(q) => q = p
  BY <1>4, OthersIdle
<1>7. \A j \in Keys : j # c.k => Audited(audit[j], registry[j])
  BY <1>6 DEF AuditsFollow
<1>8. Audited(audit[c.k], New(c))
  BY <1>1, <1>2 DEF Half, Audited, New
<1>9. \A j \in Keys : Audited(audit'[j], registry'[j])
  <2> TAKE j \in Keys
  <2>1. CASE j = c.k
    BY <1>1, <1>3, <1>8, <2>1
  <2>2. CASE j # c.k
    BY <1>1, <1>3, <1>7, <2>2
  <2> QED BY <2>1, <2>2
<1>10. registry' # Baselines!Torn'
  <2>1. registry'[c.k] = New(c) /\ DOMAIN registry' = Keys
    BY <1>1, <1>3
  <2> QED BY <1>3, <2>1 DEF Baselines!Torn
<1> QED BY <1>5, <1>9, <1>10 DEF AuditsFollow

\* One command at a time, none dying: a step leaves every audit as it should be.
LEMMA AuditStep ==
  ASSUME Baselines!TypeOK, BaselinesSound, AuditsFollow, Baselines!Next
  PROVE  AuditsFollow'
<1>1. PICK p \in Processes :
        \/ Baselines!CreateReport(p) \/ Baselines!SetBaseline(p) \/ Baselines!PromoteCompare(p)
        \/ Baselines!PromoteSet(p) \/ Baselines!RollbackBaseline(p)
        \/ Baselines!WriteLatest(p) \/ Baselines!WriteVersion(p) \/ Baselines!ReadIndex(p)
        \/ Baselines!Prune(p) \/ Baselines!WriteIndex(p) \/ Baselines!SaveRegistry(p)
        \/ Baselines!Crash(p)
  BY DEF Baselines!Next
<1>2. UNCHANGED bCircumstance
  BY <1>1, AuditSteps DEF Baselines!CreateReport, Baselines!SetBaseline, Baselines!PromoteCompare,
       Baselines!PromoteSet, Baselines!RollbackBaseline, Baselines!Set, Baselines!Crash
<1> SUFFICES ASSUME Baselines!Orderly
             PROVE  AuditsFollow'
  BY <1>2, SameCircumstance DEF AuditsFollow
<1> DEFINE c == bCommand[p]
<1>3. ~Baselines!Crash(p) /\ Baselines!Serial
  BY DEF Baselines!Crash, Baselines!Orderly
<1>4. CASE Baselines!CreateReport(p)
  <2>1. UNCHANGED <<registry, audit, bCommand>>
    BY <1>4 DEF Baselines!CreateReport
  <2>2. \A q \in Processes : Writing(q)' <=> Writing(q)
    BY <2>1 DEF Writing, Baselines!Idle
  <2> QED BY <2>1, <2>2 DEF AuditsFollow, Baselines!Torn
<1>5. CASE Baselines!SetBaseline(p)
  BY <1>5, SetAudits DEF Baselines!SetBaseline, Baselines!Free, Writing
<1>6. CASE Baselines!PromoteCompare(p)
  <2>1. PICK k \in Keys, r \in DOMAIN reports :
          Baselines!Become(p, [at |-> "promote", k |-> k, report |-> r])
    BY <1>6 DEF Baselines!PromoteCompare
  <2>2. /\ UNCHANGED <<registry, audit>> /\ ~Writing(p)
        /\ p \in bCircumstance.processes
    BY <1>6 DEF Baselines!PromoteCompare, Baselines!Free, Writing
  <2>3. \A q \in Processes : ~Writing(q)
    BY <1>3, <2>2, OthersIdle
  <2>4. \A q \in Processes : ~Writing(q)'
    BY <1>3, <2>1, <2>2, OneCommand
  <2> QED BY <2>2, <2>3, <2>4, AuditsAtRest DEF AuditsFollow, Baselines!Torn
<1>7. CASE Baselines!PromoteSet(p)
  <2>1. /\ c.k \in Keys /\ c.report \in DOMAIN reports
        /\ Baselines!Set(p, c.k, c.report, "promote") /\ c # Baselines!Idle /\ ~Writing(p)
    BY <1>7, PromotingType DEF Baselines!PromoteSet, Baselines!Idle, Writing
  <2>2. p \in bCircumstance.processes
    BY <2>1 DEF BaselinesSound
  <2> QED BY <2>1, <2>2, SetAudits
<1> QED BY <1>1, <1>3, <1>4, <1>5, <1>6, <1>7, RollbackAudits, WritingAudits, SaveAudits

-----------------------------------------------------------------------------
(* Baselines: promotions.                                                  *)

\* A report that has no more families than are shown shows them all.
LEMMA AllShown ==
  ASSUME Baselines!TypeOK, NEW report, Cardinality(Baselines!Seen(report)) <= MaxFamilies
  PROVE  Baselines!Shown(report) = Baselines!Seen(report)
<1> DEFINE seen == Baselines!Seen(report)
<1>1. seen \subseteq Families /\ IsFiniteSet(Families) /\ MaxFamilies \in Nat
  BY BaselineConstants DEF Baselines!Seen
<1>2. IsFiniteSet(seen) /\ Cardinality(seen) \in Nat
  <2> HIDE DEF seen
  <2> QED BY <1>1, FS_Subset, FS_CardinalityType
<1>3. ASSUME NEW f \in seen, NEW first \in SUBSET (seen \ {f})
      PROVE  Baselines!Cardinality(first) < MaxFamilies
  <2> HIDE DEF seen
  <2>1. /\ IsFiniteSet(seen \ {f}) /\ Cardinality(seen \ {f}) = Cardinality(seen) - 1
        /\ Cardinality(seen \ {f}) \in Nat
    BY <1>2, FS_RemoveElement, FS_CardinalityType
  <2>2. Cardinality(first) <= Cardinality(seen \ {f}) /\ Cardinality(first) \in Nat
    BY <2>1, FS_Subset, FS_CardinalityType
  <2> QED BY <1>1, <1>2, <2>1, <2>2, SameCardinality DEF seen
<1>4. \A f \in seen :
        Baselines!Cardinality({g \in seen \ {f} :
          Baselines!Greater(Baselines!SortKey(report, g), Baselines!SortKey(report, f))})
            < MaxFamilies
  <2> HIDE DEF seen
  <2> QED BY <1>3
<1> QED BY <1>4 DEF Baselines!Shown

\* What the policy of the repository accepts adds nothing.
LEMMA AcceptableAddsNothing ==
  ASSUME Baselines!TypeOK, NEW new, NEW old, NEW all \in BOOLEAN,
         Baselines!Acceptable(old, new, Baselines!FilePolicy, all)
  PROVE  AddsNothing(new, old)
<1>1. /\ Baselines!Verdicts(new) \subseteq {"pass", "conditional_pass"}
      /\ Baselines!Findings(new) - Baselines!Findings(old) <= 0
      /\ Baselines!Rows(old, new, all) \subseteq {"unchanged", "removed"}
  BY DEF Baselines!Acceptable, Baselines!FilePolicy
<1>2. "fail" \notin Baselines!Verdicts(new)
  BY <1>1
<1>3. ASSUME Cardinality(Baselines!Seen(new)) <= MaxFamilies,
             Cardinality(Baselines!Seen(old)) <= MaxFamilies,
             NEW f \in Baselines!Seen(new)
      PROVE  f \in Baselines!Seen(old) /\ Baselines!Weight(new, f) = Baselines!Weight(old, f)
  <2>1. Baselines!Shown(new) = Baselines!Seen(new) /\ Baselines!Shown(old) = Baselines!Seen(old)
    BY <1>3, AllShown
  <2>2. Baselines!Status(old, new, f) \in {"unchanged", "removed"}
    BY <1>1, <1>3, <2>1 DEF Baselines!Rows
  <2> QED BY <1>3, <2>1, <2>2 DEF Baselines!Status
<1> QED BY <1>1, <1>2, <1>3 DEF AddsNothing

\* A new entry is compared with the one that was the last.
LEMMA ComparedEntry ==
  ASSUME Baselines!TypeOK, NEW h \in Seq(Baselines!Entry), NEW e \in Baselines!Entry,
         Compared(h, reports),
         e.action = "promote" =>
           h # <<>> /\ AddsNothing(reports[e.report], reports[h[Len(h)].report])
  PROVE  Compared(Append(h, e), reports)
<1> DEFINE g == Append(h, e)
           n == Len(h)
<1>1. /\ n \in Nat /\ DOMAIN h = 1..n /\ DOMAIN g = 1..(n + 1)
      /\ \A i \in 1..n : g[i] = h[i]
      /\ g[n + 1] = e
  BY AppendProperties
<1>2. h # <<>> <=> n > 0
  BY <1>1
<1> SUFFICES ASSUME NEW i \in DOMAIN g, g[i].action = "promote"
             PROVE  i > 1 /\ AddsNothing(reports[g[i].report], reports[g[i - 1].report])
  BY DEF Compared
<1> HIDE DEF g
<1>3. CASE i \in 1..n
  <2>1. g[i] = h[i] /\ i > 1 /\ AddsNothing(reports[h[i].report], reports[h[i - 1].report])
    BY <1>1, <1>3 DEF Compared
  <2>2. i - 1 \in 1..n
    BY <1>1, <1>3, <2>1
  <2> QED BY <1>1, <2>1, <2>2
<1>4. CASE i = n + 1
  <2>1. g[i] = e /\ n > 0
    BY <1>1, <1>2, <1>4
  <2>2. i - 1 = n /\ n \in 1..n
    BY <1>1, <1>4, <2>1
  <2> QED BY <1>1, <1>4, <2>1, <2>2
<1> QED BY <1>1, <1>3, <1>4

\* New reports leave the comparisons as they were.
LEMMA ComparedMore ==
  ASSUME NEW E, NEW h \in Seq(E), NEW rs, NEW ss, NEW v, Compared(h, rs),
         SoundHistory(h, DOMAIN rs, v),
         \A i \in DOMAIN rs : ss[i] = rs[i]
  PROVE  Compared(h, ss)
<1> SUFFICES ASSUME NEW i \in DOMAIN h, h[i].action = "promote"
             PROVE  i > 1 /\ AddsNothing(ss[h[i].report], ss[h[i - 1].report])
  BY DEF Compared
<1>1. i > 1 /\ AddsNothing(rs[h[i].report], rs[h[i - 1].report])
  BY DEF Compared
<1>2. i - 1 \in DOMAIN h
  BY <1>1
<1>3. h[i].report \in DOMAIN rs /\ h[i - 1].report \in DOMAIN rs
  BY <1>2 DEF SoundHistory
<1> QED BY <1>1, <1>3

LEMMA ProceedCompared ==
  ASSUME Baselines!TypeOK, BaselinesSound, PromotionsCompared, Baselines!Serial,
         bCircumstance.policy = Baselines!FilePolicy,
         UNCHANGED <<bCircumstance, registry, reports>>, registry # Baselines!Torn,
         NEW p \in Processes, p \in bCircumstance.processes, NEW k \in Keys,
         NEW r, NEW h, Compared(h, reports), Baselines!Proceed(p, k, r, h)
  PROVE  PromotionsCompared'
<1> DEFINE c == [at |-> "latest", k |-> k, report |-> r, registry |-> registry,
                 history |-> h, index |-> {}, gone |-> {}]
<1>1. Baselines!Become(p, c)
  BY DEF Baselines!Proceed
<1>2. \A j \in Keys : Compared(registry[j].history, reports)
  BY DEF PromotionsCompared
<1>3. c.registry = registry /\ c.history = h /\ c.at = "latest"
  OBVIOUS
<1> HIDE DEF c
<1>4. /\ bCommand'[p] = c /\ \A q \in Processes : Writing(q)' => q = p
      /\ \A q \in Processes : q # p => bCommand'[q] = Baselines!Idle
  BY <1>1, OneCommand
<1>5. \A q \in Processes : Writing(q)' =>
        /\ \A j \in Keys : Compared(bCommand'[q].registry[j].history, reports')
        /\ Compared(bCommand'[q].history, reports')
  BY <1>2, <1>3, <1>4
<1>6. \A q \in Processes : bCommand'[q] # Baselines!Idle => bCommand'[q].at # "promote"
  BY <1>3, <1>4
<1> QED BY <1>2, <1>5, <1>6 DEF PromotionsCompared, Baselines!Idle

LEMMA SetCompared ==
  ASSUME Baselines!TypeOK, BaselinesSound, PromotionsCompared, Baselines!Serial,
         bCircumstance.policy = Baselines!FilePolicy,
         NEW p \in Processes, p \in bCircumstance.processes, NEW k \in Keys,
         NEW r \in DOMAIN reports, NEW action \in {"set", "promote"},
         action = "promote" =>
           /\ registry[k] # Baselines!Unset
           /\ AddsNothing(reports[r], reports[registry[k].report]),
         Baselines!Set(p, k, r, action)
  PROVE  PromotionsCompared'
<1> DEFINE b == registry[k]
           e == [rev |-> revision + 1, report |-> r, action |-> action, undo |-> FALSE]
<1>1. registry # Baselines!Torn /\ UNCHANGED <<bCircumstance, reports, registry>>
  BY DEF Baselines!Set
<1>2. /\ b.history \in Seq(Baselines!Entry) /\ Compared(b.history, reports)
      /\ b # Baselines!Unset => b.history # <<>> /\ b.history[Len(b.history)].report = b.report
  BY <1>1, KnownSound DEF PromotionsCompared, Sound
<1>3. \/ Baselines!Proceed(p, k, r, b.history)
      \/ Baselines!Proceed(p, k, r, Append(b.history, e)) /\ revision < bCircumstance.revisions
  BY DEF Baselines!Set
<1>4. revision < bCircumstance.revisions => e \in Baselines!Entry
  BY <1>1, EntryAdded, KnownSound, BaselineConstants
<1>5. e.action = action /\ e.report = r
  OBVIOUS
<1>6. e.action = "promote" =>
        /\ b.history # <<>>
        /\ AddsNothing(reports[e.report], reports[b.history[Len(b.history)].report])
  BY <1>2, <1>5
<1> HIDE DEF e
<1>7. revision < bCircumstance.revisions => Compared(Append(b.history, e), reports)
  BY <1>2, <1>4, <1>6, ComparedEntry
<1> HIDE DEF b
<1> QED BY <1>1, <1>2, <1>3, <1>7, ProceedCompared

LEMMA RollbackCompared ==
  ASSUME Baselines!TypeOK, BaselinesSound, PromotionsCompared, Baselines!Serial,
         bCircumstance.policy = Baselines!FilePolicy,
         NEW p \in Processes, Baselines!RollbackBaseline(p)
  PROVE  PromotionsCompared'
<1>1. PICK k \in Keys, asked \in {0} \cup DOMAIN reports :
         /\ registry[k] # Baselines!Unset
         /\ LET r == Baselines!Target(registry[k].history, registry[k].report, asked)
            IN  /\ r # 0
                /\ Baselines!Proceed(p, k, r, Append(registry[k].history,
                     [rev |-> revision + 1, report |-> r, action |-> "rollback",
                      undo |-> asked = 0]))
  BY DEF Baselines!RollbackBaseline
<1>2. /\ registry # Baselines!Torn /\ revision < bCircumstance.revisions
      /\ UNCHANGED <<bCircumstance, registry, reports>> /\ p \in bCircumstance.processes
  BY DEF Baselines!RollbackBaseline, Baselines!Free
<1> DEFINE h == registry[k].history
           r == Baselines!Target(h, registry[k].report, asked)
           e == [rev |-> revision + 1, report |-> r, action |-> "rollback", undo |-> asked = 0]
<1>3. h \in Seq(Baselines!Entry) /\ Compared(h, reports)
  BY <1>2, KnownSound DEF PromotionsCompared
<1>4. r \in Baselines!Numbers
  BY <1>1, <1>3, TargetFound
<1>5. e \in Baselines!Entry /\ e.action = "rollback"
  <2> HIDE DEF r
  <2> QED BY <1>2, <1>3, <1>4, EntryAdded
<1>6. Baselines!Proceed(p, k, r, Append(h, e))
  BY <1>1
<1> HIDE DEF e, r, h
<1>7. Compared(Append(h, e), reports)
  BY <1>3, <1>5, ComparedEntry
<1> QED BY <1>2, <1>6, <1>7, ProceedCompared

\* One command at a time, under the policy of the repository: every promotion there is or
\* is about to be has been compared.
LEMMA ComparedStep ==
  ASSUME Baselines!TypeOK, BaselinesSound, PromotionsCompared, Baselines!Next
  PROVE  PromotionsCompared'
<1>1. PICK p \in Processes :
        \/ Baselines!CreateReport(p) \/ Baselines!SetBaseline(p) \/ Baselines!PromoteCompare(p)
        \/ Baselines!PromoteSet(p) \/ Baselines!RollbackBaseline(p)
        \/ Baselines!WriteLatest(p) \/ Baselines!WriteVersion(p) \/ Baselines!ReadIndex(p)
        \/ Baselines!Prune(p) \/ Baselines!WriteIndex(p) \/ Baselines!SaveRegistry(p)
        \/ Baselines!Crash(p)
  BY DEF Baselines!Next
<1>2. UNCHANGED bCircumstance
  BY <1>1, AuditSteps DEF Baselines!CreateReport, Baselines!SetBaseline, Baselines!PromoteCompare,
       Baselines!PromoteSet, Baselines!RollbackBaseline, Baselines!Set, Baselines!Crash
<1> SUFFICES ASSUME Baselines!Serial, bCircumstance.policy = Baselines!FilePolicy
             PROVE  PromotionsCompared'
  BY <1>2, SameCircumstance DEF PromotionsCompared, Baselines!FilePolicy
<1> DEFINE c == bCommand[p]
<1>3. registry # Baselines!Torn => \A k \in Keys : Compared(registry[k].history, reports)
  BY DEF PromotionsCompared
<1>4. c # Baselines!Idle => p \in bCircumstance.processes
  BY DEF BaselinesSound
<1>5. CASE Baselines!CreateReport(p)
  <2>1. UNCHANGED <<registry, bCommand>> /\ c = Baselines!Idle /\ p \in bCircumstance.processes
    BY <1>5 DEF Baselines!CreateReport, Baselines!Free
  <2>2. \A q \in Processes : bCommand'[q] = Baselines!Idle
    BY <2>1, OthersIdle
  <2>3. \A i \in DOMAIN reports : reports'[i] = reports[i]
    BY <1>5, CreateReportType
  <2>4. ASSUME registry # Baselines!Torn, NEW k \in Keys
        PROVE  Compared(registry[k].history, reports')
    <3>1. /\ registry[k].history \in Seq(Baselines!Entry)
          /\ SoundHistory(registry[k].history, DOMAIN reports, revision)
      BY <2>4, KnownSound
    <3> QED BY <1>3, <2>3, <2>4, <3>1, ComparedMore
  <2> QED BY <2>1, <2>2, <2>4 DEF PromotionsCompared, Writing, Baselines!Torn, Baselines!Idle
<1>6. CASE Baselines!SetBaseline(p)
  BY <1>6, SetCompared DEF Baselines!SetBaseline, Baselines!Free
<1>7. CASE Baselines!PromoteCompare(p)
  <2>1. PICK k \in Keys, r \in DOMAIN reports, all \in BOOLEAN :
          /\ registry[k] # Baselines!Unset
          /\ Baselines!Acceptable(reports[registry[k].report], reports[r],
                                  Baselines!FilePolicy, all)
          /\ Baselines!Become(p, [at |-> "promote", k |-> k, report |-> r])
    BY <1>7 DEF Baselines!PromoteCompare
  <2>2. /\ UNCHANGED <<registry, reports>> /\ registry # Baselines!Torn
        /\ p \in bCircumstance.processes
    BY <1>7 DEF Baselines!PromoteCompare, Baselines!Free
  <2>3. AddsNothing(reports[r], reports[registry[k].report])
    BY <2>1, AcceptableAddsNothing
  <2> DEFINE d == [at |-> "promote", k |-> k, report |-> r]
  <2>4. d.at = "promote" /\ d.k = k /\ d.report = r
    OBVIOUS
  <2>5. /\ bCommand'[p] = d
        /\ \A q \in Processes : q # p => bCommand'[q] = Baselines!Idle
        /\ \A q \in Processes : ~Writing(q)'
    BY <2>1, <2>2, OneCommand
  <2> HIDE DEF d
  <2> QED BY <1>3, <2>1, <2>2, <2>3, <2>4, <2>5
          DEF PromotionsCompared, Baselines!Torn, Baselines!Idle, Baselines!Unset
<1>8. CASE Baselines!PromoteSet(p)
  <2>1. /\ c.k \in Keys /\ c.report \in DOMAIN reports
        /\ Baselines!Set(p, c.k, c.report, "promote") /\ c # Baselines!Idle /\ c.at = "promote"
    BY <1>8, PromotingType DEF Baselines!PromoteSet, Baselines!Idle
  <2>2. /\ registry[c.k] # Baselines!Unset
        /\ AddsNothing(reports[c.report], reports[registry[c.k].report])
    BY <2>1 DEF PromotionsCompared
  <2> QED BY <1>4, <2>1, <2>2, SetCompared
<1>9. CASE \/ Baselines!WriteLatest(p) \/ Baselines!WriteVersion(p) \/ Baselines!ReadIndex(p)
           \/ Baselines!Prune(p) \/ Baselines!WriteIndex(p)
  <2>1. Writing(p) /\ UNCHANGED <<reports, registry>>
    <3>1. UNCHANGED registry
      BY <1>9 DEF Baselines!WriteLatest, Baselines!WriteVersion, Baselines!ReadIndex,
                  Baselines!Prune, Baselines!WriteIndex
    <3> QED BY <1>9, <3>1, AuditSteps
  <2>2. /\ \A k \in Keys : Compared(c.registry[k].history, reports)
        /\ Compared(c.history, reports)
    BY <2>1 DEF PromotionsCompared
  <2>3. ASSUME NEW d, Baselines!Become(p, d), d.registry = c.registry, d.history = c.history,
               d.at # "promote"
        PROVE  PromotionsCompared'
    <3>1. /\ bCommand'[p] = d /\ \A q \in Processes : Writing(q)' => q = p
          /\ \A q \in Processes : q # p => bCommand'[q] = Baselines!Idle
      BY <1>4, <2>1, <2>3, OneCommand DEF Writing
    <3>2. \A q \in Processes : bCommand'[q] # Baselines!Idle => bCommand'[q].at # "promote"
      BY <2>3, <3>1
    <3>3. \A q \in Processes : Writing(q)' =>
            /\ \A j \in Keys : Compared(bCommand'[q].registry[j].history, reports')
            /\ Compared(bCommand'[q].history, reports')
      BY <2>1, <2>2, <2>3, <3>1
    <3> QED BY <1>3, <2>1, <3>2, <3>3 DEF PromotionsCompared, Baselines!Torn, Baselines!Idle
  <2>4. PICK d : /\ Baselines!Become(p, d) /\ d.registry = c.registry /\ d.history = c.history
                 /\ d.at # "promote"
    BY <1>9, <2>1, StageCommand
  <2> QED BY <2>3, <2>4
<1>10. CASE Baselines!SaveRegistry(p)
  <2>1. /\ UNCHANGED <<reports>> /\ Writing(p)
        /\ registry' = [c.registry EXCEPT ![c.k] = New(c)]
        /\ Baselines!Become(p, Baselines!Idle)
    BY <1>10, AuditSteps DEF Baselines!SaveRegistry, New
  <2>2. /\ \A k \in Keys : Compared(c.registry[k].history, reports)
        /\ Compared(c.history, reports) /\ c.registry \in [Keys -> Baselines!Baseline]
    BY <2>1, WritingType DEF PromotionsCompared, Baselines!Registry
  <2>3. \A k \in Keys : Compared(registry'[k].history, reports')
    <3> TAKE k \in Keys
    <3>1. CASE k = c.k
      BY <2>1, <2>2, <3>1 DEF New
    <3>2. CASE k # c.k
      BY <2>1, <2>2, <3>2
    <3> QED BY <3>1, <3>2
  <2>4. \A q \in Processes : bCommand'[q] = Baselines!Idle
    BY <1>4, <2>1, OneCommand DEF Writing
  <2> QED BY <2>3, <2>4 DEF PromotionsCompared, Writing, Baselines!Idle
<1>11. CASE Baselines!Crash(p)
  <2>1. /\ UNCHANGED <<reports>> /\ c # Baselines!Idle
        /\ Baselines!Become(p, Baselines!Idle)
        /\ UNCHANGED registry \/ registry' = Baselines!Torn
    BY <1>11 DEF Baselines!Crash
  <2>2. \A q \in Processes : bCommand'[q] = Baselines!Idle
    BY <1>4, <2>1, OneCommand
  <2> QED BY <1>3, <2>1, <2>2 DEF PromotionsCompared, Writing, Baselines!Idle, Baselines!Torn
<1> QED BY <1>1, <1>5, <1>6, <1>7, <1>8, <1>9, <1>10, <1>11, RollbackCompared

-----------------------------------------------------------------------------
(* Baselines: the invariant.                                               *)

LEMMA BaselinesBegin ==
  ASSUME Baselines!ConstantsOK, Baselines!Init
  PROVE  BaselinesInv
<1>1. /\ bCircumstance \in BaselineCircumstances /\ reports = bCircumstance.reports
      /\ registry = [k \in Keys |-> Baselines!Unset]
      /\ audit = [k \in Keys |-> [latest |-> 0, versions |-> {}, index |-> {}]]
      /\ revision = 0 /\ bCommand = [p \in Processes |-> Baselines!Idle]
  BY DEF Baselines!Init
<1>2. Keys # {} /\ reports \in Seq(SUBSET Baselines!Snapshot)
  BY <1>1 DEF Baselines!ConstantsOK
<1>3. bCircumstance.room \in Nat /\ bCircumstance.revisions \in Nat
  <2>1. {bCircumstance.room, bCircumstance.revisions} \subseteq Nat
    BY <1>1, Zenon DEF Baselines!ConstantsOK
  <2> QED BY <2>1
<1>4. Len(reports) <= Len(bCircumstance.reports) + bCircumstance.room
  <2> DEFINE S == Baselines!Snapshot
  <2>1. reports \in Seq(SUBSET S)
    BY <1>2
  <2> HIDE DEF S
  <2> QED BY <1>1, <1>3, <2>1
<1>5. Baselines!TypeOK
  <2>1. registry \in Baselines!Registry
    BY <1>1 DEF Baselines!Registry, Baselines!Baseline
  <2>2. audit \in [Keys -> Baselines!Audit]
    BY <1>1 DEF Baselines!Audit
  <2>3. revision \in 0..bCircumstance.revisions
    BY <1>1, <1>3
  <2>4. bCommand \in [Processes -> Baselines!Command]
    BY <1>1 DEF Baselines!Command
  <2> QED BY <1>1, <1>2, <1>4, <2>1, <2>2, <2>3, <2>4 DEF Baselines!TypeOK
<1>6. BaselinesSound
  BY <1>1 DEF BaselinesSound, SoundRegistry, SoundCommand
<1>7. registry # Baselines!Torn /\ \A k \in Keys : registry[k].history = <<>> /\ registry[k].report = 0
  BY <1>1, <1>2 DEF Baselines!Torn, Baselines!Unset
<1>8. \A p \in Processes : ~Writing(p)
  BY <1>1 DEF Writing
<1>9. AuditsFollow
  <2>1. \A k \in Keys : Audited(audit[k], registry[k])
    BY <1>1, <1>7 DEF Audited, Kept, Lines, Revs
  <2> QED BY <1>7, <1>8, <2>1 DEF AuditsFollow
<1>10. PromotionsCompared
  BY <1>1, <1>7, <1>8 DEF PromotionsCompared, Compared
<1> QED BY <1>5, <1>6, <1>9, <1>10 DEF BaselinesInv

LEMMA BaselinesStay ==
  ASSUME BaselinesInv, [Baselines!Next]_(Baselines!vars)
  PROVE  BaselinesInv'
<1>1. CASE Baselines!Next
  BY <1>1, BaselineTypeStep, BaselineSoundStep, AuditStep, ComparedStep DEF BaselinesInv
<1>2. CASE UNCHANGED Baselines!vars
  <2>1. UNCHANGED <<bCircumstance, reports, registry, audit, revision, bCommand>>
    BY <1>2 DEF Baselines!vars
  <2>2. Baselines!TypeOK'
    BY <2>1, SameCircumstance DEF BaselinesInv, Baselines!TypeOK
  <2>3. BaselinesSound'
    BY <2>1 DEF BaselinesInv, BaselinesSound, Baselines!Torn, Baselines!Idle
  <2>4. \A p \in Processes : Writing(p)' <=> Writing(p)
    BY <2>1 DEF Writing, Baselines!Idle
  <2>5. AuditsFollow'
    BY <2>1, <2>4, SameCircumstance DEF BaselinesInv, AuditsFollow, Baselines!Torn
  <2>6. PromotionsCompared'
    BY <2>1, <2>4, SameCircumstance
       DEF BaselinesInv, PromotionsCompared, Baselines!Torn, Baselines!Idle, Baselines!Unset,
           Baselines!FilePolicy
  <2> QED BY <2>2, <2>3, <2>5, <2>6 DEF BaselinesInv
<1> QED BY <1>1, <1>2

LEMMA BaselinesInvariant ==
  ASSUME Baselines!ConstantsOK
  PROVE  Baselines!Spec => []BaselinesInv
BY BaselinesBegin, BaselinesStay, PTL DEF Baselines!Spec

LEMMA BaselinesInvSound ==
  ASSUME BaselinesInv
  PROVE  HistoryIsSound
<1> USE DEF BaselinesInv
<1>1. ASSUME NEW k \in Baselines!Known
      PROVE  /\ k \in Keys /\ registry # Baselines!Torn
             /\ Sound(registry[k], DOMAIN reports, revision)
  BY <1>1 DEF Baselines!Known, BaselinesSound, SoundRegistry
<1>2. Baselines!HistoryTellsCurrent
  BY <1>1 DEF Baselines!HistoryTellsCurrent, Sound, SoundHistory
<1>3. Baselines!RollbackTakesBackOne
  BY <1>1 DEF Baselines!RollbackTakesBackOne, Sound, SoundHistory
<1>4. ASSUME Baselines!Orderly, Baselines!Quiet, NEW k \in Baselines!Known
      PROVE  Audited(audit[k], registry[k])
  <2>1. \A p \in Processes : ~Writing(p)
    BY <1>4 DEF Baselines!Quiet, Writing
  <2> QED BY <1>1, <1>4, <2>1, AuditsAtRest
<1>5. Baselines!AuditMatchesRegistry
  BY <1>4 DEF Baselines!AuditMatchesRegistry, Audited, Lines, Line, Revs, Kept
<1> QED BY <1>2, <1>3, <1>5 DEF HistoryIsSound, Baselines!HistoryIsSound

LEMMA BaselinesInvAddsNothing ==
  ASSUME BaselinesInv
  PROVE  PromotionAddsNothing
<1> SUFFICES ASSUME Baselines!Serial, bCircumstance.policy = Baselines!FilePolicy,
                    NEW k \in Baselines!Known, NEW i \in DOMAIN registry[k].history,
                    registry[k].history[i].action = "promote"
             PROVE  LET h == registry[k].history
                    IN  AddsNothing(reports[h[i].report], reports[h[i - 1].report])
  BY SameCardinality DEF PromotionAddsNothing, Baselines!PromotionAddsNothing, AddsNothing
<1>1. k \in Keys /\ registry # Baselines!Torn
  BY DEF Baselines!Known
<1> QED BY <1>1 DEF BaselinesInv, PromotionsCompared, Compared

-----------------------------------------------------------------------------
(* Admission cases: what is proved of AdmissionCases holds of the part.    *)

AdmissionProofs == INSTANCE AdmissionCasesProofs WITH
  Actors <- Persons,
  Circumstances <- AdmissionCircumstances, circumstance <- aCircumstance, command <- aCommand

\* The two instances are of one module with the same parameters.
LEMMA SameAdmissions ==
  /\ (AdmissionProofs!ConstantsOK <=> Admissions!ConstantsOK)
  /\ (AdmissionProofs!Init <=> Admissions!Init)
  /\ (AdmissionProofs!Next <=> Admissions!Next)
  /\ (AdmissionProofs!StoresAgree <=> Admissions!StoresAgree)
  /\ (AdmissionProofs!HistoryExplainsCase <=> Admissions!HistoryExplainsCase)
<1> USE DEF
    AdmissionProofs!States, AdmissionProofs!Decided, AdmissionProofs!Moves, AdmissionProofs!Asked,
    AdmissionProofs!Decisions, AdmissionProofs!Reports, AdmissionProofs!Nobody,
    AdmissionProofs!People, AdmissionProofs!Missing, AdmissionProofs!ConstantsOK,
    AdmissionProofs!NewRecord, AdmissionProofs!Record, AdmissionProofs!Gate, AdmissionProofs!Event,
    AdmissionProofs!RoleChange, AdmissionProofs!Case, AdmissionProofs!Fingerprint,
    AdmissionProofs!Contract, AdmissionProofs!Contracts, AdmissionProofs!Current,
    AdmissionProofs!Normal, AdmissionProofs!Idle, AdmissionProofs!Verb, AdmissionProofs!Look,
    AdmissionProofs!Command, AdmissionProofs!Free, AdmissionProofs!Quiet, AdmissionProofs!Serial,
    AdmissionProofs!Become, AdmissionProofs!Files, AdmissionProofs!Init,
    AdmissionProofs!MoveBaseline, AdmissionProofs!RecordOverride, AdmissionProofs!GateNow,
    AdmissionProofs!Read, AdmissionProofs!View, AdmissionProofs!ReadGate,
    AdmissionProofs!RebuildOwnHistory, AdmissionProofs!Rebuild, AdmissionProofs!ReadPrevious,
    AdmissionProofs!RevisionByStatus, AdmissionProofs!Revision, AdmissionProofs!Number,
    AdmissionProofs!WriteCase, AdmissionProofs!WriteIndex, AdmissionProofs!News,
    AdmissionProofs!Publish, AdmissionProofs!Revised, AdmissionProofs!Ask,
    AdmissionProofs!Collaborate, AdmissionProofs!SaveRecord, AdmissionProofs!LoadCase,
    AdmissionProofs!RoleChanges, AdmissionProofs!Updated, AdmissionProofs!Permitted,
    AdmissionProofs!Apply, AdmissionProofs!Refuse, AdmissionProofs!Crash, AdmissionProofs!Next,
    AdmissionProofs!Orderly, AdmissionProofs!TypeOK, AdmissionProofs!RecordAgreesWithCase,
    AdmissionProofs!Told, AdmissionProofs!Has, AdmissionProofs!EventsExplain,
    AdmissionProofs!RolesExplain, AdmissionProofs!HistoryExplainsCase,
    AdmissionProofs!RevisionsAnnouncedOnce, AdmissionProofs!LastContractIsCase,
    AdmissionProofs!StoresAgree,
    Admissions!States, Admissions!Decided, Admissions!Moves, Admissions!Asked,
    Admissions!Decisions, Admissions!Reports, Admissions!Nobody, Admissions!People,
    Admissions!Missing, Admissions!ConstantsOK, Admissions!NewRecord, Admissions!Record,
    Admissions!Gate, Admissions!Event, Admissions!RoleChange, Admissions!Case,
    Admissions!Fingerprint, Admissions!Contract, Admissions!Contracts, Admissions!Current,
    Admissions!Normal, Admissions!Idle, Admissions!Verb, Admissions!Look, Admissions!Command,
    Admissions!Free, Admissions!Quiet, Admissions!Serial, Admissions!Become, Admissions!Files,
    Admissions!Init, Admissions!MoveBaseline, Admissions!RecordOverride, Admissions!GateNow,
    Admissions!Read, Admissions!View, Admissions!ReadGate, Admissions!RebuildOwnHistory,
    Admissions!Rebuild, Admissions!ReadPrevious, Admissions!RevisionByStatus, Admissions!Revision,
    Admissions!Number, Admissions!WriteCase, Admissions!WriteIndex, Admissions!News,
    Admissions!Publish, Admissions!Revised, Admissions!Ask, Admissions!Collaborate,
    Admissions!SaveRecord, Admissions!LoadCase, Admissions!RoleChanges, Admissions!Updated,
    Admissions!Permitted, Admissions!Apply, Admissions!Refuse, Admissions!Crash, Admissions!Next,
    Admissions!Orderly, Admissions!TypeOK, Admissions!RecordAgreesWithCase, Admissions!Told,
    Admissions!Has, Admissions!EventsExplain, Admissions!RolesExplain,
    Admissions!HistoryExplainsCase, Admissions!RevisionsAnnouncedOnce,
    Admissions!LastContractIsCase, Admissions!StoresAgree
<1>1. AdmissionProofs!ConstantsOK <=> Admissions!ConstantsOK
  OBVIOUS
<1>2. AdmissionProofs!Init <=> Admissions!Init
  OBVIOUS
<1>3. AdmissionProofs!Next <=> Admissions!Next
  OBVIOUS
<1>4. AdmissionProofs!StoresAgree <=> Admissions!StoresAgree
  OBVIOUS
<1>5. AdmissionProofs!HistoryExplainsCase <=> Admissions!HistoryExplainsCase
  OBVIOUS
<1> QED BY <1>1, <1>2, <1>3, <1>4, <1>5

LEMMA AdmissionsInvariant ==
  ASSUME Admissions!ConstantsOK
  PROVE  Admissions!Spec => [](StoresAgree /\ HistoryExplainsCase)
<1>1. AdmissionProofs!ConstantsOK
  BY SameAdmissions
<1>2. /\ AdmissionProofs!Spec => []AdmissionProofs!StoresAgree
      /\ AdmissionProofs!Spec => []AdmissionProofs!HistoryExplainsCase
  BY <1>1, AdmissionProofs!RecordCaseAndContractAgree, AdmissionProofs!HistoryKeptWhole
<1>3. /\ Admissions!Init => AdmissionProofs!Init
      /\ [Admissions!Next]_(Admissions!vars) => [AdmissionProofs!Next]_(AdmissionProofs!vars)
      /\ AdmissionProofs!StoresAgree => StoresAgree
      /\ AdmissionProofs!HistoryExplainsCase => HistoryExplainsCase
  <2>1. [Admissions!Next]_(Admissions!vars) => [AdmissionProofs!Next]_(AdmissionProofs!vars)
    BY SameAdmissions DEF AdmissionProofs!vars, Admissions!vars
  <2>2. /\ Admissions!Init => AdmissionProofs!Init
        /\ AdmissionProofs!StoresAgree => StoresAgree
        /\ AdmissionProofs!HistoryExplainsCase => HistoryExplainsCase
    BY SameAdmissions DEF StoresAgree, HistoryExplainsCase
  <2> QED BY <2>1, <2>2
<1> QED BY <1>2, <1>3, PTL DEF AdmissionProofs!Spec, Admissions!Spec

-----------------------------------------------------------------------------
(* Collaboration: the events of an issue, followed one after the other.    *)

\* Numbers, some at least, have a least one.
LEMMA LeastNumber ==
  ASSUME NEW T \in SUBSET Nat, T # {}
  PROVE  \E m \in T : \A j \in T : m <= j
<1>1. PICK m \in T : \A j \in T : ~(<<j, m>> \in OpToRel(<, Nat))
  BY WFMin, NatLessThanWellFounded
<1>2. \A j \in T : ~(j < m)
  BY <1>1 DEF OpToRel
<1> QED BY <1>2

\* What an issue is before its events, and a function that follows the first of them.
Unwritten == [state |-> "new", links |-> {}]
Follows(g, es, m) ==
  g[0] = Unwritten /\ \A i \in 1 .. m : g[i] = Collaborations!Follow(g[i - 1], es[i])

\* There is one that follows all.
LEMMA SomeFollows ==
  ASSUME NEW es, NEW n \in Nat
  PROVE  \E g : Follows(g, es, n)
<1> DEFINE Bad == {m \in 0 .. n : ~\E g : Follows(g, es, m)}
<1>1. SUFFICES ASSUME Bad # {} PROVE FALSE
  OBVIOUS
<1>2. Bad \in SUBSET Nat
  OBVIOUS
<1>3. PICK m \in Bad : \A j \in Bad : m <= j
  BY <1>1, <1>2, LeastNumber
<1>4. m \in 0 .. n /\ ~\E g : Follows(g, es, m)
  BY <1>3
<1>5. CASE m = 0
  <2> DEFINE g == [i \in {0} |-> Unwritten]
  <2>1. Follows(g, es, 0)
    BY DEF Follows
  <2> HIDE DEF g
  <2> QED BY <1>4, <1>5, <2>1
<1>6. CASE m # 0
  <2>1. m - 1 \in 0 .. n /\ m - 1 < m /\ m \in Nat
    BY <1>4, <1>6
  <2>2. m - 1 \notin Bad
    BY <1>2, <1>3, <2>1
  <2>3. PICK g : Follows(g, es, m - 1)
    BY <2>1, <2>2
  <2> DEFINE h == [i \in 0 .. m |-> IF i < m THEN g[i] ELSE Collaborations!Follow(g[m - 1], es[m])]
  <2>4. h[0] = Unwritten
    BY <2>1, <2>3, <1>6 DEF Follows
  <2>5. \A i \in 1 .. m : h[i] = Collaborations!Follow(h[i - 1], es[i])
    <3> TAKE i \in 1 .. m
    <3>1. CASE i = m
      BY <2>1, <3>1
    <3>2. CASE i # m
      <4>1. i \in 1 .. (m - 1) /\ i < m /\ i - 1 < m /\ i \in 0 .. m /\ i - 1 \in 0 .. m
        BY <2>1, <3>2
      <4>2. g[i] = Collaborations!Follow(g[i - 1], es[i])
        BY <2>3, <4>1 DEF Follows
      <4> QED BY <4>1, <4>2
    <3> QED BY <3>1, <3>2
  <2>6. Follows(h, es, m)
    BY <2>4, <2>5 DEF Follows
  <2> HIDE DEF h
  <2> QED BY <1>4, <2>6
<1> QED BY <1>5, <1>6

\* Two that follow the same events are the same there.
LEMMA FollowsOnce ==
  ASSUME NEW n \in Nat, NEW es, NEW ds, NEW g, NEW h, Follows(g, es, n), Follows(h, ds, n),
         \A i \in 1 .. n : es[i] = ds[i]
  PROVE  \A i \in 0 .. n : g[i] = h[i]
<1> DEFINE Bad == {m \in 0 .. n : g[m] # h[m]}
<1>1. SUFFICES ASSUME Bad # {} PROVE FALSE
  OBVIOUS
<1>2. Bad \in SUBSET Nat
  OBVIOUS
<1>3. PICK m \in Bad : \A j \in Bad : m <= j
  BY <1>1, <1>2, LeastNumber
<1>4. m \in 0 .. n /\ g[m] # h[m]
  BY <1>3
<1>5. m # 0
  BY <1>4 DEF Follows
<1>6. m - 1 \in 0 .. n /\ m \in 1 .. n /\ ~(m <= m - 1)
  BY <1>4, <1>5
<1>7. g[m - 1] = h[m - 1]
  BY <1>3, <1>6
<1> QED BY <1>4, <1>6, <1>7 DEF Follows

\* After is the last value of one that follows all.
LEMMA AfterFollows ==
  ASSUME NEW es, Len(es) \in Nat, NEW g, Follows(g, es, Len(es))
  PROVE  Collaborations!After(es) = g[Len(es)]
<1> DEFINE n == Len(es)
           Body(f) ==
             [i \in 0 .. n |->
                IF i = 0 THEN [state |-> "new", links |-> {}] ELSE Collaborations!Follow(f[i - 1], es[i])]
           F == CHOOSE f : f = Body(f)
           G == [i \in 0 .. n |-> g[i]]
<1>1. Collaborations!After(es) = F[n]
  BY DEF Collaborations!After
<1>2. G = Body(G)
  <2>1. \A i \in 0 .. n :
          g[i] = IF i = 0 THEN Unwritten ELSE Collaborations!Follow(G[i - 1], es[i])
    <3> TAKE i \in 0 .. n
    <3>1. CASE i = 0
      BY <3>1 DEF Follows
    <3>2. CASE i # 0
      <4>1. i \in 1 .. n /\ i - 1 \in 0 .. n
        BY <3>2
      <4> QED BY <3>2, <4>1 DEF Follows
    <3> QED BY <3>1, <3>2
  <2> QED BY <2>1 DEF Unwritten
<1>3. F = Body(F)
  <2> HIDE DEF G, Body
  <2> QED BY <1>2
<1> HIDE DEF F
<1>4. Follows(F, es, n)
  <2>1. \A i \in 0 .. n :
          F[i] = IF i = 0 THEN Unwritten ELSE Collaborations!Follow(F[i - 1], es[i])
    BY <1>3 DEF Unwritten
  <2> QED BY <2>1 DEF Follows
<1>5. n \in 0 .. n
  OBVIOUS
<1> HIDE DEF n
<1>6. F[n] = g[n]
  BY <1>4, <1>5, FollowsOnce DEF n
<1> QED BY <1>1, <1>6 DEF n

LEMMA AfterNothing ==
  Collaborations!After(<<>>) = Unwritten
<1>1. Len(<<>>) = 0
  OBVIOUS
<1>2. PICK g : Follows(g, <<>>, 0)
  BY SomeFollows
<1> QED BY <1>1, <1>2, AfterFollows DEF Follows

LEMMA AfterAnother ==
  ASSUME NEW S, NEW es \in Seq(S), NEW e \in S
  PROVE  Collaborations!After(Append(es, e)) = Collaborations!Follow(Collaborations!After(es), e)
<1> DEFINE n == Len(es)
           more == Append(es, e)
<1>1. n \in Nat /\ Len(more) = n + 1 /\ (\A i \in 1 .. n : more[i] = es[i]) /\ more[n + 1] = e
  BY AppendProperties
<1> HIDE DEF n, more
<1>2. PICK g : Follows(g, more, n + 1)
  <2>1. n + 1 \in Nat
    BY <1>1
  <2> HIDE DEF Follows
  <2> QED BY <2>1, SomeFollows
<1>3. Follows(g, es, n)
  BY <1>1, <1>2 DEF Follows
<1>4. Collaborations!After(es) = g[n]
  BY <1>1, <1>3, AfterFollows DEF n
<1>5. Collaborations!After(more) = g[n + 1]
  BY <1>1, <1>2, AfterFollows
<1>6. g[n + 1] = Collaborations!Follow(g[n], more[n + 1])
  BY <1>1, <1>2 DEF Follows
<1> QED BY <1>1, <1>4, <1>5, <1>6 DEF more

-----------------------------------------------------------------------------
(* The links of an issue.                                                  *)

\* The first link with this id or of this defect.
LEMMA LinkFound ==
  ASSUME NEW ls \in Seq(Collaborations!Link), NEW l, NEW d
  PROVE  LET k == Collaborations!FirstOf(ls, l, d)
             Fits(j) == (l # 0 /\ ls[j].link = l) \/ (d # 0 /\ ls[j].defect = d)
         IN  /\ k \in {0} \cup DOMAIN ls
             /\ k = 0 => \A j \in DOMAIN ls : ~Fits(j)
             /\ k # 0 => Fits(k)
<1> DEFINE Fits(j) == (l # 0 /\ ls[j].link = l) \/ (d # 0 /\ ls[j].defect = d)
           found == {j \in DOMAIN ls : Fits(j)}
           k == Collaborations!FirstOf(ls, l, d)
<1>1. k = IF found = {} THEN 0 ELSE CHOOSE j \in found : \A i \in found : j <= i
  BY DEF Collaborations!FirstOf
<1>2. DOMAIN ls = 1 .. Len(ls) /\ Len(ls) \in Nat
  BY LenProperties
<1>3. CASE found = {}
  BY <1>1, <1>3
<1>4. CASE found # {}
  <2>1. found \in SUBSET Nat
    BY <1>2
  <2> HIDE DEF found, k
  <2>2. PICK j \in found : \A i \in found : j <= i
    BY <1>4, <2>1, LeastNumber
  <2>3. k \in found
    BY <1>1, <1>4, <2>2
  <2>4. k \in DOMAIN ls /\ Fits(k) /\ k # 0
    BY <1>2, <2>3 DEF found
  <2> QED BY <2>4 DEF k
<1> QED BY <1>3, <1>4

\* Links are numbered as they come, and a defect has one.
LinksSound(ls) ==
  /\ \A k \in DOMAIN ls : ls[k].link = k
  /\ \A j, k \in DOMAIN ls : ls[j].defect = ls[k].defect /\ ls[j].defect # 0 => j = k
AllOf(ls) == {ls[k] : k \in DOMAIN ls}
With(links, l) == links \cup {l}
Without(links, k) == {l \in links : l.link # k}
Added(more, ls, new) == AllOf(more) = With(AllOf(ls), new)
Fresh(ls, n) == AllOf(ls) = Without(AllOf(ls), n)
Marked(more, ls, new) == AllOf(more) = With(Without(AllOf(ls), new.link), new)

LEMMA LinkAdded ==
  ASSUME NEW ls \in Seq(Collaborations!Link), LinksSound(ls), NEW n, n = Len(ls) + 1,
         NEW new \in Collaborations!Link, new.link = n,
         \A k \in DOMAIN ls : new.defect # 0 => ls[k].defect # new.defect,
         NEW more, more = Append(ls, new)
  PROVE  /\ more \in Seq(Collaborations!Link) /\ LinksSound(more)
         /\ DOMAIN more = 1 .. n /\ n \in Nat \ {0} /\ more[n] = new
         /\ Added(more, ls, new) /\ Fresh(ls, n)
<1>1. DOMAIN ls = 1 .. Len(ls) /\ Len(ls) \in Nat
  BY LenProperties
<1>3. /\ more \in Seq(Collaborations!Link) /\ Len(more) = n /\ more[n] = new
      /\ \A k \in 1 .. Len(ls) : more[k] = ls[k]
  BY AppendProperties
<1>4. DOMAIN more = 1 .. n
  BY <1>3, LenProperties
<1>5. n \in Nat \ {0} /\ n \in 1 .. n /\ \A k \in 1 .. n : k \in DOMAIN ls \/ k = n
  BY <1>1
<1>6. \A k \in DOMAIN ls : more[k] = ls[k] /\ k # n /\ k \in 1 .. n
  BY <1>1, <1>3
<1>7. LinksSound(more)
  BY <1>3, <1>4, <1>5, <1>6 DEF LinksSound
<1>8. Added(more, ls, new)
  BY <1>3, <1>4, <1>5, <1>6 DEF AllOf, With, Added
<1>9. Fresh(ls, n)
  BY <1>6 DEF AllOf, LinksSound, Without, Fresh
<1> QED BY <1>3, <1>4, <1>5, <1>7, <1>8, <1>9

LEMMA LinkMarked ==
  ASSUME NEW ls \in Seq(Collaborations!Link), LinksSound(ls), NEW k \in DOMAIN ls,
         NEW new \in Collaborations!Link, new.link = k, new.defect = ls[k].defect,
         NEW more, more = [ls EXCEPT ![k] = new]
  PROVE  /\ more \in Seq(Collaborations!Link) /\ LinksSound(more) /\ DOMAIN more = DOMAIN ls
         /\ more[k] = new
         /\ Marked(more, ls, new)
<1>1. DOMAIN ls = 1 .. Len(ls) /\ Len(ls) \in Nat
  BY LenProperties
<1>6. more \in Seq(Collaborations!Link) /\ DOMAIN more = DOMAIN ls
  BY <1>1, ExceptSeq
<1>7. more[k] = new /\ \A j \in DOMAIN ls \ {k} : more[j] = ls[j]
  OBVIOUS
<1>8. \A j \in DOMAIN ls : more[j].defect = ls[j].defect /\ more[j].link = ls[j].link
  BY <1>7 DEF LinksSound
<1>9. LinksSound(more)
  BY <1>6, <1>8 DEF LinksSound
<1>10. Marked(more, ls, new)
  <2>1. \A l : l \in AllOf(more) <=> l = new \/ \E j \in DOMAIN ls \ {k} : l = ls[j]
    BY <1>6, <1>7 DEF AllOf
  <2>2. \A l : (l \in AllOf(ls) /\ l.link # k) <=> \E j \in DOMAIN ls \ {k} : l = ls[j]
    BY DEF AllOf, LinksSound
  <2> QED BY <2>1, <2>2 DEF With, Without, Marked
<1> QED BY <1>6, <1>7, <1>9, <1>10

-----------------------------------------------------------------------------
(* An issue and its events.                                                *)

ResolvedSoundly(es) ==
  \A k \in DOMAIN es :
    (es[k].action = "transition" /\ es[k].state = "resolved") =>
      LET links == Collaborations!After(SubSeq(es, 1, k - 1)).links
      IN  links = {} \/ \E l \in links : l.ok
IssueSound(r) ==
  /\ Collaborations!After(r.events).state = r.state
  /\ Collaborations!After(r.events).links = AllOf(r.links)
  /\ ResolvedSoundly(r.events)
  /\ LinksSound(r.links)

LEMMA NewIssueSound ==
  Collaborations!NewIssue \in Collaborations!Issue /\ IssueSound(Collaborations!NewIssue)
<1> DEFINE r == Collaborations!NewIssue
<1>1. r.events = <<>> /\ r.links = <<>> /\ r.state = "new"
  BY DEF Collaborations!NewIssue
<1>2. r \in Collaborations!Issue
  <2>1. <<>> \in Seq(Collaborations!Link) /\ <<>> \in Seq(Collaborations!Event)
    OBVIOUS
  <2> QED BY <2>1 DEF Collaborations!NewIssue, Collaborations!Issue, Collaborations!States
<1>3. DOMAIN <<>> = {}
  OBVIOUS
<1>4. Collaborations!After(r.events) = Unwritten /\ AllOf(r.links) = {}
  BY <1>1, <1>3, AfterNothing DEF AllOf
<1>5. Unwritten.state = "new" /\ Unwritten.links = {}
  BY DEF Unwritten
<1> HIDE DEF r
<1>6. ResolvedSoundly(r.events) /\ LinksSound(r.links)
  BY <1>1, <1>3 DEF ResolvedSoundly, LinksSound
<1>7. IssueSound(r)
  BY <1>1, <1>4, <1>5, <1>6 DEF IssueSound
<1> QED BY <1>2, <1>7 DEF r

\* What a request is.
LEMMA RequestIs ==
  ASSUME Collaborations!ConstantsOK, NEW e \in Collaborations!Requests
  PROVE  /\ e \in Collaborations!Event
         /\ e.action = "defect_link" => e.defect \in Defects
<1>1. /\ {"comment", "assign", "transition", "defect_create", "defect_link", "defect_sync"}
             \subseteq Collaborations!Actions
      /\ {"new", "assigned"} \subseteq Collaborations!States
  BY DEF Collaborations!Actions, Collaborations!Allowed, Collaborations!States
<1>2. ASSUME NEW a \in Collaborations!People, e = Collaborations!Say("assign", "assigned", a, 0, 0, FALSE)
      PROVE  e \in Collaborations!Event /\ e.action = "assign"
  BY <1>1, <1>2 DEF Collaborations!Say, Collaborations!Event
<1>3. ASSUME e = Collaborations!Plain
      PROVE  e \in Collaborations!Event /\ e.action = "comment"
  BY <1>1, <1>3 DEF Collaborations!Say, Collaborations!Plain, Collaborations!Event
<1>4. ASSUME e = Collaborations!Say("defect_create", "new", Collaborations!Nobody, 0, 0, FALSE)
      PROVE  e \in Collaborations!Event /\ e.action = "defect_create"
  BY <1>1, <1>4 DEF Collaborations!Say, Collaborations!Event
<1>5. ASSUME NEW s \in Collaborations!States,
             e = Collaborations!Say("transition", s, Collaborations!Nobody, 0, 0, FALSE)
      PROVE  e \in Collaborations!Event /\ e.action = "transition"
  BY <1>1, <1>5 DEF Collaborations!Say, Collaborations!Event
<1>6. ASSUME NEW v \in Defects \X BOOLEAN,
             e = Collaborations!Say("defect_link", "new", Collaborations!Nobody, 0, v[1], v[2])
      PROVE  e \in Collaborations!Event /\ e.defect \in Defects
  BY <1>1, <1>6 DEF Collaborations!Say, Collaborations!Event
<1>7. ASSUME NEW v \in (0..cCircumstance.events) \X (Defects \cup {0}) \X BOOLEAN,
             e = Collaborations!Say("defect_sync", "new", Collaborations!Nobody, v[1], v[2], v[3])
      PROVE  e \in Collaborations!Event /\ e.action = "defect_sync"
  <2>1. v[1] \in Nat /\ v[2] \in Defects \cup {0} /\ v[3] \in BOOLEAN
    OBVIOUS
  <2> QED BY <1>1, <1>7, <2>1 DEF Collaborations!Say, Collaborations!Event
<1>8. CASE e \in {Collaborations!Say("assign", "assigned", a, 0, 0, FALSE) : a \in Collaborations!People}
  BY <1>2, <1>8, Zenon
<1>9. CASE e \in {Collaborations!Plain,
                  Collaborations!Say("defect_create", "new", Collaborations!Nobody, 0, 0, FALSE)}
  BY <1>3, <1>4, <1>9, Zenon
<1>10. CASE e \in {Collaborations!Say("transition", s, Collaborations!Nobody, 0, 0, FALSE) :
                     s \in Collaborations!States}
  BY <1>5, <1>10, Zenon
<1>11. CASE e \in {Collaborations!Say("defect_link", "new", Collaborations!Nobody, 0, v[1], v[2]) :
                     v \in Defects \X BOOLEAN}
  BY <1>6, <1>11, Zenon
<1>12. CASE e \in {Collaborations!Say("defect_sync", "new", Collaborations!Nobody, v[1], v[2], v[3]) :
                     v \in (0..cCircumstance.events) \X (Defects \cup {0}) \X BOOLEAN}
  BY <1>7, <1>12, Zenon
<1> QED BY <1>8, <1>9, <1>10, <1>11, <1>12, Zenon DEF Collaborations!Requests

\* The links, and what is told of them, follow each other.
LEMMA LinksFollow ==
  ASSUME Collaborations!ConstantsOK, NEW r \in Collaborations!Issue, IssueSound(r),
         NEW e \in Collaborations!Requests, Collaborations!CanTake(r, e)
  PROVE  LET more == Collaborations!Links(r, e)
             told == Collaborations!Told(r, e)
         IN  /\ more \in Seq(Collaborations!Link) /\ LinksSound(more)
             /\ told \in Collaborations!Event /\ told.action = e.action /\ told.state = e.state
             /\ AllOf(more) = Collaborations!Follow(Collaborations!After(r.events), told).links
<1> DEFINE ls == r.links
           more == Collaborations!Links(r, e)
           told == Collaborations!Told(r, e)
           before == Collaborations!After(r.events)
<1>1. /\ ls \in Seq(Collaborations!Link) /\ LinksSound(ls) /\ before.links = AllOf(ls)
      /\ e \in Collaborations!Event /\ e.ok \in BOOLEAN /\ Len(ls) \in Nat
      /\ DOMAIN ls = 1 .. Len(ls)
  BY RequestIs, LenProperties DEF Collaborations!Issue, IssueSound, Collaborations!Event
<1>2. \A k \in DOMAIN ls : ls[k] \in Collaborations!Link
  BY <1>1, ElementOfSeq
<1> HIDE DEF ls, before
<1>3. CASE e.action = "defect_create"
  <2> DEFINE n == Len(ls) + 1
             new == [link |-> n, defect |-> 0, ok |-> FALSE]
  <2>1. told = [e EXCEPT !.link = n] /\ more = Append(ls, new)
    BY <1>3 DEF Collaborations!Told, Collaborations!Links, ls
  <2>2. n \in Nat /\ n = Len(ls) + 1 /\ new.link = n /\ new.defect = 0 /\ new \in Collaborations!Link
    BY <1>1 DEF Collaborations!Link
  <2> HIDE DEF n, more, told
  <2>3. told \in Collaborations!Event /\ told.action = e.action /\ told.state = e.state /\ told.link = n
    BY <1>1, <2>1, <2>2 DEF Collaborations!Event
  <2>4. Collaborations!Follow(before, told).links = With(before.links, new)
    BY <1>3, <2>3 DEF Collaborations!Follow, With
  <2> HIDE DEF new
  <2>5. more \in Seq(Collaborations!Link) /\ LinksSound(more) /\ Added(more, ls, new)
    BY <1>1, <2>1, <2>2, LinkAdded
  <2> QED BY <1>1, <2>3, <2>4, <2>5 DEF more, told, before, Added
<1>4. CASE e.action = "defect_link"
  <2> DEFINE k == Collaborations!FirstOf(ls, 0, e.defect)
             j == Collaborations!FirstOf(more, 0, e.defect)
             NewLink(i) == [link |-> i, defect |-> e.defect, ok |-> e.ok]
  <2>1. e.defect \in Defects /\ e.defect # 0
    BY <1>4, RequestIs DEF Collaborations!ConstantsOK
  <2>2. more = Collaborations!Linked(ls, e.defect, e.ok)
    BY <1>4 DEF Collaborations!Links, ls
  <2>3. told = [e EXCEPT !.link = more[j].link, !.defect = more[j].defect]
    BY <1>4 DEF Collaborations!Told
  <2>4. /\ k \in {0} \cup DOMAIN ls
        /\ k = 0 => \A i \in DOMAIN ls : ls[i].defect # e.defect
        /\ k # 0 => ls[k].defect = e.defect
    BY <1>1, <2>1, LinkFound
  <2>5. \A i \in Nat : NewLink(i) \in Collaborations!Link /\ NewLink(i).link = i /\ NewLink(i).defect = e.defect
    BY <1>1, <2>1 DEF Collaborations!Link
  <2> HIDE DEF k, j, more, told
  <2>6. /\ more \in Seq(Collaborations!Link) /\ LinksSound(more)
        /\ \E i \in DOMAIN more :
             i \in Nat /\ more[i] = NewLink(i) /\ Marked(more, ls, NewLink(i))
    <3>1. CASE k = 0
      <4> DEFINE n == Len(ls) + 1
      <4>1. more = Append(ls, NewLink(n))
        BY <2>2, <3>1 DEF Collaborations!Linked, k
      <4>2. n = Len(ls) + 1 /\ n \in Nat
        BY <1>1
      <4> HIDE DEF n, NewLink
      <4>3. /\ more \in Seq(Collaborations!Link) /\ LinksSound(more) /\ DOMAIN more = 1 .. n
            /\ n \in Nat \ {0} /\ more[n] = NewLink(n)
            /\ Added(more, ls, NewLink(n)) /\ Fresh(ls, n)
        <5> DEFINE new == NewLink(n)
        <5>1. /\ new \in Collaborations!Link /\ new.link = n /\ new.defect = e.defect
              /\ more = Append(ls, new)
          BY <2>5, <4>1, <4>2
        <5> HIDE DEF new
        <5>2. \A i \in DOMAIN ls : new.defect # 0 => ls[i].defect # new.defect
          BY <2>4, <3>1, <5>1
        <5>3. more \in Seq(Collaborations!Link) /\ LinksSound(more) /\ Added(more, ls, new)
          BY <1>1, <4>2, <5>1, <5>2, LinkAdded
        <5>4. Fresh(ls, n)
          BY <1>1, <4>2, <5>1, <5>2, LinkAdded
        <5>5. more[n] = new
          BY <1>1, <4>2, <5>1, <5>2, LinkAdded
        <5>6. DOMAIN more = 1 .. n /\ n \in Nat \ {0}
          BY <1>1, <4>2, <5>1, <5>2, LinkAdded
        <5> QED BY <5>3, <5>4, <5>5, <5>6 DEF new
      <4>4. n \in DOMAIN more
        BY <4>3
      <4>5. Marked(more, ls, NewLink(n))
        <5>1. NewLink(n).link = n
          BY <2>5, <4>2
        <5>2. Without(AllOf(ls), NewLink(n).link) = AllOf(ls)
          BY <4>3, <5>1, Zenon DEF Fresh
        <5>3. AllOf(more) = With(AllOf(ls), NewLink(n))
          BY <4>3 DEF Added
        <5> QED BY <5>2, <5>3, Zenon DEF Marked
      <4> QED BY <4>2, <4>3, <4>4, <4>5
    <3>2. CASE k # 0
      <4>1. k \in DOMAIN ls /\ k \in Nat /\ ls[k].defect = e.defect
        BY <1>1, <2>4, <3>2
      <4>2. more = [ls EXCEPT ![k] = NewLink(k)]
        <5>1. more = [ls EXCEPT ![k].ok = e.ok]
          BY <2>2, <3>2 DEF Collaborations!Linked, k
        <5>2. [ls[k] EXCEPT !.ok = e.ok] = NewLink(k)
          BY <1>1, <1>2, <4>1 DEF Collaborations!Link, LinksSound
        <5> QED BY <5>1, <5>2
      <4> HIDE DEF NewLink
      <4>3. /\ more \in Seq(Collaborations!Link) /\ LinksSound(more) /\ DOMAIN more = DOMAIN ls
            /\ more[k] = NewLink(k) /\ Marked(more, ls, NewLink(k))
        BY <1>1, <2>5, <4>1, <4>2, LinkMarked
      <4> QED BY <4>1, <4>3
    <3> QED BY <3>1, <3>2
  <2>7. PICK i \in DOMAIN more :
          i \in Nat /\ more[i] = NewLink(i) /\ Marked(more, ls, NewLink(i))
    BY <2>6
  <2>8. j \in DOMAIN more /\ more[j].defect = e.defect
    BY <2>1, <2>5, <2>6, <2>7, LinkFound DEF j
  <2>9. j = i
    BY <2>1, <2>5, <2>6, <2>7, <2>8 DEF LinksSound
  <2>10. /\ told \in Collaborations!Event /\ told.action = e.action /\ told.state = e.state
         /\ told.link = i /\ told.defect = e.defect /\ told.ok = e.ok
    <3>1. more[j].link = i /\ more[j].defect = e.defect
      BY <2>5, <2>7, <2>9
    <3> QED BY <1>1, <2>1, <2>3, <2>7, <3>1 DEF Collaborations!Event
  <2>11. Collaborations!Follow(before, told).links = With(Without(before.links, i), NewLink(i))
    BY <1>4, <2>10 DEF Collaborations!Follow, With, Without
  <2> QED BY <1>1, <2>5, <2>6, <2>7, <2>10, <2>11 DEF more, told, before, Marked
<1>5. CASE e.action = "defect_sync"
  <2> DEFINE k == Collaborations!FirstOf(ls, e.link, e.defect)
             new == [link |-> k, defect |-> ls[k].defect, ok |-> e.ok]
  <2>1. k # 0
    BY <1>5 DEF Collaborations!CanTake, ls
  <2>2. k \in DOMAIN ls
    BY <1>1, <2>1, LinkFound
  <2>3. more = [ls EXCEPT ![k].ok = e.ok]
    BY <1>5 DEF Collaborations!Links, ls
  <2>4. told = [e EXCEPT !.link = more[k].link, !.defect = more[k].defect]
    BY <1>5 DEF Collaborations!Told, ls
  <2> HIDE DEF k, more, told
  <2>5. ls[k].link = k /\ ls[k].defect \in Defects \cup {0} /\ k \in Nat
    BY <1>1, <1>2, <2>2 DEF LinksSound, Collaborations!Link
  <2>6. new \in Collaborations!Link /\ new.link = k /\ new.defect = ls[k].defect
    BY <1>1, <2>5 DEF Collaborations!Link
  <2>7. more = [ls EXCEPT ![k] = new]
    <3>1. [ls[k] EXCEPT !.ok = e.ok] = new
      BY <1>1, <1>2, <2>2, <2>5 DEF Collaborations!Link
    <3> QED BY <2>3, <3>1
  <2>8. /\ more \in Seq(Collaborations!Link) /\ LinksSound(more) /\ DOMAIN more = DOMAIN ls
        /\ more[k] = new /\ Marked(more, ls, new)
    <3> HIDE DEF new
    <3> QED BY <1>1, <2>2, <2>6, <2>7, LinkMarked
  <2>9. /\ told \in Collaborations!Event /\ told.action = e.action /\ told.state = e.state
        /\ told.link = k /\ told.defect = ls[k].defect /\ told.ok = e.ok
    <3>1. more[k].link = k /\ more[k].defect = ls[k].defect
      BY <2>6, <2>8
    <3> QED BY <1>1, <2>4, <2>5, <3>1 DEF Collaborations!Event
  <2>10. Collaborations!Follow(before, told).links = With(Without(before.links, k), new)
    BY <1>5, <2>9 DEF Collaborations!Follow, With, Without
  <2> HIDE DEF new
  <2> QED BY <1>1, <2>6, <2>8, <2>9, <2>10 DEF more, told, before, Marked
<1>6. CASE e.action \notin {"defect_create", "defect_link", "defect_sync"}
  <2>1. more = ls /\ told = e
    BY <1>6 DEF Collaborations!Links, Collaborations!Told, ls
  <2>2. Collaborations!Follow(before, told).links = before.links
    BY <1>6, <2>1 DEF Collaborations!Follow
  <2> QED BY <1>1, <2>1, <2>2 DEF before
<1> QED BY <1>3, <1>4, <1>5, <1>6

\* What is sound of an issue is so with another event.
LEMMA EventKept ==
  ASSUME Collaborations!ConstantsOK, NEW r \in Collaborations!Issue, IssueSound(r),
         NEW e \in Collaborations!Requests, Collaborations!CanTake(r, e)
  PROVE  Collaborations!WithEvent(r, e) \in Collaborations!Issue
           /\ IssueSound(Collaborations!WithEvent(r, e))
<1> DEFINE more == Collaborations!Links(r, e)
           told == Collaborations!Told(r, e)
           es == r.events
           ds == Append(es, told)
           n == Len(es)
           q == Collaborations!WithEvent(r, e)
           before == Collaborations!After(es)
           after == Collaborations!After(ds)
<1>1. /\ more \in Seq(Collaborations!Link) /\ LinksSound(more)
      /\ told \in Collaborations!Event /\ told.action = e.action /\ told.state = e.state
      /\ AllOf(more) = Collaborations!Follow(before, told).links
  BY LinksFollow
<1>2. e \in Collaborations!Event /\ e.who \in Collaborations!People \cup {Collaborations!Nobody}
        /\ e.state \in Collaborations!States
  BY RequestIs DEF Collaborations!Event
<1>3. /\ r.state \in Collaborations!States
      /\ r.assignee \in Collaborations!People \cup {Collaborations!Nobody}
      /\ es \in Seq(Collaborations!Event) /\ before.state = r.state /\ before.links = AllOf(r.links)
      /\ ResolvedSoundly(es)
  BY DEF Collaborations!Issue, IssueSound
<1>4. /\ q.state = IF e.action \in {"assign", "transition"} THEN e.state ELSE r.state
      /\ q.links = more /\ q.events = ds
  BY DEF Collaborations!WithEvent
<1>5. q = [state |-> q.state, assignee |-> q.assignee, links |-> more, events |-> ds]
      /\ q.assignee = IF e.action = "assign" THEN e.who ELSE r.assignee
  BY DEF Collaborations!WithEvent
<1> HIDE DEF more, told, es, before, after, q
<1>6. /\ ds \in Seq(Collaborations!Event) /\ Len(ds) = n + 1 /\ n \in Nat /\ ds[n + 1] = told
      /\ \A k \in 1 .. n : ds[k] = es[k]
      /\ DOMAIN ds = 1 .. n + 1 /\ DOMAIN es = 1 .. n
  <2>1. n \in Nat /\ DOMAIN es = 1 .. n
    BY <1>3, LenProperties
  <2>2. /\ ds \in Seq(Collaborations!Event) /\ Len(ds) = n + 1 /\ ds[n + 1] = told
        /\ \A k \in 1 .. n : ds[k] = es[k]
    BY <1>1, <1>3, AppendProperties
  <2>3. DOMAIN ds = 1 .. n + 1
    BY <2>2, LenProperties
  <2> QED BY <2>1, <2>2, <2>3
<1>7. after = Collaborations!Follow(before, told)
  BY <1>1, <1>3, AfterAnother DEF after, before
<1>8. q.state \in Collaborations!States
        /\ q.assignee \in Collaborations!People \cup {Collaborations!Nobody}
  BY <1>2, <1>3, <1>4, <1>5
<1>9. q \in Collaborations!Issue
  <2> HIDE DEF ds
  <2> QED BY <1>1, <1>5, <1>6, <1>8 DEF Collaborations!Issue
<1>10. after.state = q.state
  BY <1>1, <1>3, <1>4, <1>7 DEF Collaborations!Follow
<1>11. after.links = AllOf(more)
  BY <1>1, <1>7
<1> HIDE DEF ds, n
<1>12. ResolvedSoundly(ds)
  <2> SUFFICES ASSUME NEW k \in DOMAIN ds, ds[k].action = "transition", ds[k].state = "resolved"
               PROVE  LET links == Collaborations!After(SubSeq(ds, 1, k - 1)).links
                      IN  links = {} \/ \E l \in links : l.ok
    BY DEF ResolvedSoundly
  <2>1. k \in 1 .. n + 1 /\ n \in Nat
    BY <1>6
  <2>2. SubSeq(ds, 1, k - 1) = SubSeq(es, 1, k - 1)
    <3> DEFINE m == k - 1
    <3>1. m \in 0 .. n /\ m \in Int /\ 1 \in Int /\ m - 1 + 1 = m
      BY <2>1
    <3>2. \A i \in 1 .. m : ds[i] = es[i] /\ es[i] \in Collaborations!Event /\ ds[i] \in Collaborations!Event
      BY <1>3, <1>6, <3>1, ElementOfSeq
    <3> HIDE DEF m
    <3>3. /\ SubSeq(ds, 1, m) \in Seq(Collaborations!Event)
          /\ Len(SubSeq(ds, 1, m)) = IF 1 <= m THEN m - 1 + 1 ELSE 0
          /\ \A i \in 1 .. m - 1 + 1 : SubSeq(ds, 1, m)[i] = ds[1 + i - 1]
      BY <3>1, <3>2, SubSeqProperties
    <3>4. /\ SubSeq(es, 1, m) \in Seq(Collaborations!Event)
          /\ Len(SubSeq(es, 1, m)) = IF 1 <= m THEN m - 1 + 1 ELSE 0
          /\ \A i \in 1 .. m - 1 + 1 : SubSeq(es, 1, m)[i] = es[1 + i - 1]
      BY <3>1, <3>2, SubSeqProperties
    <3>5. \A i \in 1 .. Len(SubSeq(ds, 1, m)) : SubSeq(ds, 1, m)[i] = SubSeq(es, 1, m)[i]
      BY <3>1, <3>2, <3>3, <3>4
    <3>6. Len(SubSeq(ds, 1, m)) = Len(SubSeq(es, 1, m))
      BY <3>3, <3>4
    <3>7. SubSeq(ds, 1, m) = SubSeq(es, 1, m)
      BY <3>3, <3>4, <3>5, <3>6, SeqEqual
    <3> QED BY <3>7 DEF m
  <2>3. CASE k # n + 1
    <3>1. k \in DOMAIN es /\ ds[k] = es[k]
      BY <1>6, <2>1, <2>3
    <3> QED BY <1>3, <2>2, <3>1 DEF ResolvedSoundly
  <2>4. CASE k = n + 1
    <3>1. SubSeq(es, 1, n) = es
      BY <1>3, SubSeqProperties, SubSeqFull DEF n
    <3>2. Collaborations!Closable(r.links)
      BY <1>1, <1>6, <2>4 DEF Collaborations!CanTake
    <3>3. AllOf(r.links) = {} \/ \E l \in AllOf(r.links) : l.ok
      BY <3>2 DEF Collaborations!Closable, AllOf
    <3>4. SubSeq(ds, 1, k - 1) = es
      BY <2>1, <2>2, <2>4, <3>1
    <3> QED BY <1>3, <3>3, <3>4 DEF before
  <2> QED BY <2>3, <2>4
<1>13. IssueSound(q)
  BY <1>1, <1>4, <1>10, <1>11, <1>12 DEF IssueSound, after
<1> QED BY <1>9, <1>13 DEF q

-----------------------------------------------------------------------------
(* Collaboration: what is always true of the files and the commands.       *)

\* The tokens and the requests there are, in a circumstance.
TokensOf(cc) ==
  {Collaborations!Made(n) : n \in 1..cc.tokens} \cup Collaborations!Static \cup Collaborations!Signed
RequestsOf(cc) ==
  {Collaborations!Say("assign", "assigned", a, 0, 0, FALSE) : a \in Collaborations!People}
  \cup {Collaborations!Plain,
        Collaborations!Say("defect_create", "new", Collaborations!Nobody, 0, 0, FALSE)}
  \cup {Collaborations!Say("transition", s, Collaborations!Nobody, 0, 0, FALSE) :
          s \in Collaborations!States}
  \cup {Collaborations!Say("defect_link", "new", Collaborations!Nobody, 0, v[1], v[2]) :
          v \in Defects \X BOOLEAN}
  \cup {Collaborations!Say("defect_sync", "new", Collaborations!Nobody, v[1], v[2], v[3]) :
          v \in (0..cc.events) \X (Defects \cup {0}) \X BOOLEAN}

LEMMA TokensAndRequests ==
  Collaborations!Tokens = TokensOf(cCircumstance)
    /\ Collaborations!Requests = RequestsOf(cCircumstance)
BY DEF TokensOf, RequestsOf, Collaborations!Tokens, Collaborations!Requests

Registries(cc) == [TokensOf(cc) -> Collaborations!Session \cup {Collaborations!Missing}]
IssuesSound(rs) == rs \in [Issues -> Collaborations!Issue] /\ \A i \in Issues : IssueSound(rs[i])

VerbSound(cc, v) ==
  /\ v.what \in Collaborations!Actions \cup {"revoke"}
  /\ v.what \in Collaborations!Actions => v.issue \in Issues /\ v.event \in RequestsOf(cc)
  /\ v.what = "revoke" => v.token \in TokensOf(cc)
\* What a command has resolved, and is going to write into which file.
ResolvingSound(cc, c) ==
  c.at = "resolve" => VerbSound(cc, c.verb) /\ c.verb.token \in TokensOf(cc)
ActingSound(cc, c) ==
  c.at = "act" => VerbSound(cc, c.verb)
                    /\ (c.verb.what = "revoke" => c.session \in Collaborations!Session)
SavingSound(cc, c) ==
  c.at \in {"load", "write"} =>
    \/ /\ c.file = "sessions" /\ c.key \in TokensOf(cc) /\ c.entry \in Collaborations!Session
       /\ c.then = "done" \/ VerbSound(cc, c.verb)
    \/ /\ c.file = "issues" /\ c.key \in Issues /\ c.then = "done"
       /\ c.entry \in Collaborations!Issue /\ IssueSound(c.entry)
CopySound(cc, c) ==
  c.at = "write" => IF c.file = "sessions" THEN c.copy \in Registries(cc) ELSE IssuesSound(c.copy)
CommandSound(cc, c) ==
  /\ ResolvingSound(cc, c) /\ ActingSound(cc, c) /\ SavingSound(cc, c) /\ CopySound(cc, c)
CommandsSound(cc, cs) ==
  /\ cs = [p \in Processes |-> cs[p]]
  /\ \A p \in Processes : CommandSound(cc, cs[p])
  /\ \A p \in Processes : cs[p] # Collaborations!Idle => p \in cc.processes

\* The files and the commands are sound.
FilesSound ==
  /\ cCircumstance \in CollaborationCircumstances /\ now \in Nat /\ issued \in Nat
  /\ sessions \in Registries(cCircumstance)
  /\ IssuesSound(issues)
  /\ CommandsSound(cCircumstance, cCommand)

LEMMA IdleSound ==
  ASSUME NEW cc PROVE CommandSound(cc, Collaborations!Idle)
BY DEF CommandSound, ResolvingSound, ActingSound, SavingSound, CopySound, Collaborations!Idle

\* One command becomes another.
LEMMA Becoming ==
  ASSUME NEW cc, NEW cs, CommandsSound(cc, cs), NEW p \in Processes, NEW c, CommandSound(cc, c),
         c = Collaborations!Idle \/ p \in cc.processes, NEW ds, ds = [cs EXCEPT ![p] = c]
  PROVE  CommandsSound(cc, ds)
<1>1. /\ \A q \in Processes : ds[q] = IF q = p THEN c ELSE cs[q]
      /\ ds = [q \in Processes |-> ds[q]]
  BY DEF CommandsSound
<1> QED BY <1>1 DEF CommandsSound

LEMMA FilesInit ==
  ASSUME Collaborations!ConstantsOK, Collaborations!Init
  PROVE  FilesSound
<1>1. cCircumstance \in CollaborationCircumstances /\ now = 0 /\ issued = 0
        /\ sessions = [t \in TokensOf(cCircumstance) |-> Collaborations!Missing]
        /\ issues = [i \in Issues |-> Collaborations!NewIssue]
        /\ cCommand = [p \in Processes |-> Collaborations!Idle]
  BY TokensAndRequests DEF Collaborations!Init
<1>2. sessions \in Registries(cCircumstance)
  BY <1>1 DEF Registries
<1>3. IssuesSound(issues)
  BY <1>1, NewIssueSound DEF IssuesSound
<1>4. CommandsSound(cCircumstance, cCommand)
  BY <1>1, IdleSound DEF CommandsSound
<1> QED BY <1>1, <1>2, <1>3, <1>4 DEF FilesSound

-----------------------------------------------------------------------------
(* Collaboration: every step keeps them so.                                *)

Reads == UNCHANGED <<cCircumstance, now, issued, sessions, issues>>

LEMMA ReadingKeeps ==
  ASSUME FilesSound, NEW p \in Processes, NEW c, CommandSound(cCircumstance, c),
         c = Collaborations!Idle \/ p \in cCircumstance.processes,
         cCommand' = [cCommand EXCEPT ![p] = c],
         UNCHANGED <<cCircumstance, now, sessions, issues>>, issued' \in Nat
  PROVE  FilesSound'
<1>1. CommandsSound(cCircumstance, cCommand')
  BY Becoming DEF FilesSound
<1> QED BY <1>1 DEF FilesSound

LEMMA SessionMade ==
  ASSUME Collaborations!ConstantsOK, FilesSound, NEW a \in Collaborations!People
  PROVE  Collaborations!NewSession(a) \in Collaborations!Session
BY DEF FilesSound, Collaborations!NewSession, Collaborations!Session, Collaborations!ConstantsOK

LEMMA StaticOwner ==
  ASSUME NEW t \in Collaborations!Static PROVE t.who \in Collaborations!People
BY DEF Collaborations!Static, Collaborations!Token

LEMMA RenewKeeps ==
  ASSUME Collaborations!ConstantsOK, FilesSound, NEW p \in Processes, Collaborations!Renew(p)
  PROVE  FilesSound'
<1>1. PICK a \in Collaborations!People :
        cCommand' = [cCommand EXCEPT ![p] =
          [at |-> "load",
           verb |-> [what |-> "renew", by |-> a, token |-> Collaborations!NoToken,
                     issue |-> Collaborations!AnIssue, event |-> Collaborations!Plain],
           then |-> "done", file |-> "sessions", key |-> Collaborations!Made(issued + 1),
           entry |-> Collaborations!NewSession(a)]]
  BY DEF Collaborations!Renew, Collaborations!Become
<1> DEFINE c == [at |-> "load",
                 verb |-> [what |-> "renew", by |-> a, token |-> Collaborations!NoToken,
                           issue |-> Collaborations!AnIssue, event |-> Collaborations!Plain],
                 then |-> "done", file |-> "sessions", key |-> Collaborations!Made(issued + 1),
                 entry |-> Collaborations!NewSession(a)]
<1>2. /\ p \in cCircumstance.processes /\ issued < cCircumstance.tokens /\ issued' = issued + 1
      /\ UNCHANGED <<cCircumstance, now, sessions, issues>>
  BY DEF Collaborations!Renew, Collaborations!Free
<1>3. issued \in Nat /\ cCircumstance.tokens \in Nat
  BY DEF FilesSound, Collaborations!ConstantsOK
<1>4. Collaborations!Made(issued + 1) \in TokensOf(cCircumstance)
  BY <1>2, <1>3 DEF TokensOf
<1>5. CommandSound(cCircumstance, c)
  BY <1>4, SessionMade DEF CommandSound, ResolvingSound, ActingSound, SavingSound, CopySound
<1>6. cCommand' = [cCommand EXCEPT ![p] = c] /\ issued' \in Nat
  BY <1>1, <1>2, <1>3
<1> HIDE DEF c
<1> QED BY <1>2, <1>5, <1>6, ReadingKeeps

LEMMA SignInKeeps ==
  ASSUME Collaborations!ConstantsOK, FilesSound, NEW p \in Processes, Collaborations!SignIn(p)
  PROVE  FilesSound'
<1>1. PICK a \in External :
        cCommand' = [cCommand EXCEPT ![p] =
          [at |-> "load",
           verb |-> [what |-> "sign", by |-> a, token |-> Collaborations!NoToken,
                     issue |-> Collaborations!AnIssue, event |-> Collaborations!Plain],
           then |-> "done", file |-> "sessions", key |-> Collaborations!Token("sso", a, 0),
           entry |-> Collaborations!NewSession(a)]]
  BY DEF Collaborations!SignIn, Collaborations!Become
<1> DEFINE c == [at |-> "load",
                 verb |-> [what |-> "sign", by |-> a, token |-> Collaborations!NoToken,
                           issue |-> Collaborations!AnIssue, event |-> Collaborations!Plain],
                 then |-> "done", file |-> "sessions", key |-> Collaborations!Token("sso", a, 0),
                 entry |-> Collaborations!NewSession(a)]
<1>2. p \in cCircumstance.processes /\ Reads
  BY DEF Collaborations!SignIn, Collaborations!Free, Collaborations!Reading, Reads
<1>3. a \in Collaborations!People
  BY DEF Collaborations!ConstantsOK
<1>4. Collaborations!Token("sso", a, 0) \in TokensOf(cCircumstance)
  BY DEF TokensOf, Collaborations!Signed
<1>5. CommandSound(cCircumstance, c)
  BY <1>3, <1>4, SessionMade DEF CommandSound, ResolvingSound, ActingSound, SavingSound, CopySound
<1> HIDE DEF c
<1>6. issued' \in Nat
  BY <1>2 DEF Reads, FilesSound
<1> QED BY <1>1, <1>2, <1>5, <1>6, ReadingKeeps DEF c, Reads

LEMMA RevokeKeeps ==
  ASSUME Collaborations!ConstantsOK, FilesSound, NEW p \in Processes, Collaborations!Revoke(p)
  PROVE  FilesSound'
<1>1. PICK a \in Collaborations!People, t \in TokensOf(cCircumstance) :
        cCommand' = [cCommand EXCEPT ![p] =
          [at |-> "resolve",
           verb |-> [what |-> "revoke", by |-> a, token |-> t, issue |-> Collaborations!AnIssue,
                     event |-> Collaborations!Plain],
           session |-> Collaborations!Missing]]
  BY TokensAndRequests DEF Collaborations!Revoke, Collaborations!Ask, Collaborations!Become
<1> DEFINE c == [at |-> "resolve",
                 verb |-> [what |-> "revoke", by |-> a, token |-> t, issue |-> Collaborations!AnIssue,
                           event |-> Collaborations!Plain],
                 session |-> Collaborations!Missing]
<1>2. p \in cCircumstance.processes /\ Reads
  BY DEF Collaborations!Revoke, Collaborations!Free, Collaborations!Reading, Reads
<1>3. "revoke" \notin Collaborations!Actions
  BY DEF Collaborations!Actions, Collaborations!Allowed
<1>4. CommandSound(cCircumstance, c)
  BY <1>3 DEF CommandSound, ResolvingSound, ActingSound, SavingSound, CopySound, VerbSound
<1> HIDE DEF c
<1>5. issued' \in Nat
  BY <1>2 DEF Reads, FilesSound
<1> QED BY <1>1, <1>2, <1>4, <1>5, ReadingKeeps DEF c, Reads

\* A command reads, and is something else.
LEMMA CommandMoves ==
  ASSUME FilesSound, NEW p \in Processes, NEW c, CommandSound(cCircumstance, c),
         c = Collaborations!Idle \/ p \in cCircumstance.processes,
         Collaborations!Become(p, c), Collaborations!Reading
  PROVE  FilesSound'
<1>1. issued' \in Nat /\ UNCHANGED <<cCircumstance, now, sessions, issues>>
  BY DEF FilesSound, Collaborations!Reading
<1>2. cCommand' = [cCommand EXCEPT ![p] = c]
  BY DEF Collaborations!Become
<1> QED BY <1>1, <1>2, ReadingKeeps

LEMMA Commands ==
  ASSUME FilesSound, NEW p \in Processes
  PROVE  /\ CommandSound(cCircumstance, cCommand[p])
         /\ cCommand[p].at # "idle" => p \in cCircumstance.processes
BY DEF FilesSound, CommandsSound, Collaborations!Idle

\* What is to be saved is of the right kind.
LEMMA SessionSaved ==
  ASSUME FilesSound, NEW p \in Processes, p \in cCircumstance.processes, Collaborations!Reading,
         NEW then, NEW key \in TokensOf(cCircumstance), NEW entry \in Collaborations!Session,
         then = "done" \/ VerbSound(cCircumstance, cCommand[p].verb),
         Collaborations!Save(p, then, "sessions", key, entry)
  PROVE  FilesSound'
<1> DEFINE c == [at |-> "load", verb |-> cCommand[p].verb, then |-> then, file |-> "sessions",
                 key |-> key, entry |-> entry]
<1>1. Collaborations!Become(p, c)
  BY DEF Collaborations!Save
<1>2. CommandSound(cCircumstance, c)
  BY DEF CommandSound, ResolvingSound, ActingSound, SavingSound, CopySound
<1> HIDE DEF c
<1> QED BY <1>1, <1>2, CommandMoves

LEMMA ResolveKeeps ==
  ASSUME Collaborations!ConstantsOK, FilesSound, NEW p \in Processes, Collaborations!Resolve(p)
  PROVE  FilesSound'
<1> DEFINE v == cCommand[p].verb
           t == v.token
<1>1. cCommand[p].at = "resolve" /\ Collaborations!Reading
  BY DEF Collaborations!Resolve
<1>2. /\ VerbSound(cCircumstance, v) /\ t \in TokensOf(cCircumstance)
      /\ p \in cCircumstance.processes
  BY <1>1, Commands DEF CommandSound, ResolvingSound
<1>3. \/ /\ Collaborations!Live(t)
         /\ Collaborations!Become(p, [at |-> "act", verb |-> v, session |-> sessions[t]])
      \/ t \in Collaborations!Static
           /\ Collaborations!Save(p, "act", "sessions", t, Collaborations!NewSession(t.who))
      \/ Collaborations!Become(p, Collaborations!Idle)
  BY DEF Collaborations!Resolve
<1> HIDE DEF v, t
<1>4. CASE /\ Collaborations!Live(t)
           /\ Collaborations!Become(p, [at |-> "act", verb |-> v, session |-> sessions[t]])
  <2> DEFINE c == [at |-> "act", verb |-> v, session |-> sessions[t]]
  <2>1. sessions[t] \in Collaborations!Session
    BY <1>2, <1>4 DEF FilesSound, Registries, Collaborations!Live
  <2>2. CommandSound(cCircumstance, c)
    BY <1>2, <2>1 DEF CommandSound, ResolvingSound, ActingSound, SavingSound, CopySound
  <2>3. Collaborations!Become(p, c)
    BY <1>4
  <2> HIDE DEF c
  <2> QED BY <1>1, <1>2, <2>2, <2>3, CommandMoves
<1>5. CASE t \in Collaborations!Static
             /\ Collaborations!Save(p, "act", "sessions", t, Collaborations!NewSession(t.who))
  BY <1>1, <1>2, <1>5, StaticOwner, SessionMade, SessionSaved DEF v
<1>6. CASE Collaborations!Become(p, Collaborations!Idle)
  BY <1>1, <1>6, IdleSound, CommandMoves
<1> QED BY <1>3, <1>4, <1>5, <1>6

LEMMA MarkRevokedKeeps ==
  ASSUME Collaborations!ConstantsOK, FilesSound, NEW p \in Processes, Collaborations!MarkRevoked(p)
  PROVE  FilesSound'
<1> DEFINE c == cCommand[p]
           entry == [c.session EXCEPT !.revoked = TRUE]
<1>1. /\ c.at = "act" /\ c.verb.what = "revoke" /\ Collaborations!Reading
      /\ Collaborations!Save(p, "done", "sessions", c.verb.token, entry)
  BY DEF Collaborations!MarkRevoked
<1>2. /\ c.session \in Collaborations!Session /\ c.verb.token \in TokensOf(cCircumstance)
      /\ p \in cCircumstance.processes
  BY <1>1, Commands DEF CommandSound, ActingSound, VerbSound
<1>3. entry \in Collaborations!Session
  BY <1>2 DEF Collaborations!Session
<1> HIDE DEF entry
<1> QED BY <1>1, <1>2, <1>3, SessionSaved

LEMMA WorkKeeps ==
  ASSUME Collaborations!ConstantsOK, FilesSound, NEW p \in Processes, Collaborations!Work(p)
  PROVE  FilesSound'
<1>1. PICK i \in Issues, e \in Collaborations!Requests :
        \E at \in {"act", "resolve"}, a \in Collaborations!People,
           t \in TokensOf(cCircumstance) \cup {Collaborations!NoToken} :
          /\ at = "resolve" => t \in TokensOf(cCircumstance)
          /\ Collaborations!Ask(p, at, e.action, a, t, i, e)
  <2>1. PICK i \in Issues, e \in Collaborations!Requests :
          LET able == {a \in Collaborations!People : Role[a] \in Collaborations!Allowed[e.action]}
          IN  \/ /\ able # {}
                 /\ Collaborations!Ask(p, "act", e.action, CHOOSE a \in able : TRUE,
                                       Collaborations!NoToken, i, e)
              \/ \E a \in able, t \in Collaborations!Tokens :
                   Collaborations!Ask(p, "resolve", e.action, a, t, i, e)
    BY DEF Collaborations!Work
  <2> DEFINE able == {a \in Collaborations!People : Role[a] \in Collaborations!Allowed[e.action]}
  <2>2. CASE /\ able # {}
             /\ Collaborations!Ask(p, "act", e.action, CHOOSE a \in able : TRUE,
                                   Collaborations!NoToken, i, e)
    <3>1. (CHOOSE a \in able : TRUE) \in Collaborations!People
      BY <2>2
    <3> QED BY <2>2, <3>1
  <2>3. CASE \E a \in able, t \in Collaborations!Tokens :
               Collaborations!Ask(p, "resolve", e.action, a, t, i, e)
    BY <2>3, TokensAndRequests
  <2> QED BY <2>1, <2>2, <2>3
<1>2. PICK at \in {"act", "resolve"}, a \in Collaborations!People,
           t \in TokensOf(cCircumstance) \cup {Collaborations!NoToken} :
        /\ at = "resolve" => t \in TokensOf(cCircumstance)
        /\ Collaborations!Ask(p, at, e.action, a, t, i, e)
  BY <1>1
<1> DEFINE v == [what |-> e.action, by |-> a, token |-> t, issue |-> i, event |-> e]
           c == [at |-> at, verb |-> v, session |-> Collaborations!Missing]
<1>3. Collaborations!Become(p, c)
  BY <1>2 DEF Collaborations!Ask
<1>4. p \in cCircumstance.processes /\ Collaborations!Reading
  BY DEF Collaborations!Work, Collaborations!Free
<1>5. e.action \in Collaborations!Actions /\ e \in RequestsOf(cCircumstance)
  BY RequestIs, TokensAndRequests DEF Collaborations!Event
<1>6. "revoke" \notin Collaborations!Actions
  BY DEF Collaborations!Actions, Collaborations!Allowed
<1>7. VerbSound(cCircumstance, v)
  BY <1>5, <1>6 DEF VerbSound
<1>8. v.token = t /\ v.what # "revoke"
  BY <1>5, <1>6
<1> HIDE DEF v
<1>9. CommandSound(cCircumstance, c)
  BY <1>2, <1>7, <1>8 DEF CommandSound, ResolvingSound, ActingSound, SavingSound, CopySound
<1> HIDE DEF c
<1> QED BY <1>3, <1>4, <1>9, CommandMoves

LEMMA ActKeeps ==
  ASSUME Collaborations!ConstantsOK, FilesSound, NEW p \in Processes, Collaborations!Act(p)
  PROVE  FilesSound'
<1> DEFINE v == cCommand[p].verb
           r == issues[v.issue]
           entry == Collaborations!WithEvent(r, v.event)
           c == [at |-> "load", verb |-> v, then |-> "done", file |-> "issues", key |-> v.issue,
                 entry |-> entry]
<1>1. /\ cCommand[p].at = "act" /\ v.what \in Collaborations!Actions /\ Collaborations!Reading
      /\ IF Collaborations!CanTake(r, v.event) THEN Collaborations!Become(p, c)
         ELSE Collaborations!Become(p, Collaborations!Idle)
  BY DEF Collaborations!Act, Collaborations!Save
<1>2. v.issue \in Issues /\ v.event \in Collaborations!Requests /\ p \in cCircumstance.processes
  BY <1>1, Commands, TokensAndRequests DEF CommandSound, ActingSound, VerbSound
<1>3. r \in Collaborations!Issue /\ IssueSound(r)
  BY <1>2 DEF FilesSound, IssuesSound
<1>4. CASE Collaborations!CanTake(r, v.event)
  <2>1. entry \in Collaborations!Issue /\ IssueSound(entry)
    <3> HIDE DEF r
    <3> QED BY <1>2, <1>3, <1>4, EventKept
  <2>2. Collaborations!Become(p, c)
    BY <1>1, <1>4
  <2> HIDE DEF v, entry
  <2>3. CommandSound(cCircumstance, c)
    BY <1>2, <2>1 DEF CommandSound, ResolvingSound, ActingSound, SavingSound, CopySound
  <2> HIDE DEF c
  <2> QED BY <1>1, <1>2, <2>2, <2>3, CommandMoves
<1>5. CASE ~Collaborations!CanTake(r, v.event)
  BY <1>1, <1>5, IdleSound, CommandMoves
<1> QED BY <1>4, <1>5

LEMMA LoadKeeps ==
  ASSUME Collaborations!ConstantsOK, FilesSound, NEW p \in Processes, Collaborations!Load(p)
  PROVE  FilesSound'
<1> DEFINE c == cCommand[p]
           d == [at |-> "write", verb |-> c.verb, then |-> c.then, file |-> c.file, key |-> c.key,
                 entry |-> c.entry, copy |-> IF c.file = "sessions" THEN sessions ELSE issues]
<1>1. c.at = "load" /\ Collaborations!Reading /\ Collaborations!Become(p, d)
  BY DEF Collaborations!Load
<1>2. SavingSound(cCircumstance, c) /\ p \in cCircumstance.processes
  BY <1>1, Commands DEF CommandSound
<1>3. sessions \in Registries(cCircumstance) /\ IssuesSound(issues)
  BY DEF FilesSound
<1> HIDE DEF c
<1>4. SavingSound(cCircumstance, d)
  BY <1>1, <1>2 DEF SavingSound
<1>5. CopySound(cCircumstance, d)
  BY <1>3 DEF CopySound
<1>6. CommandSound(cCircumstance, d)
  BY <1>4, <1>5 DEF CommandSound, ResolvingSound, ActingSound
<1> HIDE DEF d
<1> QED BY <1>1, <1>2, <1>6, CommandMoves

\* A file is written: the others, and the commands, as they are to be.
LEMMA WriteKeeps ==
  ASSUME Collaborations!ConstantsOK, FilesSound, NEW p \in Processes, Collaborations!Write(p)
  PROVE  FilesSound'
<1> DEFINE c == cCommand[p]
           after == [c.copy EXCEPT ![c.key] = c.entry]
           d == IF c.then = "done" THEN Collaborations!Idle
                ELSE [at |-> "act", verb |-> c.verb, session |-> c.entry]
<1>1. /\ c.at = "write" /\ UNCHANGED <<cCircumstance, now, issued>>
      /\ IF c.file = "sessions" THEN sessions' = after /\ UNCHANGED issues
         ELSE issues' = after /\ UNCHANGED sessions
      /\ cCommand' = [cCommand EXCEPT ![p] = d]
  BY DEF Collaborations!Write, Collaborations!Become
<1>2. /\ SavingSound(cCircumstance, c) /\ CopySound(cCircumstance, c)
      /\ p \in cCircumstance.processes
  BY <1>1, Commands DEF CommandSound
<1>3. sessions \in Registries(cCircumstance) /\ IssuesSound(issues)
        /\ CommandsSound(cCircumstance, cCommand)
  BY DEF FilesSound
<1> HIDE DEF c
<1>4. sessions' \in Registries(cCircumstance)
  <2>1. CASE c.file = "sessions"
    <3>1. /\ c.key \in TokensOf(cCircumstance) /\ c.entry \in Collaborations!Session
          /\ c.copy \in Registries(cCircumstance)
      BY <1>1, <1>2, <2>1 DEF SavingSound, CopySound
    <3> QED BY <1>1, <2>1, <3>1 DEF Registries
  <2>2. CASE c.file # "sessions"
    BY <1>1, <1>3, <2>2
  <2> QED BY <2>1, <2>2
<1>5. IssuesSound(issues')
  <2>1. CASE c.file = "sessions"
    BY <1>1, <1>3, <2>1
  <2>2. CASE c.file # "sessions"
    <3>1. /\ c.key \in Issues /\ c.entry \in Collaborations!Issue /\ IssueSound(c.entry)
          /\ IssuesSound(c.copy) /\ issues' = after
      BY <1>1, <1>2, <2>2 DEF SavingSound, CopySound
    <3>2. after \in [Issues -> Collaborations!Issue]
      BY <3>1 DEF IssuesSound
    <3>3. \A i \in Issues : after[i] = IF i = c.key THEN c.entry ELSE c.copy[i]
      BY <3>1 DEF IssuesSound
    <3> HIDE DEF after
    <3> QED BY <3>1, <3>2, <3>3 DEF IssuesSound
  <2> QED BY <2>1, <2>2
<1>6. CommandSound(cCircumstance, d)
  <2>1. CASE c.then = "done"
    BY <2>1, IdleSound
  <2>2. CASE c.then # "done"
    <3>1. VerbSound(cCircumstance, c.verb) /\ c.entry \in Collaborations!Session
      BY <1>1, <1>2, <2>2 DEF SavingSound
    <3>2. d = [at |-> "act", verb |-> c.verb, session |-> c.entry]
      BY <2>2
    <3> HIDE DEF d
    <3> QED BY <3>1, <3>2 DEF CommandSound, ResolvingSound, ActingSound, SavingSound, CopySound
  <2> QED BY <2>1, <2>2
<1> HIDE DEF d, after
<1>7. CommandsSound(cCircumstance, cCommand')
  BY <1>1, <1>2, <1>3, <1>6, Becoming
<1> QED BY <1>1, <1>4, <1>5, <1>7 DEF FilesSound

LEMMA CrashKeeps ==
  ASSUME Collaborations!ConstantsOK, FilesSound, NEW p \in Processes, Collaborations!Crash(p)
  PROVE  FilesSound'
<1>1. /\ UNCHANGED <<cCircumstance, now, issued>>
      /\ cCommand' = [cCommand EXCEPT ![p] = Collaborations!Idle]
      /\ sessions' = sessions \/ sessions' = [t \in TokensOf(cCircumstance) |-> Collaborations!Missing]
      /\ issues' = issues \/ issues' = [i \in Issues |-> Collaborations!NewIssue]
  BY TokensAndRequests DEF Collaborations!Crash, Collaborations!Become
<1>2. sessions' \in Registries(cCircumstance)
  BY <1>1 DEF FilesSound, Registries
<1>3. IssuesSound(issues')
  BY <1>1, NewIssueSound DEF FilesSound, IssuesSound
<1>4. CommandsSound(cCircumstance, cCommand')
  BY <1>1, IdleSound, Becoming DEF FilesSound
<1> QED BY <1>1, <1>2, <1>3, <1>4 DEF FilesSound

LEMMA FilesStep ==
  ASSUME Collaborations!ConstantsOK, FilesSound, [Collaborations!Next]_(Collaborations!vars)
  PROVE  FilesSound'
<1>1. CASE Collaborations!Tick
  BY <1>1 DEF Collaborations!Tick, FilesSound
<1>2. CASE UNCHANGED Collaborations!vars
  BY <1>2 DEF Collaborations!vars, FilesSound
<1>3. ASSUME NEW p \in Processes,
             \/ Collaborations!Renew(p) \/ Collaborations!SignIn(p) \/ Collaborations!Revoke(p)
             \/ Collaborations!Resolve(p) \/ Collaborations!MarkRevoked(p) \/ Collaborations!Work(p)
             \/ Collaborations!Act(p) \/ Collaborations!Load(p) \/ Collaborations!Write(p)
             \/ Collaborations!Crash(p)
      PROVE  FilesSound'
  BY <1>3, RenewKeeps, SignInKeeps, RevokeKeeps, ResolveKeeps, MarkRevokedKeeps, WorkKeeps, ActKeeps,
     LoadKeeps, WriteKeeps, CrashKeeps
<1> QED BY <1>1, <1>2, <1>3 DEF Collaborations!Next

LEMMA IssuesAreSound ==
  ASSUME FilesSound
  PROVE  /\ Collaborations!EventsTellIssue /\ Collaborations!ResolvedWhenAcceptable
         /\ Collaborations!OneLinkPerDefect
<1>1. \A i \in Issues : IssueSound(issues[i])
  BY DEF FilesSound, IssuesSound
<1>2. Collaborations!EventsTellIssue
  BY <1>1 DEF Collaborations!EventsTellIssue, IssueSound, AllOf
<1>3. Collaborations!ResolvedWhenAcceptable
  BY <1>1 DEF Collaborations!ResolvedWhenAcceptable, IssueSound, ResolvedSoundly
<1>4. Collaborations!OneLinkPerDefect
  BY <1>1 DEF Collaborations!OneLinkPerDefect, IssueSound, LinksSound
<1> QED BY <1>2, <1>3, <1>4

-----------------------------------------------------------------------------
(* Collaboration: one command at a time, and none dies.                    *)

\* A session lasts as long as it is to, and begins in the past; it is good, and not to end soon.
Timed(s, n) == s.issued \in Nat /\ s.issued <= n /\ s.expires = s.issued + TTL
FreshAt(s, n) == s # Collaborations!Missing /\ ~s.revoked /\ ~(s.expires <= n + Margin)

SessionsTimed(ss, cc, n) ==
  \A t \in TokensOf(cc) : ss[t] # Collaborations!Missing => Timed(ss[t], n)
OnlyMade(ss, cc, m) ==
  \A k \in 1..cc.tokens : k > m => ss[Collaborations!Made(k)] = Collaborations!Missing
OneFresh(ss, n, m) ==
  \A j, k \in 1..m :
    (/\ FreshAt(ss[Collaborations!Made(j)], n) /\ FreshAt(ss[Collaborations!Made(k)], n)
     /\ ss[Collaborations!Made(j)].actor = ss[Collaborations!Made(k)].actor) => j = k

\* What is written is revoked, or of SSO, or the first session of its token; and if the
\* token was made for it, no other fresh one of its person was.
Replaces(ss, n, m, key, e) ==
  \/ e.revoked /\ ss[key] # Collaborations!Missing
  \/ key \in Collaborations!Signed
  \/ key \in Collaborations!Static /\ ss[key] = Collaborations!Missing
  \/ /\ m >= 1 /\ key = Collaborations!Made(m) /\ ss[key] = Collaborations!Missing
     /\ \A j \in 1..m : FreshAt(ss[Collaborations!Made(j)], n)
                          => ss[Collaborations!Made(j)].actor # e.actor
InOrder(ss, n, m, c) ==
  /\ (c.at = "write" /\ c.file = "sessions") => c.copy = ss
  /\ (c.at \in {"load", "write"} /\ c.file = "sessions") =>
       /\ Timed(c.entry, n) /\ Replaces(ss, n, m, c.key, c.entry)
       /\ c.then # "done" => c.key = c.verb.token
  /\ (c.at = "act" /\ c.verb.what = "revoke") =>
       Timed(c.session, n) /\ ss[c.verb.token] # Collaborations!Missing

\* The sessions, one command at a time.
SessionsSound(ss, cc, n, m) ==
  m <= cc.tokens /\ SessionsTimed(ss, cc, n) /\ OnlyMade(ss, cc, m) /\ OneFresh(ss, n, m)
AllInOrder(ss, n, m, cs) == \A p \in Processes : InOrder(ss, n, m, cs[p])
OrderSound ==
  Collaborations!Orderly =>
    /\ SessionsSound(sessions, cCircumstance, now, issued)
    /\ AllInOrder(sessions, now, issued, cCommand)

LEMMA IdleInOrder ==
  ASSUME NEW ss, NEW n, NEW m PROVE InOrder(ss, n, m, Collaborations!Idle)
BY DEF InOrder, Collaborations!Idle

LEMMA OrderInit ==
  ASSUME Collaborations!ConstantsOK, Collaborations!Init
  PROVE  OrderSound
<1>1. /\ cCircumstance \in CollaborationCircumstances /\ now = 0 /\ issued = 0
      /\ sessions = [t \in TokensOf(cCircumstance) |-> Collaborations!Missing]
      /\ cCommand = [p \in Processes |-> Collaborations!Idle]
  BY TokensAndRequests DEF Collaborations!Init
<1>2. \A t \in TokensOf(cCircumstance) : sessions[t] = Collaborations!Missing
  BY <1>1
<1>3. \A k \in 1..cCircumstance.tokens : Collaborations!Made(k) \in TokensOf(cCircumstance)
  BY DEF TokensOf
<1>4. 0 <= cCircumstance.tokens
  BY <1>1 DEF Collaborations!ConstantsOK
<1>5. SessionsSound(sessions, cCircumstance, now, issued)
  BY <1>1, <1>2, <1>3, <1>4 DEF SessionsSound, SessionsTimed, OnlyMade, OneFresh
<1>6. AllInOrder(sessions, now, issued, cCommand)
  BY <1>1, IdleInOrder DEF AllInOrder
<1> QED BY <1>5, <1>6 DEF OrderSound

\* One command becomes another, and all else is idle.
LEMMA Alone ==
  ASSUME FilesSound, Collaborations!Orderly, NEW p \in Processes, p \in cCircumstance.processes,
         NEW c, NEW ds, ds = [cCommand EXCEPT ![p] = c], NEW ss, NEW n, NEW m, InOrder(ss, n, m, c)
  PROVE  AllInOrder(ss, n, m, ds)
<1> SUFFICES ASSUME NEW q \in Processes PROVE InOrder(ss, n, m, ds[q])
  BY DEF AllInOrder
<1>1. cCommand = [r \in Processes |-> cCommand[r]]
  BY DEF FilesSound, CommandsSound
<1>2. CASE q = p
  BY <1>1, <1>2
<1>3. CASE q # p
  <2>1. cCommand[q] = Collaborations!Idle
    BY <1>3 DEF FilesSound, CommandsSound, Collaborations!Orderly, Collaborations!Serial
  <2>2. ds[q] = cCommand[q]
    BY <1>1, <1>3
  <2> QED BY <2>1, <2>2, IdleInOrder
<1> QED BY <1>2, <1>3

LEMMA OrderMoves ==
  ASSUME FilesSound, OrderSound, NEW p \in Processes, p \in cCircumstance.processes, NEW c,
         Collaborations!Become(p, c), Collaborations!Reading,
         Collaborations!Orderly => InOrder(sessions, now, issued, c)
  PROVE  OrderSound'
<1> SUFFICES ASSUME Collaborations!Orderly'
             PROVE  /\ SessionsSound(sessions', cCircumstance', now', issued')
                    /\ AllInOrder(sessions', now', issued', cCommand')
  BY DEF OrderSound
<1>1. UNCHANGED <<cCircumstance, now, issued, sessions>> /\ cCommand' = [cCommand EXCEPT ![p] = c]
  BY DEF Collaborations!Reading, Collaborations!Become
<1>2. Collaborations!Orderly
  BY <1>1 DEF Collaborations!Orderly, Collaborations!Serial
<1>3. AllInOrder(sessions, now, issued, cCommand')
  BY <1>1, <1>2, Alone
<1> QED BY <1>1, <1>2, <1>3 DEF OrderSound

LEMMA SessionTimed ==
  ASSUME Collaborations!ConstantsOK, FilesSound, NEW a
  PROVE  /\ Timed(Collaborations!NewSession(a), now)
         /\ Collaborations!NewSession(a).actor = a
BY DEF FilesSound, Timed, Collaborations!NewSession

LEMMA ConstantNumbers ==
  ASSUME Collaborations!ConstantsOK, FilesSound
  PROVE  /\ TTL \in Nat /\ Margin \in Nat /\ now \in Nat /\ issued \in Nat
         /\ cCircumstance.tokens \in Nat
BY DEF Collaborations!ConstantsOK, FilesSound

\* If a session is given out anew, no fresh one of that person is left.
LEMMA NoneLeft ==
  ASSUME Collaborations!ConstantsOK, FilesSound, SessionsTimed(sessions, cCircumstance, now), NEW a,
         \/ Collaborations!Newest(a) = {}
         \/ \E t \in Collaborations!Newest(a) : Collaborations!Expiring(t),
         NEW t \in TokensOf(cCircumstance), FreshAt(sessions[t], now)
  PROVE  sessions[t].actor # a
<1> SUFFICES ASSUME sessions[t].actor = a PROVE FALSE
  OBVIOUS
<1> DEFINE L == {u \in TokensOf(cCircumstance) : Collaborations!Live(u) /\ sessions[u].actor = a}
           T == {now - sessions[u].issued : u \in L}
<1>1. TTL \in Nat /\ Margin \in Nat /\ now \in Nat
  BY ConstantNumbers
<1>2. \A u \in L : /\ sessions[u].issued \in Nat /\ sessions[u].issued <= now
                   /\ sessions[u].expires = sessions[u].issued + TTL
  BY DEF SessionsTimed, Timed, Collaborations!Live
<1>3. t \in L
  <2>1. sessions[t] # Collaborations!Missing /\ ~sessions[t].revoked
          /\ ~(sessions[t].expires <= now + Margin)
    BY DEF FreshAt
  <2>2. Timed(sessions[t], now)
    BY <2>1 DEF SessionsTimed
  <2>3. sessions[t].expires > now
    BY <1>1, <2>1, <2>2 DEF Timed
  <2> QED BY <2>1, <2>3 DEF Collaborations!Live
<1>4. \A u \in L : u \in TokensOf(cCircumstance) /\ Collaborations!Live(u) /\ sessions[u].actor = a
  OBVIOUS
<1>5. \A u \in TokensOf(cCircumstance) : (Collaborations!Live(u) /\ sessions[u].actor = a) => u \in L
  OBVIOUS
<1> HIDE DEF L
<1>6. T \in SUBSET Nat /\ T # {}
  BY <1>1, <1>2, <1>3
<1> HIDE DEF T
<1>7. PICK m \in T : \A j \in T : m <= j
  BY <1>6, LeastNumber
<1>8. PICK u \in L : m = now - sessions[u].issued
  BY <1>7 DEF T
<1>9. \A w \in L : sessions[w].issued <= sessions[u].issued
  <2> SUFFICES ASSUME NEW w \in L PROVE sessions[w].issued <= sessions[u].issued
    OBVIOUS
  <2>1. now - sessions[w].issued \in T
    BY DEF T
  <2>2. now - sessions[u].issued <= now - sessions[w].issued
    BY <1>7, <1>8, <2>1
  <2> QED BY <1>1, <1>2, <2>2
<1>10. u \in Collaborations!Newest(a)
  BY <1>4, <1>5, <1>9, TokensAndRequests DEF Collaborations!Newest
<1>11. PICK w \in Collaborations!Newest(a) : Collaborations!Expiring(w)
  BY <1>10
<1>12. w \in L /\ \A v \in L : sessions[v].issued <= sessions[w].issued
  BY <1>4, <1>5, TokensAndRequests DEF Collaborations!Newest
<1>13. sessions[w].expires <= now + Margin
  BY <1>11 DEF Collaborations!Expiring
<1>14. sessions[t].issued <= sessions[w].issued
  BY <1>3, <1>12
<1>15. sessions[t].expires <= now + Margin
  BY <1>1, <1>2, <1>3, <1>12, <1>13, <1>14
<1> QED BY <1>15 DEF FreshAt

LEMMA RenewOrder ==
  ASSUME Collaborations!ConstantsOK, FilesSound, OrderSound, NEW p \in Processes, Collaborations!Renew(p)
  PROVE  OrderSound'
<1> SUFFICES ASSUME Collaborations!Orderly'
             PROVE  /\ SessionsSound(sessions', cCircumstance', now', issued')
                    /\ AllInOrder(sessions', now', issued', cCommand')
  BY DEF OrderSound
<1>1. PICK a \in Collaborations!People :
        /\ \/ Collaborations!Newest(a) = {}
           \/ \E t \in Collaborations!Newest(a) : Collaborations!Expiring(t)
        /\ cCommand' = [cCommand EXCEPT ![p] =
             [at |-> "load",
              verb |-> [what |-> "renew", by |-> a, token |-> Collaborations!NoToken,
                        issue |-> Collaborations!AnIssue, event |-> Collaborations!Plain],
              then |-> "done", file |-> "sessions", key |-> Collaborations!Made(issued + 1),
              entry |-> Collaborations!NewSession(a)]]
  BY DEF Collaborations!Renew, Collaborations!Become
<1> DEFINE m == issued + 1
           entry == Collaborations!NewSession(a)
           c == [at |-> "load",
                 verb |-> [what |-> "renew", by |-> a, token |-> Collaborations!NoToken,
                           issue |-> Collaborations!AnIssue, event |-> Collaborations!Plain],
                 then |-> "done", file |-> "sessions", key |-> Collaborations!Made(m), entry |-> entry]
<1>2. /\ p \in cCircumstance.processes /\ issued < cCircumstance.tokens /\ issued' = m
      /\ UNCHANGED <<cCircumstance, now, sessions, issues>> /\ cCommand' = [cCommand EXCEPT ![p] = c]
  BY <1>1 DEF Collaborations!Renew, Collaborations!Free
<1>3. Collaborations!Orderly
  BY <1>2 DEF Collaborations!Orderly, Collaborations!Serial
<1>4. issued \in Nat /\ cCircumstance.tokens \in Nat
  BY ConstantNumbers
<1>5. SessionsSound(sessions, cCircumstance, now, issued)
  BY <1>3 DEF OrderSound
<1>6. sessions[Collaborations!Made(m)] = Collaborations!Missing
  BY <1>2, <1>4, <1>5 DEF SessionsSound, OnlyMade
<1>7. Timed(entry, now) /\ entry.actor = a
  BY SessionTimed
<1>8. \A j \in 1..m : FreshAt(sessions[Collaborations!Made(j)], now)
                        => sessions[Collaborations!Made(j)].actor # a
  <2> SUFFICES ASSUME NEW j \in 1..m, FreshAt(sessions[Collaborations!Made(j)], now)
               PROVE  sessions[Collaborations!Made(j)].actor # a
    OBVIOUS
  <2>1. Collaborations!Made(j) \in TokensOf(cCircumstance)
    BY <1>2, <1>4 DEF TokensOf
  <2> QED BY <1>1, <1>5, <2>1, NoneLeft DEF SessionsSound
<1> HIDE DEF entry
<1>9. InOrder(sessions, now, m, c)
  <2>1. Replaces(sessions, now, m, Collaborations!Made(m), entry)
    BY <1>4, <1>6, <1>7, <1>8 DEF Replaces
  <2> QED BY <1>7, <2>1 DEF InOrder
<1>10. SessionsSound(sessions, cCircumstance, now, m)
  <2>1. m <= cCircumstance.tokens /\ OnlyMade(sessions, cCircumstance, m)
    BY <1>2, <1>4, <1>5 DEF SessionsSound, OnlyMade
  <2>2. OneFresh(sessions, now, m)
    <3>1. \A j \in 1..m : FreshAt(sessions[Collaborations!Made(j)], now) => j \in 1..issued
      BY <1>4, <1>6 DEF FreshAt
    <3> QED BY <1>5, <3>1 DEF SessionsSound, OneFresh
  <2> QED BY <1>5, <2>1, <2>2 DEF SessionsSound
<1> HIDE DEF c, m
<1>11. AllInOrder(sessions, now, m, cCommand')
  BY <1>2, <1>3, <1>9, Alone
<1> QED BY <1>2, <1>10, <1>11

LEMMA SignInOrder ==
  ASSUME Collaborations!ConstantsOK, FilesSound, OrderSound, NEW p \in Processes,
         Collaborations!SignIn(p)
  PROVE  OrderSound'
<1>1. PICK a \in External :
        Collaborations!Become(p,
          [at |-> "load",
           verb |-> [what |-> "sign", by |-> a, token |-> Collaborations!NoToken,
                     issue |-> Collaborations!AnIssue, event |-> Collaborations!Plain],
           then |-> "done", file |-> "sessions", key |-> Collaborations!Token("sso", a, 0),
           entry |-> Collaborations!NewSession(a)])
  BY DEF Collaborations!SignIn
<1> DEFINE entry == Collaborations!NewSession(a)
           c == [at |-> "load",
                 verb |-> [what |-> "sign", by |-> a, token |-> Collaborations!NoToken,
                           issue |-> Collaborations!AnIssue, event |-> Collaborations!Plain],
                 then |-> "done", file |-> "sessions", key |-> Collaborations!Token("sso", a, 0),
                 entry |-> entry]
<1>2. p \in cCircumstance.processes /\ Collaborations!Reading /\ Collaborations!Become(p, c)
  BY <1>1 DEF Collaborations!SignIn, Collaborations!Free
<1>3. Timed(entry, now)
  BY SessionTimed
<1>4. Collaborations!Token("sso", a, 0) \in Collaborations!Signed
  BY DEF Collaborations!Signed
<1> HIDE DEF entry
<1>5. InOrder(sessions, now, issued, c)
  BY <1>3, <1>4 DEF InOrder, Replaces
<1> HIDE DEF c
<1> QED BY <1>2, <1>5, OrderMoves

\* A command that is asked for has read nothing yet.
LEMMA AskedOrder ==
  ASSUME FilesSound, OrderSound, NEW p \in Processes, p \in cCircumstance.processes,
         Collaborations!Reading, NEW at \in {"resolve", "act"}, NEW v,
         at = "act" => v.what # "revoke",
         Collaborations!Become(p, [at |-> at, verb |-> v, session |-> Collaborations!Missing])
  PROVE  OrderSound'
<1> DEFINE c == [at |-> at, verb |-> v, session |-> Collaborations!Missing]
<1>1. InOrder(sessions, now, issued, c)
  BY DEF InOrder
<1>2. Collaborations!Become(p, c)
  OBVIOUS
<1> HIDE DEF c
<1> QED BY <1>1, <1>2, OrderMoves

LEMMA RevokeOrder ==
  ASSUME Collaborations!ConstantsOK, FilesSound, OrderSound, NEW p \in Processes,
         Collaborations!Revoke(p)
  PROVE  OrderSound'
<1>1. PICK v : Collaborations!Become(p, [at |-> "resolve", verb |-> v, session |-> Collaborations!Missing])
  BY DEF Collaborations!Revoke, Collaborations!Ask
<1>2. p \in cCircumstance.processes /\ Collaborations!Reading
  BY DEF Collaborations!Revoke, Collaborations!Free
<1> QED BY <1>1, <1>2, AskedOrder

LEMMA ResolveOrder ==
  ASSUME Collaborations!ConstantsOK, FilesSound, OrderSound, NEW p \in Processes,
         Collaborations!Resolve(p)
  PROVE  OrderSound'
<1> DEFINE v == cCommand[p].verb
           t == v.token
<1>1. cCommand[p].at = "resolve" /\ Collaborations!Reading
  BY DEF Collaborations!Resolve
<1>2. t \in TokensOf(cCircumstance) /\ p \in cCircumstance.processes
  BY <1>1, Commands DEF CommandSound, ResolvingSound
<1>3. \/ /\ Collaborations!Live(t)
         /\ Collaborations!Become(p, [at |-> "act", verb |-> v, session |-> sessions[t]])
      \/ /\ sessions[t] = Collaborations!Missing /\ t \in Collaborations!Static
         /\ Collaborations!Save(p, "act", "sessions", t, Collaborations!NewSession(t.who))
      \/ Collaborations!Become(p, Collaborations!Idle)
  BY DEF Collaborations!Resolve
<1>4. CASE /\ Collaborations!Live(t)
           /\ Collaborations!Become(p, [at |-> "act", verb |-> v, session |-> sessions[t]])
  <2> DEFINE c == [at |-> "act", verb |-> v, session |-> sessions[t]]
  <2>1. sessions[t] # Collaborations!Missing
    BY <1>4 DEF Collaborations!Live
  <2>2. Collaborations!Orderly => Timed(sessions[t], now)
    BY <1>2, <2>1 DEF OrderSound, SessionsSound, SessionsTimed
  <2> HIDE DEF v
  <2>3. Collaborations!Orderly => InOrder(sessions, now, issued, c)
    BY <2>1, <2>2 DEF InOrder
  <2>4. Collaborations!Become(p, c)
    BY <1>4
  <2> HIDE DEF c
  <2> QED BY <1>1, <1>2, <2>3, <2>4, OrderMoves
<1>5. CASE /\ sessions[t] = Collaborations!Missing /\ t \in Collaborations!Static
           /\ Collaborations!Save(p, "act", "sessions", t, Collaborations!NewSession(t.who))
  <2> DEFINE entry == Collaborations!NewSession(t.who)
             c == [at |-> "load", verb |-> v, then |-> "act", file |-> "sessions", key |-> t,
                   entry |-> entry]
  <2>1. Collaborations!Become(p, c)
    BY <1>5 DEF Collaborations!Save
  <2>2. Timed(entry, now)
    BY SessionTimed
  <2> HIDE DEF v, entry
  <2>3. InOrder(sessions, now, issued, c)
    BY <1>5, <2>2 DEF InOrder, Replaces
  <2> HIDE DEF c
  <2> QED BY <1>1, <1>2, <2>1, <2>3, OrderMoves
<1>6. CASE Collaborations!Become(p, Collaborations!Idle)
  BY <1>1, <1>2, <1>6, IdleInOrder, OrderMoves
<1> QED BY <1>3, <1>4, <1>5, <1>6

LEMMA CommandsInOrder ==
  ASSUME OrderSound, Collaborations!Orderly, NEW p \in Processes
  PROVE  InOrder(sessions, now, issued, cCommand[p])
BY DEF OrderSound, AllInOrder

LEMMA MarkRevokedOrder ==
  ASSUME Collaborations!ConstantsOK, FilesSound, OrderSound, NEW p \in Processes,
         Collaborations!MarkRevoked(p)
  PROVE  OrderSound'
<1> DEFINE c == cCommand[p]
           entry == [c.session EXCEPT !.revoked = TRUE]
           d == [at |-> "load", verb |-> c.verb, then |-> "done", file |-> "sessions",
                 key |-> c.verb.token, entry |-> entry]
<1>1. /\ c.at = "act" /\ c.verb.what = "revoke" /\ Collaborations!Reading
      /\ Collaborations!Become(p, d)
  BY DEF Collaborations!MarkRevoked, Collaborations!Save
<1>2. c.session \in Collaborations!Session /\ p \in cCircumstance.processes
  BY <1>1, Commands DEF CommandSound, ActingSound
<1>3. entry.revoked /\ entry.issued = c.session.issued /\ entry.expires = c.session.expires
  BY <1>2 DEF Collaborations!Session
<1>4. Collaborations!Orderly =>
        Timed(c.session, now) /\ sessions[c.verb.token] # Collaborations!Missing
  BY <1>1, CommandsInOrder DEF InOrder
<1> HIDE DEF c, entry
<1>5. Collaborations!Orderly => InOrder(sessions, now, issued, d)
  BY <1>3, <1>4 DEF InOrder, Replaces, Timed
<1> HIDE DEF d
<1> QED BY <1>1, <1>2, <1>5, OrderMoves

LEMMA WorkOrder ==
  ASSUME Collaborations!ConstantsOK, FilesSound, OrderSound, NEW p \in Processes,
         Collaborations!Work(p)
  PROVE  OrderSound'
<1>0. PICK e \in Collaborations!Requests, at \in {"resolve", "act"} : \E v :
        /\ v.what = e.action
        /\ Collaborations!Become(p, [at |-> at, verb |-> v, session |-> Collaborations!Missing])
  BY DEF Collaborations!Work, Collaborations!Ask
<1>1. PICK v :
        /\ v.what = e.action
        /\ Collaborations!Become(p, [at |-> at, verb |-> v, session |-> Collaborations!Missing])
  BY <1>0
<1>2. v.what # "revoke"
  BY <1>1, RequestIs DEF Collaborations!Event, Collaborations!Actions, Collaborations!Allowed
<1>3. p \in cCircumstance.processes /\ Collaborations!Reading
  BY DEF Collaborations!Work, Collaborations!Free
<1> QED BY <1>1, <1>2, <1>3, AskedOrder

LEMMA ActOrder ==
  ASSUME Collaborations!ConstantsOK, FilesSound, OrderSound, NEW p \in Processes,
         Collaborations!Act(p)
  PROVE  OrderSound'
<1> DEFINE v == cCommand[p].verb
           c == [at |-> "load", verb |-> v, then |-> "done", file |-> "issues", key |-> v.issue,
                 entry |-> Collaborations!WithEvent(issues[v.issue], v.event)]
<1>1. /\ cCommand[p].at = "act" /\ Collaborations!Reading
      /\ Collaborations!Become(p, c) \/ Collaborations!Become(p, Collaborations!Idle)
  BY DEF Collaborations!Act, Collaborations!Save
<1>2. p \in cCircumstance.processes
  BY <1>1, Commands
<1> HIDE DEF v
<1>3. InOrder(sessions, now, issued, c)
  BY DEF InOrder
<1> HIDE DEF c
<1> QED BY <1>1, <1>2, <1>3, IdleInOrder, OrderMoves

LEMMA LoadOrder ==
  ASSUME Collaborations!ConstantsOK, FilesSound, OrderSound, NEW p \in Processes,
         Collaborations!Load(p)
  PROVE  OrderSound'
<1> DEFINE c == cCommand[p]
           d == [at |-> "write", verb |-> c.verb, then |-> c.then, file |-> c.file, key |-> c.key,
                 entry |-> c.entry, copy |-> IF c.file = "sessions" THEN sessions ELSE issues]
<1>1. c.at = "load" /\ Collaborations!Reading /\ Collaborations!Become(p, d)
  BY DEF Collaborations!Load
<1>2. p \in cCircumstance.processes
  BY <1>1, Commands
<1>3. Collaborations!Orderly => InOrder(sessions, now, issued, c)
  BY CommandsInOrder
<1> HIDE DEF c
<1>4. Collaborations!Orderly => InOrder(sessions, now, issued, d)
  BY <1>1, <1>3 DEF InOrder
<1> HIDE DEF d
<1> QED BY <1>1, <1>2, <1>4, OrderMoves

\* Time only ends sessions.
LEMMA TickOrder ==
  ASSUME Collaborations!ConstantsOK, FilesSound, OrderSound, Collaborations!Tick
  PROVE  OrderSound'
<1> SUFFICES ASSUME Collaborations!Orderly'
             PROVE  /\ SessionsSound(sessions', cCircumstance', now', issued')
                    /\ AllInOrder(sessions', now', issued', cCommand')
  BY DEF OrderSound
<1> DEFINE n == now + 1
<1>1. now' = n /\ UNCHANGED <<cCircumstance, issued, sessions, issues, cCommand>>
  BY DEF Collaborations!Tick
<1>2. Collaborations!Orderly
  BY <1>1 DEF Collaborations!Orderly, Collaborations!Serial
<1>3. /\ SessionsSound(sessions, cCircumstance, now, issued)
      /\ AllInOrder(sessions, now, issued, cCommand)
  BY <1>2 DEF OrderSound
<1>4. /\ TTL \in Nat /\ Margin \in Nat /\ now \in Nat /\ issued \in Nat /\ n \in Nat
      /\ cCircumstance.tokens \in Nat
  BY ConstantNumbers
<1>5. \A s : Timed(s, now) => Timed(s, n)
  BY <1>4 DEF Timed
<1>6. \A s : (Timed(s, now) /\ FreshAt(s, n)) => FreshAt(s, now)
  BY <1>4 DEF Timed, FreshAt
<1>7. \A j \in 1..issued :
        FreshAt(sessions[Collaborations!Made(j)], n) => FreshAt(sessions[Collaborations!Made(j)], now)
  <2> SUFFICES ASSUME NEW j \in 1..issued, FreshAt(sessions[Collaborations!Made(j)], n)
               PROVE  FreshAt(sessions[Collaborations!Made(j)], now)
    OBVIOUS
  <2>1. Collaborations!Made(j) \in TokensOf(cCircumstance)
    BY <1>3, <1>4 DEF TokensOf, SessionsSound
  <2>2. Timed(sessions[Collaborations!Made(j)], now)
    BY <1>3, <2>1 DEF SessionsSound, SessionsTimed, FreshAt
  <2> QED BY <1>6, <2>2
<1> HIDE DEF n
<1>8. SessionsSound(sessions, cCircumstance, n, issued)
  <2>1. SessionsTimed(sessions, cCircumstance, n)
    BY <1>3, <1>5 DEF SessionsSound, SessionsTimed
  <2>2. OneFresh(sessions, n, issued)
    BY <1>3, <1>7 DEF SessionsSound, OneFresh
  <2> QED BY <1>3, <2>1, <2>2 DEF SessionsSound
<1>9. AllInOrder(sessions, n, issued, cCommand)
  <2> SUFFICES ASSUME NEW p \in Processes PROVE InOrder(sessions, n, issued, cCommand[p])
    BY DEF AllInOrder
  <2> DEFINE c == cCommand[p]
  <2>1. InOrder(sessions, now, issued, c)
    BY <1>3 DEF AllInOrder
  <2> HIDE DEF c
  <2>2. \A key, e : Replaces(sessions, now, issued, key, e) => Replaces(sessions, n, issued, key, e)
    BY <1>7 DEF Replaces
  <2>3. InOrder(sessions, n, issued, c)
    BY <1>5, <2>1, <2>2 DEF InOrder
  <2> QED BY <2>3 DEF c
<1> QED BY <1>1, <1>8, <1>9

\* What a token is made for tells it from the others.
LEMMA TokensApart ==
  /\ \A j, k : Collaborations!Made(j) = Collaborations!Made(k) => j = k
  /\ \A t \in Collaborations!Static \cup Collaborations!Signed : \A k : t # Collaborations!Made(k)
  /\ \A t \in Collaborations!Static : t \notin Collaborations!Signed
BY DEF Collaborations!Made, Collaborations!Static, Collaborations!Signed, Collaborations!Token

LEMMA SessionThere ==
  ASSUME NEW s \in Collaborations!Session PROVE s # Collaborations!Missing
<1>1. DOMAIN s = {"actor", "issued", "expires", "revoked"}
  BY DEF Collaborations!Session
<1>2. DOMAIN Collaborations!Missing = {"missing"}
  BY DEF Collaborations!Missing
<1> QED BY <1>1, <1>2

\* A session is put into the file.
Put(new, ss, cc, key, e) == \A t \in TokensOf(cc) : new[t] = IF t = key THEN e ELSE ss[t]

LEMMA SessionPut ==
  ASSUME NEW cc, NEW n \in Nat, NEW m \in Nat, cc.tokens \in Nat,
         NEW ss, SessionsSound(ss, cc, n, m),
         NEW key \in TokensOf(cc), NEW e \in Collaborations!Session, Timed(e, n),
         Replaces(ss, n, m, key, e), NEW new, Put(new, ss, cc, key, e)
  PROVE  SessionsSound(new, cc, n, m)
<1>1. /\ \A t \in TokensOf(cc) : new[t] = IF t = key THEN e ELSE ss[t]
      /\ \A t \in TokensOf(cc) : t # key => new[t] = ss[t]
  BY DEF Put
<1>2. SessionsTimed(new, cc, n)
  BY <1>1 DEF SessionsSound, SessionsTimed
<1>3. m <= cc.tokens
  BY DEF SessionsSound
<1>4. \A k \in 1..cc.tokens : Collaborations!Made(k) \in TokensOf(cc)
  BY DEF TokensOf
<1>5. ASSUME NEW k \in 1..cc.tokens, k > m PROVE key # Collaborations!Made(k)
  <2>1. ss[Collaborations!Made(k)] = Collaborations!Missing
    BY <1>5 DEF SessionsSound, OnlyMade
  <2>2. m # k
    BY <1>5
  <2> QED BY <2>1, <2>2, TokensApart DEF Replaces
<1>6. OnlyMade(new, cc, m)
  BY <1>1, <1>4, <1>5 DEF SessionsSound, OnlyMade
<1>7. OneFresh(new, n, m)
  <2> SUFFICES ASSUME NEW j \in 1..m, NEW k \in 1..m,
                      FreshAt(new[Collaborations!Made(j)], n), FreshAt(new[Collaborations!Made(k)], n),
                      new[Collaborations!Made(j)].actor = new[Collaborations!Made(k)].actor
               PROVE  j = k
    BY DEF OneFresh
  <2>1. /\ Collaborations!Made(j) \in TokensOf(cc) /\ Collaborations!Made(k) \in TokensOf(cc)
    BY <1>3, <1>4
  <2>2. CASE key # Collaborations!Made(j) /\ key # Collaborations!Made(k)
    BY <1>1, <2>1, <2>2 DEF SessionsSound, OneFresh
  <2>3. ASSUME NEW i \in 1..m, NEW l \in 1..m, key = Collaborations!Made(i),
               FreshAt(new[Collaborations!Made(i)], n), FreshAt(new[Collaborations!Made(l)], n),
               new[Collaborations!Made(i)].actor = new[Collaborations!Made(l)].actor
        PROVE  i = l
    <3> SUFFICES ASSUME i # l PROVE FALSE
      OBVIOUS
    <3>1. new[Collaborations!Made(i)] = e
      BY <1>1, <2>3
    <3>2. Collaborations!Made(l) # key /\ Collaborations!Made(l) \in TokensOf(cc)
      BY <1>3, <1>4, <2>3, TokensApart
    <3>3. new[Collaborations!Made(l)] = ss[Collaborations!Made(l)]
      BY <1>1, <3>2
    <3>4. ~e.revoked
      BY <2>3, <3>1 DEF FreshAt
    <3>5. ss[Collaborations!Made(l)].actor # e.actor
      BY <2>3, <3>3, <3>4, TokensApart DEF Replaces
    <3> QED BY <2>3, <3>1, <3>3, <3>5
  <2>4. CASE key = Collaborations!Made(j)
    BY <2>3, <2>4
  <2>5. CASE key = Collaborations!Made(k)
    BY <2>3, <2>5
  <2> QED BY <2>2, <2>4, <2>5
<1> QED BY <1>1, <1>2, <1>3, <1>6, <1>7 DEF SessionsSound

LEMMA WriteOrder ==
  ASSUME Collaborations!ConstantsOK, FilesSound, OrderSound, NEW p \in Processes,
         Collaborations!Write(p)
  PROVE  OrderSound'
<1> SUFFICES ASSUME Collaborations!Orderly'
             PROVE  /\ SessionsSound(sessions', cCircumstance', now', issued')
                    /\ AllInOrder(sessions', now', issued', cCommand')
  BY DEF OrderSound
<1> DEFINE c == cCommand[p]
           d == IF c.then = "done" THEN Collaborations!Idle
                ELSE [at |-> "act", verb |-> c.verb, session |-> c.entry]
<1>1. /\ c.at = "write" /\ UNCHANGED <<cCircumstance, now, issued>>
      /\ c.file = "sessions" => sessions' = [c.copy EXCEPT ![c.key] = c.entry]
      /\ c.file # "sessions" => UNCHANGED sessions
      /\ cCommand' = [cCommand EXCEPT ![p] = d]
  BY DEF Collaborations!Write, Collaborations!Become
<1>2. Collaborations!Orderly
  BY <1>1 DEF Collaborations!Orderly, Collaborations!Serial
<1>3. /\ SessionsSound(sessions, cCircumstance, now, issued)
      /\ InOrder(sessions, now, issued, c)
  BY <1>2, CommandsInOrder DEF OrderSound
<1>4. SavingSound(cCircumstance, c) /\ p \in cCircumstance.processes
  BY <1>1, Commands DEF CommandSound
<1>5. now \in Nat /\ issued \in Nat /\ cCircumstance.tokens \in Nat
  BY ConstantNumbers
<1>6. sessions \in Registries(cCircumstance)
  BY DEF FilesSound
<1> HIDE DEF c
<1>7. CASE c.file = "sessions"
  <2>1. /\ c.key \in TokensOf(cCircumstance) /\ c.entry \in Collaborations!Session
        /\ Timed(c.entry, now) /\ Replaces(sessions, now, issued, c.key, c.entry)
        /\ c.then # "done" => c.key = c.verb.token
        /\ sessions' = [sessions EXCEPT ![c.key] = c.entry]
    BY <1>1, <1>3, <1>4, <1>7 DEF SavingSound, InOrder
  <2>2. SessionsSound(sessions', cCircumstance, now, issued) /\ sessions'[c.key] = c.entry
    <3>1. Put(sessions', sessions, cCircumstance, c.key, c.entry)
      BY <1>6, <2>1 DEF Put, Registries
    <3>2. sessions'[c.key] = c.entry
      BY <2>1, <3>1 DEF Put
    <3> QED BY <1>3, <1>5, <2>1, <3>1, <3>2, SessionPut
  <2>3. InOrder(sessions', now, issued, d)
    <3>1. CASE c.then = "done"
      BY <3>1, IdleInOrder
    <3>2. CASE c.then # "done"
      <4>1. d = [at |-> "act", verb |-> c.verb, session |-> c.entry]
        BY <3>2
      <4>2. c.entry # Collaborations!Missing
        BY <2>1, SessionThere
      <4> HIDE DEF d
      <4> QED BY <2>1, <2>2, <3>2, <4>1, <4>2 DEF InOrder
    <3> QED BY <3>1, <3>2
  <2> HIDE DEF d
  <2>4. AllInOrder(sessions', now, issued, cCommand')
    BY <1>1, <1>2, <1>4, <2>3, Alone
  <2> QED BY <1>1, <2>2, <2>4
<1>8. CASE c.file # "sessions"
  <2>1. d = Collaborations!Idle
    BY <1>1, <1>4, <1>8 DEF SavingSound
  <2> HIDE DEF d
  <2>2. AllInOrder(sessions, now, issued, cCommand')
    BY <1>1, <1>2, <1>4, <2>1, IdleInOrder, Alone
  <2> QED BY <1>1, <1>3, <1>8, <2>2
<1> QED BY <1>7, <1>8

LEMMA CrashOrder ==
  ASSUME NEW p \in Processes, Collaborations!Crash(p)
  PROVE  ~Collaborations!Orderly /\ OrderSound'
BY DEF OrderSound, Collaborations!Crash, Collaborations!Orderly, Collaborations!Serial

LEMMA OrderStep ==
  ASSUME Collaborations!ConstantsOK, FilesSound, OrderSound,
         [Collaborations!Next]_(Collaborations!vars)
  PROVE  OrderSound'
<1>1. CASE Collaborations!Tick
  BY <1>1, TickOrder
<1>2. CASE UNCHANGED Collaborations!vars
  BY <1>2 DEF Collaborations!vars, OrderSound, Collaborations!Orderly, Collaborations!Serial
<1>3. ASSUME NEW p \in Processes,
             \/ Collaborations!Renew(p) \/ Collaborations!SignIn(p) \/ Collaborations!Revoke(p)
             \/ Collaborations!Resolve(p) \/ Collaborations!MarkRevoked(p) \/ Collaborations!Work(p)
             \/ Collaborations!Act(p) \/ Collaborations!Load(p) \/ Collaborations!Write(p)
             \/ Collaborations!Crash(p)
      PROVE  OrderSound'
  BY <1>3, RenewOrder, SignInOrder, RevokeOrder, ResolveOrder, MarkRevokedOrder, WorkOrder, ActOrder,
     LoadOrder, WriteOrder, CrashOrder
<1> QED BY <1>1, <1>2, <1>3 DEF Collaborations!Next

\* Only what is written changes the sessions, and it leaves a revoked one revoked.
LEMMA RevokedStays ==
  ASSUME Collaborations!ConstantsOK, FilesSound, OrderSound,
         [Collaborations!Next]_(Collaborations!vars), Collaborations!Orderly,
         NEW t \in TokensOf(cCircumstance) \ Collaborations!Signed,
         sessions[t] # Collaborations!Missing, sessions[t].revoked
  PROVE  sessions'[t] # Collaborations!Missing /\ sessions'[t].revoked
<1>1. CASE UNCHANGED sessions
  BY <1>1
<1>2. ASSUME NEW p \in Processes, Collaborations!Write(p), sessions' # sessions
      PROVE  sessions'[t] # Collaborations!Missing /\ sessions'[t].revoked
  <2> DEFINE c == cCommand[p]
  <2>1. /\ c.at = "write" /\ c.file = "sessions"
        /\ sessions' = [c.copy EXCEPT ![c.key] = c.entry]
    BY <1>2 DEF Collaborations!Write
  <2>2. InOrder(sessions, now, issued, c)
    BY CommandsInOrder
  <2>3. SavingSound(cCircumstance, c)
    BY <2>1, Commands DEF CommandSound
  <2> HIDE DEF c
  <2>4. /\ c.entry \in Collaborations!Session /\ c.key \in TokensOf(cCircumstance)
        /\ Replaces(sessions, now, issued, c.key, c.entry)
        /\ sessions' = [sessions EXCEPT ![c.key] = c.entry]
    BY <2>1, <2>2, <2>3 DEF SavingSound, InOrder
  <2>5. sessions \in Registries(cCircumstance)
    BY DEF FilesSound
  <2>6. CASE t # c.key
    BY <2>4, <2>6
  <2>7. CASE t = c.key
    <3>1. sessions'[t] = c.entry
      BY <2>4, <2>5, <2>7 DEF Registries
    <3>2. c.entry.revoked
      BY <2>4, <2>7 DEF Replaces
    <3> QED BY <2>4, <3>1, <3>2, SessionThere
  <2> QED BY <2>6, <2>7
<1>3. \/ UNCHANGED sessions
      \/ \E p \in Processes : Collaborations!Write(p) \/ Collaborations!Crash(p)
  BY DEF Collaborations!Next, Collaborations!vars, Collaborations!Tick, Collaborations!Renew,
         Collaborations!SignIn, Collaborations!Revoke, Collaborations!Resolve,
         Collaborations!MarkRevoked, Collaborations!Work, Collaborations!Act, Collaborations!Load,
         Collaborations!Reading
<1> QED BY <1>1, <1>2, <1>3, CrashOrder

LEMMA OneSessionIsFresh ==
  ASSUME Collaborations!ConstantsOK, FilesSound, OrderSound
  PROVE  Collaborations!OneFreshSession
<1> SUFFICES ASSUME Collaborations!Orderly,
                    NEW j \in 1..issued, NEW k \in 1..issued,
                    Collaborations!Live(Collaborations!Made(j)),
                    Collaborations!Live(Collaborations!Made(k)),
                    ~(sessions[Collaborations!Made(j)].expires <= now + Margin),
                    ~(sessions[Collaborations!Made(k)].expires <= now + Margin),
                    sessions[Collaborations!Made(j)].actor = sessions[Collaborations!Made(k)].actor
             PROVE  Collaborations!Made(j) = Collaborations!Made(k)
  BY DEF Collaborations!OneFreshSession
<1>1. OneFresh(sessions, now, issued)
  BY DEF OrderSound, SessionsSound
<1>2. j = k
  BY <1>1 DEF OneFresh, FreshAt, Collaborations!Live
<1> QED BY <1>2

LEMMA CollaborationInvariant ==
  ASSUME Collaborations!ConstantsOK
  PROVE  Collaborations!Spec => CollaborationSafe
<1> DEFINE Always == FilesSound /\ OrderSound
           Safe == /\ Collaborations!EventsTellIssue /\ Collaborations!ResolvedWhenAcceptable
                   /\ Collaborations!OneLinkPerDefect /\ Collaborations!OneFreshSession
           Lasts == \A t \in Collaborations!Tokens \ Collaborations!Signed :
                      (Collaborations!Orderly /\ sessions[t] # Collaborations!Missing /\ sessions[t].revoked)
                        => (sessions'[t] # Collaborations!Missing /\ sessions'[t].revoked)
<1>1. Collaborations!Init => Always
  BY FilesInit, OrderInit
<1>2. Always /\ [Collaborations!Next]_(Collaborations!vars) => Always'
  BY FilesStep, OrderStep
<1>3. Always => Safe
  BY IssuesAreSound, OneSessionIsFresh
<1>4. Always /\ [Collaborations!Next]_(Collaborations!vars) => [Lasts]_(Collaborations!vars)
  BY RevokedStays, TokensAndRequests
<1> HIDE DEF Always
<1>5. Collaborations!Spec => []Safe
  <2> HIDE DEF Safe
  <2> QED BY <1>1, <1>2, <1>3, PTL DEF Collaborations!Spec
<1>6. Collaborations!Spec => [][Lasts]_(Collaborations!vars)
  <2> HIDE DEF Lasts
  <2> QED BY <1>1, <1>2, <1>4, PTL DEF Collaborations!Spec
<1> QED BY <1>5, <1>6, PTL DEF CollaborationSafe, Collaborations!CollaborationSafe,
             Collaborations!RevocationLasts

-----------------------------------------------------------------------------
(* Every behaviour of the records is one of each part.                     *)

LEMMA EveryRecordMoves ==
  ASSUME [AllNext]_allVars
  PROVE  /\ [Baselines!Next]_(Baselines!vars) /\ [Admissions!Next]_(Admissions!vars)
         /\ [Collaborations!Next]_(Collaborations!vars)
BY DEF AllNext, allVars, vars, baselineVars, admissionVars, collaborationVars, suiteVars,
       Baselines!vars, Admissions!vars, Collaborations!vars

LEMMA EveryRecordBehaves == AllSpec => Baselines!Spec /\ Admissions!Spec /\ Collaborations!Spec
<1>1. AllInit => Baselines!Init /\ Admissions!Init /\ Collaborations!Init
  BY DEF AllInit
<1> QED BY <1>1, EveryRecordMoves, PTL DEF AllSpec, Baselines!Spec, Admissions!Spec,
             Collaborations!Spec

\* For any number of keys, commands and revisions: however commands overlap and wherever
\* one dies, a baseline's history ends with the baseline, repeats no report, and an undo
\* takes one entry back; one command at a time, the audit that set_baseline and
\* rollback_baseline leave keeps the newest versions and every promotion and rollback.
THEOREM BaselineHistoriesAreSound ==
  ASSUME Baselines!ConstantsOK
  PROVE  AllSpec => []HistoryIsSound
BY BaselinesInvariant, BaselinesInvSound, EveryRecordBehaves, PTL

\* One command at a time, under the policy of the repository, for any reports: what
\* promote_baseline makes the baseline has no failure, and neither more findings nor, if
\* all are shown, another family than the baseline it replaces.
THEOREM PromotionsAddNothing ==
  ASSUME Baselines!ConstantsOK
  PROVE  AllSpec => []PromotionAddsNothing
BY BaselinesInvariant, BaselinesInvAddsNothing, EveryRecordBehaves, PTL

\* For any number of versions, people and commands: record, case and the contracts
\* announced of a case agree in every behaviour of the records.
THEOREM CaseStoresAgree ==
  ASSUME Admissions!ConstantsOK
  PROVE  AllSpec => []StoresAgree
BY AdmissionsInvariant, EveryRecordBehaves, PTL

\* For any number of versions, people and commands: what a case's history names of
\* entries led to what the case is.
THEOREM CaseHistoriesExplain ==
  ASSUME Admissions!ConstantsOK
  PROVE  AllSpec => []HistoryExplainsCase
BY AdmissionsInvariant, EveryRecordBehaves, PTL

\* For any number of commands, people, tokens and issues: the events of an issue tell its
\* state and its links, it was resolved only when none or an acceptable one was linked, and
\* a defect has one link; one command at a time, and none dies, a person has one fresh
\* issued session, and a revoked session stays revoked.
THEOREM CollaborationStaysSafe ==
  ASSUME Collaborations!ConstantsOK
  PROVE  AllSpec => CollaborationSafe
BY CollaborationInvariant, EveryRecordBehaves, PTL
=============================================================================
