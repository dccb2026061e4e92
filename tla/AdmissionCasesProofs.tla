-------------------------- MODULE AdmissionCasesProofs --------------------------
(***************************************************************************)
(* Proofs about AdmissionCases: the history of a case explains it in every *)
(* interleaving of any number of commands, of which any may die anywhere;  *)
(* and with one command at a time, none of which dies, the record of the   *)
(* collaboration, the case and the contracts announced of it agree.        *)
(***************************************************************************)
EXTENDS AdmissionCases, SequenceTheorems, TLAPS

-----------------------------------------------------------------------------
(* Types.                                                                  *)

\* What a command that has got to each of its steps holds.
Early == [at : {"record", "load"}, verb : Verb, record : Record]
Middle == [at : {"gate", "previous"}, verb : Verb, record : Record,
           base : [report : Reports, moved : 0..circumstance.moves], gate : {Missing} \cup Gate]
Late == [at : {"apply", "number", "case", "index", "publish"}, verb : Verb, record : Record,
         looking : BOOLEAN, previous : {Missing} \cup Case, item : Case]

\* A look that has read the gate has one, and an update has a case.
HasRead(c) ==
  /\ c.at = "previous" => c.gate # Missing
  /\ c.at = "apply" => c.previous # Missing
InputsAreRead == \A p \in Processes : HasRead(command[p])
TInv == TypeOK /\ InputsAreRead

LEMMA CommandAt ==
  ASSUME TypeOK, NEW p \in Processes
  PROVE  /\ command[p] \in {Idle} \cup Early \cup Middle \cup Late
         /\ command[p] # Idle <=> command[p].at # "idle"
         /\ command[p].at \in {"record", "load"} => command[p] \in Early
         /\ command[p].at \in {"gate", "previous"} => command[p] \in Middle
         /\ command[p].at \in {"apply", "number", "case", "index", "publish"} => command[p] \in Late
<1>1. command[p] \in {Idle} \cup Early \cup Middle \cup Late
  BY DEF TypeOK, Command, Early, Middle, Late
<1>2. /\ Idle.at = "idle"
      /\ \A c \in Early : c.at \in {"record", "load"}
      /\ \A c \in Middle : c.at \in {"gate", "previous"}
      /\ \A c \in Late : c.at \in {"apply", "number", "case", "index", "publish"}
  BY DEF Idle, Early, Middle, Late
<1> HIDE DEF Idle, Early, Middle, Late
<1> QED BY <1>1, <1>2

LEMMA MissingIsNoRecord ==
  ASSUME TypeOK
  PROVE  /\ \A c \in Case : c # Missing
         /\ \A g \in Gate : g # Missing
<1>1. DOMAIN Missing = {"missing"}
  BY DEF Missing
<1>2. \A c \in Case : "report" \in DOMAIN c
  BY DEF Case
<1>3. \A g \in Gate : "decision" \in DOMAIN g
  BY DEF Gate
<1> QED BY <1>1, <1>2, <1>3

LEMMA LookType == ConstantsOK => Look \in Verb
BY DEF ConstantsOK, Look, Verb, Asked

LEMMA CurrentType == TypeOK => Current \in {Missing} \cup Case
BY DEF TypeOK, Current

LEMMA GateNowType == TypeOK => GateNow \in Gate
<1> SUFFICES ASSUME TypeOK PROVE GateNow \in Gate
  OBVIOUS
<1>1. CASE override.decision = {}
  <2>1. baseline.report \in DOMAIN Automatic /\ Automatic \in Seq(Decisions)
    BY DEF TypeOK, ConstantsOK, Reports
  <2>2. Automatic[baseline.report] \in Decisions
    BY <2>1
  <2> QED BY <1>1, <2>2 DEF GateNow, Gate
<1>2. CASE override.decision # {}
  <2>1. (CHOOSE d \in override.decision : TRUE) \in Decisions
    BY <1>2 DEF TypeOK
  <2> QED BY <1>2, <2>1 DEF GateNow, Gate
<1> QED BY <1>1, <1>2

LEMMA RebuildType ==
  ASSUME TypeOK, NEW previous \in {Missing} \cup Case, NEW gate \in Gate,
         NEW base \in [report : Reports, moved : 0..circumstance.moves]
  PROVE  Rebuild(previous, base, gate) \in Case
<1>1. CASE previous = Missing
  BY <1>1 DEF Rebuild, Case, States, People, Gate
<1>2. CASE previous # Missing
  BY <1>2 DEF Rebuild, Case, States, People, Gate
<1> QED BY <1>1, <1>2

LEMMA RevisedType ==
  ASSUME ConstantsOK, NEW r \in Record, NEW verb \in Verb, verb.what # "view"
  PROVE  Revised(r, verb) \in Record
<1>1. CASE verb.what = "assign"
  BY <1>1 DEF Revised, Record, Verb, People, Asked, States
<1>2. CASE verb.what = "transition"
  BY <1>2 DEF Revised, Record, Verb, People
<1>3. CASE verb.what = "comment"
  BY <1>3 DEF Revised
<1> QED BY <1>1, <1>2, <1>3 DEF Verb

\* What is appended if anything is.
LEMMA NoneOrOne ==
  ASSUME NEW S, NEW x \in S, NEW none \in BOOLEAN
  PROVE  (IF none THEN <<>> ELSE <<x>>) \in Seq(S) /\ (IF none THEN <<x>> ELSE <<>>) \in Seq(S)
<1>1. <<x>> \in Seq(S)
  OBVIOUS
<1>2. <<>> \in Seq(S)
  OBVIOUS
<1> QED BY <1>1, <1>2

LEMMA UpdatedType ==
  ASSUME TypeOK, NEW c \in Case, NEW r \in Record, NEW by \in People
  PROVE  Updated(c, r, by) \in Case
<1> DEFINE to == Normal(r.state)
           first == IF c.events = <<>> THEN <<[from |-> "", to |-> c.status]>> ELSE <<>>
           move == IF c.status = to THEN <<>> ELSE <<[from |-> c.status, to |-> to]>>
<1>1. to \in States
  BY DEF Normal, Record, Asked, States
<1>2. c.status \in States /\ c.events \in Seq(Event) /\ c.roles \in Seq(RoleChange)
  BY DEF Case
<1>3. first \in Seq(Event) /\ move \in Seq(Event)
  <2>1. [from |-> "", to |-> c.status] \in Event /\ [from |-> c.status, to |-> to] \in Event
    BY <1>1, <1>2 DEF Event
  <2> HIDE DEF to
  <2> QED BY <2>1, NoneOrOne
<1>4. c.events \o first \o move \in Seq(Event)
  <2> HIDE DEF first, move
  <2>1. c.events \o first \in Seq(Event)
    BY <1>2, <1>3
  <2> QED BY <1>3, <2>1
<1>5. \A role \in {"assignee", "reviewer"} : \A x, y \in People :
        RoleChanges(role, x, y) \in Seq(RoleChange)
  <2> SUFFICES ASSUME NEW role \in {"assignee", "reviewer"}, NEW x \in People, NEW y \in People
               PROVE  RoleChanges(role, x, y) \in Seq(RoleChange)
    OBVIOUS
  <2>1. [role |-> role, from |-> x, to |-> y] \in RoleChange
    BY DEF RoleChange
  <2> QED BY <2>1, NoneOrOne DEF RoleChanges
<1>6. c.roles \o RoleChanges("assignee", c.assignee, r.assignee)
         \o RoleChanges("reviewer", c.reviewer, r.reviewer) \in Seq(RoleChange)
  <2>1. c.assignee \in People /\ c.reviewer \in People /\ r.assignee \in People /\ r.reviewer \in People
    BY DEF Case, Record
  <2>2. /\ RoleChanges("assignee", c.assignee, r.assignee) \in Seq(RoleChange)
        /\ RoleChanges("reviewer", c.reviewer, r.reviewer) \in Seq(RoleChange)
    BY <1>5, <2>1
  <2> QED BY <1>2, <2>2
<1>7. r.assignee \in People /\ r.reviewer \in People
  BY DEF Record
<1>8. Updated(c, r, by) =
        [c EXCEPT !.status = to, !.assignee = r.assignee, !.reviewer = r.reviewer, !.by = by,
                  !.events = c.events \o first \o move,
                  !.roles = c.roles \o RoleChanges("assignee", c.assignee, r.assignee)
                                    \o RoleChanges("reviewer", c.reviewer, r.reviewer)]
  BY DEF Updated, Case
<1> HIDE DEF to, first, move
<1> QED BY <1>1, <1>4, <1>6, <1>7, <1>8 DEF Case

\* What a step writes for itself keeps the types of all commands.
LEMMA BecomeType ==
  ASSUME TInv, NEW p \in Processes, NEW c \in Command, Become(p, c),
         HasRead(c), circumstance' = circumstance
  PROVE  (command \in [Processes -> Command])' /\ InputsAreRead'
<1>1. Command' = Command
  BY DEF Command, Case
<1>2. command' = [command EXCEPT ![p] = c] /\ command \in [Processes -> Command]
  BY DEF Become, TInv, TypeOK
<1> HIDE DEF Command
<1>3. command' \in [Processes -> Command]
  BY <1>2
<1>4. \A q \in Processes : command'[q] = IF q = p THEN c ELSE command[q]
  BY <1>2
<1> QED BY <1>1, <1>3, <1>4 DEF TInv, InputsAreRead

LEMMA CommandIs == Command = {Idle} \cup Early \cup Middle \cup Late
BY DEF Command, Early, Middle, Late

\* What is asked of the collaboration.
LEMMA AskedFor ==
  ASSUME TypeOK, NEW p \in Processes, Collaborate(p)
  PROVE  \E verb \in Verb : verb.what # "view" /\ Ask(p, verb)
<1>1. Look \in Verb
  BY LookType DEF TypeOK
<1>2. PICK a \in Actors :
        \/ \E b \in Actors : Ask(p, [Look EXCEPT !.what = "assign", !.by = a, !.whom = b])
        \/ \E to \in circumstance.asked :
             Ask(p, [Look EXCEPT !.what = "transition", !.by = a, !.to = to])
        \/ Ask(p, [Look EXCEPT !.what = "comment"])
  BY DEF Collaborate
<1>3. circumstance.asked \subseteq Asked
  BY DEF TypeOK, ConstantsOK
<1>4. CASE \E b \in Actors : Ask(p, [Look EXCEPT !.what = "assign", !.by = a, !.whom = b])
  <2>1. PICK b \in Actors : Ask(p, [Look EXCEPT !.what = "assign", !.by = a, !.whom = b])
    BY <1>4
  <2> DEFINE verb == [Look EXCEPT !.what = "assign", !.by = a, !.whom = b]
  <2>2. verb \in Verb /\ verb.what # "view"
    BY <1>1 DEF Verb
  <2> QED BY <2>1, <2>2
<1>5. CASE \E to \in circumstance.asked :
             Ask(p, [Look EXCEPT !.what = "transition", !.by = a, !.to = to])
  <2>1. PICK to \in circumstance.asked :
          Ask(p, [Look EXCEPT !.what = "transition", !.by = a, !.to = to])
    BY <1>5
  <2> DEFINE verb == [Look EXCEPT !.what = "transition", !.by = a, !.to = to]
  <2>2. verb \in Verb /\ verb.what # "view"
    BY <1>1, <1>3 DEF Verb
  <2> QED BY <2>1, <2>2
<1>6. CASE Ask(p, [Look EXCEPT !.what = "comment"])
  <2> DEFINE verb == [Look EXCEPT !.what = "comment"]
  <2>2. verb \in Verb /\ verb.what # "view"
    BY <1>1 DEF Verb
  <2> QED BY <1>6, <2>2
<1> QED BY <1>2, <1>4, <1>5, <1>6

\* Commands that come, read the inputs, or go.
LEMMA ReadType ==
  ASSUME TInv, NEW p \in Processes,
         View(p) \/ ReadGate(p) \/ ReadPrevious(p) \/ Number(p) \/ Collaborate(p) \/ LoadCase(p)
         \/ Apply(p) \/ Refuse(p)
  PROVE  TInv'
<1>0. /\ UNCHANGED <<circumstance, baseline, override, record, cases, index, announced>>
      /\ accepted' \in BOOLEAN /\ Case' = Case
  <2>1. /\ UNCHANGED <<circumstance, baseline, override, record, cases, index, announced>>
        /\ accepted' \in BOOLEAN
    BY DEF View, ReadGate, ReadPrevious, Number, Collaborate, LoadCase, Apply, Refuse, Files, TInv, TypeOK
  <2> QED BY <2>1 DEF Case
<1>1. SUFFICES \E c \in Command : Become(p, c) /\ HasRead(c)
  <2> SUFFICES ASSUME NEW c \in Command, Become(p, c), HasRead(c)
               PROVE  TInv'
    OBVIOUS
  <2>1. (command \in [Processes -> Command])' /\ InputsAreRead'
    BY <1>0, BecomeType
  <2> QED BY <1>0, <2>1 DEF TInv, TypeOK
<1> DEFINE c == command[p]
<1>2. TypeOK
  BY DEF TInv
<1>3. /\ baseline \in [report : Reports, moved : 0..circumstance.moves] /\ record \in Record
      /\ Look \in Verb /\ Current \in {Missing} \cup Case
  BY <1>2, LookType, CurrentType DEF TypeOK
<1>4. Idle \in Command
  BY CommandIs
<1>5. ASSUME NEW verb \in Verb, NEW r \in Record, Read(p, verb, r)
      PROVE  \E d \in Command : Become(p, d) /\ HasRead(d)
  <2> DEFINE d == [at |-> "gate", verb |-> verb, record |-> r, base |-> baseline, gate |-> Missing]
  <2>1. d \in Middle /\ HasRead(d) /\ Become(p, d)
    BY <1>3, <1>5 DEF Read, Middle, HasRead
  <2> QED BY <2>1, CommandIs
<1>6. CASE View(p)
  BY <1>3, <1>5, <1>6 DEF View
<1>7. CASE ReadGate(p)
  <2> DEFINE d == [c EXCEPT !.at = "previous", !.gate = GateNow]
  <2>1. c \in Middle /\ GateNow \in Gate /\ Become(p, d)
    BY <1>2, <1>7, CommandAt, GateNowType DEF ReadGate
  <2>2. d \in Middle /\ d.gate = GateNow
    BY <2>1 DEF Middle
  <2> QED BY <1>2, <2>1, <2>2, CommandIs, MissingIsNoRecord DEF HasRead, Middle
<1>8. CASE ReadPrevious(p)
  <2> DEFINE d == [at |-> "number", verb |-> c.verb, record |-> c.record, looking |-> TRUE,
                   previous |-> Current, item |-> Rebuild(Current, c.base, c.gate)]
  <2>1. c \in Middle /\ c.gate # Missing /\ Become(p, d)
    BY <1>2, <1>8, CommandAt DEF ReadPrevious, TInv, InputsAreRead, HasRead
  <2>2. c.base \in [report : Reports, moved : 0..circumstance.moves] /\ c.gate \in Gate
        /\ c.verb \in Verb /\ c.record \in Record
    BY <2>1 DEF Middle
  <2>3. Rebuild(Current, c.base, c.gate) \in Case
    BY <1>2, <1>3, <2>2, RebuildType
  <2>4. d \in Late /\ HasRead(d)
    BY <1>3, <2>2, <2>3 DEF Late, HasRead
  <2> QED BY <2>1, <2>4, CommandIs
<1>9. CASE Number(p)
  <2> DEFINE raw == cases[IF c.previous = Missing THEN c.item.report ELSE c.previous.report]
             d == [c EXCEPT !.at = "case", !.item.revision = Revision(c.previous, raw, c.item)]
  <2>1. c \in Late /\ Become(p, d)
    BY <1>2, <1>9, CommandAt DEF Number
  <2>2. Revision(c.previous, raw, c.item) \in Nat
    <3>1. c.previous = Missing \/ c.previous.revision \in Nat
      BY <2>1 DEF Late, Case
    <3> HIDE DEF c, raw
    <3> QED BY <3>1 DEF Revision
  <2>3. d \in Late /\ HasRead(d)
    BY <2>1, <2>2 DEF Late, Case, HasRead
  <2> QED BY <2>1, <2>3, CommandIs
<1>10. CASE Collaborate(p)
  <2>1. ASSUME NEW verb \in Verb, verb.what # "view", Ask(p, verb)
        PROVE  \E d \in Command : Become(p, d) /\ HasRead(d)
    <3> DEFINE d == [at |-> "record", verb |-> verb, record |-> Revised(record, verb)]
    <3>1. Revised(record, verb) \in Record
      BY <1>2, <1>3, <2>1, RevisedType DEF TypeOK
    <3>2. d \in Early /\ HasRead(d) /\ Become(p, d)
      BY <2>1, <3>1 DEF Ask, Early, HasRead
    <3> QED BY <3>2, CommandIs
  <2>2. PICK verb \in Verb : verb.what # "view" /\ Ask(p, verb)
    BY <1>2, <1>10, AskedFor
  <2> QED BY <2>1, <2>2
<1>11. CASE LoadCase(p)
  <2>1. c \in Early
    BY <1>2, <1>11, CommandAt DEF LoadCase
  <2>2. c.verb \in Verb /\ c.record \in Record
    BY <2>1 DEF Early
  <2>3. CASE Current = Missing
    BY <1>5, <1>11, <2>2, <2>3 DEF LoadCase
  <2>4. CASE Current # Missing
    <3> DEFINE loaded == [Current EXCEPT !.shown = FALSE]
               d == [at |-> "apply", verb |-> c.verb, record |-> c.record, looking |-> FALSE,
                     previous |-> loaded, item |-> loaded]
    <3>1. loaded \in Case /\ loaded # Missing
      <4>1. loaded \in Case
        BY <1>3, <2>4 DEF Case
      <4> QED BY <1>2, <4>1, MissingIsNoRecord
    <3>2. d \in Late /\ HasRead(d)
      BY <2>2, <3>1 DEF Late, HasRead
    <3>3. Become(p, d)
      BY <1>11, <2>4 DEF LoadCase
    <3> QED BY <3>2, <3>3, CommandIs
  <2> QED BY <2>3, <2>4
<1>12. CASE Apply(p)
  <2> DEFINE d == [c EXCEPT !.at = "number", !.item = Updated(c.previous, c.record, c.verb.by)]
  <2>1. c \in Late /\ Become(p, d)
    BY <1>2, <1>12, CommandAt DEF Apply
  <2>2. c.previous \in Case /\ c.record \in Record /\ c.verb.by \in People
    BY <1>12, <2>1 DEF Apply, Late, Verb, People, TInv, InputsAreRead, HasRead
  <2>3. Updated(c.previous, c.record, c.verb.by) \in Case
    BY <1>2, <2>2, UpdatedType
  <2>4. d \in Late /\ HasRead(d)
    BY <2>1, <2>3 DEF Late, HasRead
  <2> QED BY <2>1, <2>4, CommandIs
<1>13. CASE Refuse(p)
  BY <1>4, <1>13 DEF Refuse, Idle, HasRead
<1> QED BY <1>6, <1>7, <1>8, <1>9, <1>10, <1>11, <1>12, <1>13

\* Commands that write a file, or die in it.
LEMMA WriteType ==
  ASSUME TInv, NEW p \in Processes,
         WriteCase(p) \/ WriteIndex(p) \/ Publish(p) \/ SaveRecord(p) \/ Crash(p)
  PROVE  TInv'
<1> DEFINE c == command[p]
<1>1. TypeOK
  BY DEF TInv
<1>2. Idle \in Command /\ HasRead(Idle)
  BY CommandIs DEF Idle, HasRead
<1>3. SUFFICES /\ \E d \in Command : Become(p, d) /\ HasRead(d)
               /\ record' \in Record /\ cases' \in [Reports -> {Missing} \cup Case]
               /\ index' \in Reports \cup {0} /\ announced' \in Seq(Contracts)
  <2>1. UNCHANGED <<circumstance, baseline, override, accepted>>
    BY DEF WriteCase, WriteIndex, Publish, SaveRecord, Crash
  <2>2. Case' = Case
    BY <2>1 DEF Case
  <2>3. (command \in [Processes -> Command])' /\ InputsAreRead'
    BY <1>3, <2>1, BecomeType
  <2> QED BY <1>1, <1>3, <2>1, <2>2, <2>3 DEF TInv, TypeOK
<1>4. CASE WriteCase(p)
  <2> DEFINE d == [c EXCEPT !.at = "index"]
  <2>1. c \in Late
    BY <1>1, <1>4, CommandAt DEF WriteCase
  <2>2. d \in Late /\ HasRead(d) /\ c.item \in Case
    BY <2>1 DEF Late, HasRead
  <2> QED BY <1>1, <1>4, <2>2, CommandIs DEF WriteCase, TypeOK
<1>5. CASE WriteIndex(p)
  <2> DEFINE d == [c EXCEPT !.at = "publish"]
  <2>1. c \in Late
    BY <1>1, <1>5, CommandAt DEF WriteIndex
  <2>2. d \in Late /\ HasRead(d) /\ c.item.report \in Reports
    BY <2>1 DEF Late, HasRead, Case
  <2> QED BY <1>1, <1>5, <2>2, CommandIs DEF WriteIndex, TypeOK
<1>6. CASE Publish(p)
  <2> DEFINE d == [c EXCEPT !.at = "apply", !.looking = FALSE, !.previous = c.item]
  <2>1. c \in Late
    BY <1>1, <1>6, CommandAt DEF Publish
  <2>2. c.item \in Case /\ c.item # Missing
    BY <1>1, <2>1, MissingIsNoRecord DEF Late
  <2>3. d \in Late /\ HasRead(d)
    BY <2>1, <2>2 DEF Late, HasRead
  <2>4. Contract(c.item) \in Contracts
    BY <2>2 DEF Contract, Contracts, Case
  <2>5. Append(announced, Contract(c.item)) \in Seq(Contracts)
    BY <1>1, <2>4 DEF TypeOK
  <2>6. \E e \in Command : Become(p, e) /\ HasRead(e)
    BY <1>2, <1>6, <2>3, CommandIs DEF Publish
  <2>7. announced' \in Seq(Contracts)
    BY <1>1, <1>6, <2>5 DEF Publish, TypeOK
  <2> QED BY <1>1, <1>6, <2>6, <2>7 DEF Publish, TypeOK
<1>7. CASE SaveRecord(p)
  <2> DEFINE d == [c EXCEPT !.at = "load"]
  <2>1. c \in Early
    BY <1>1, <1>7, CommandAt DEF SaveRecord
  <2>2. d \in Early /\ HasRead(d) /\ c.record \in Record
    BY <2>1 DEF Early, HasRead
  <2>3. \E e \in Command : Become(p, e) /\ HasRead(e)
    BY <1>2, <1>7, <2>2, CommandIs DEF SaveRecord
  <2> QED BY <1>1, <1>7, <2>2, <2>3 DEF SaveRecord, TypeOK
<1>8. CASE Crash(p)
  <2>1. NewRecord \in Record
    BY DEF NewRecord, Record, Asked, People
  <2>2. cases' \in [Reports -> {Missing} \cup Case]
    BY <1>1, <1>8 DEF Crash, TypeOK
  <2> QED BY <1>1, <1>2, <1>8, <2>1, <2>2 DEF Crash, TypeOK
<1> QED BY <1>4, <1>5, <1>6, <1>7, <1>8

LEMMA InputsType ==
  ASSUME TInv, MoveBaseline \/ RecordOverride
  PROVE  TInv'
<1>1. Command' = Command /\ Case' = Case /\ InputsAreRead'
  BY DEF MoveBaseline, RecordOverride, Command, Case, TInv, InputsAreRead
<1>2. \A c \in Circumstances : {c.moves, c.overrides, c.room} \subseteq Nat
  BY DEF TInv, TypeOK, ConstantsOK
<1>3. circumstance \in Circumstances
  BY DEF TInv, TypeOK
<1>4. circumstance.moves \in Nat /\ circumstance.overrides \in Nat
  BY <1>2, <1>3
<1>5. CASE MoveBaseline
  <2>1. baseline' \in [report : Reports, moved : 0..circumstance.moves]
    BY <1>4, <1>5 DEF MoveBaseline, TInv, TypeOK
  <2> QED BY <1>1, <1>5, <2>1 DEF MoveBaseline, TInv, TypeOK
<1>6. CASE RecordOverride
  <2>1. override' \in [decision : SUBSET Decisions, count : 0..circumstance.overrides]
    BY <1>4, <1>6 DEF RecordOverride, TInv, TypeOK
  <2> QED BY <1>1, <1>6, <2>1 DEF RecordOverride, TInv, TypeOK
<1> QED BY <1>5, <1>6

LEMMA InitType ==
  ASSUME ConstantsOK, Init
  PROVE  TInv
<1>1. circumstance.moves \in Nat /\ circumstance.overrides \in Nat
  BY DEF Init, ConstantsOK
<1>2. 1 \in Reports
  BY DEF ConstantsOK, Reports
<1>3. baseline \in [report : Reports, moved : 0..circumstance.moves]
  BY <1>1, <1>2 DEF Init
<1>4. override \in [decision : SUBSET Decisions, count : 0..circumstance.overrides]
  BY <1>1 DEF Init
<1>5. record \in Record
  BY DEF Init, NewRecord, Record, Asked, People
<1>6. command \in [Processes -> Command] /\ InputsAreRead
  <2>1. Idle \in Command /\ HasRead(Idle)
    BY CommandIs DEF Idle, HasRead
  <2> QED BY <2>1 DEF Init, InputsAreRead
<1>7. announced \in Seq(Contracts) /\ accepted \in BOOLEAN /\ index \in Reports \cup {0}
      /\ cases \in [Reports -> {Missing} \cup Case] /\ circumstance \in Circumstances
  BY DEF Init
<1> QED BY <1>3, <1>4, <1>5, <1>6, <1>7 DEF TInv, TypeOK

LEMMA TypeStep == TInv /\ [Next]_vars => TInv'
<1> SUFFICES ASSUME TInv, [Next]_vars PROVE TInv'
  OBVIOUS
<1>1. CASE UNCHANGED vars
  BY <1>1 DEF vars, TInv, TypeOK, InputsAreRead, Command, Case
<1>2. CASE Next
  BY <1>2, ReadType, WriteType, InputsType DEF Next
<1> QED BY <1>1, <1>2

\* The baseline, the gate's override, the records of collaboration, cases and contracts and
\* what commands carry between their steps are of their types (AdmissionCaseService,
\* AdmissionWorkflowMixin).
THEOREM TypeCorrect ==
  ASSUME ConstantsOK
  PROVE  Spec => []TypeOK
<1>1. Init => TInv
  BY InitType
<1>2. TInv => TypeOK
  BY DEF TInv
<1> QED BY <1>1, <1>2, TypeStep, PTL DEF Spec

-----------------------------------------------------------------------------
(* The history of a case.                                                  *)

Explained(c) == EventsExplain(c) /\ RolesExplain(c)

\* Every case there is: in a file, or in a command that is to write it.
HistoryInv ==
  /\ \A r \in Reports : cases[r] # Missing => Explained(cases[r])
  /\ \A p \in Processes : command[p] \in Late =>
       /\ Explained(command[p].item)
       /\ command[p].previous # Missing => Explained(command[p].previous)

\* What is said of the first events, and of the first changes, is not about later ones.
LEMMA OneMore ==
  ASSUME NEW S, NEW list \in Seq(S), NEW x \in S
  PROVE  /\ list \o <<x>> \in Seq(S) /\ Len(list \o <<x>>) = Len(list) + 1
         /\ \A i \in 1..Len(list) : (list \o <<x>>)[i] = list[i]
         /\ (list \o <<x>>)[Len(list) + 1] = x
<1>1. <<x>> \in Seq(S) /\ Len(<<x>>) = 1 /\ <<x>>[1] = x
  OBVIOUS
<1> QED BY <1>1, ConcatProperties

LEMMA NoMore ==
  ASSUME NEW S, NEW list \in Seq(S)
  PROVE  list \o <<>> = list /\ Len(list) \in Nat
BY ConcatEmptySeq

\* The events lead to the status.
EventsTell(events, status) ==
  /\ \A i \in DOMAIN events :
       /\ events[i].from = Told(events, i - 1)
       /\ i > 1 => events[i].to \in Moves[events[i].from]
  /\ status = IF events = <<>> THEN "open" ELSE Told(events, Len(events))

LEMMA EventsGrow ==
  ASSUME NEW events \in Seq(Event), NEW e \in Event, NEW status,
         EventsTell(events, status),
         e.from = Told(events, Len(events)), events # <<>> => e.to \in Moves[e.from]
  PROVE  EventsTell(events \o <<e>>, e.to)
<1> DEFINE more == events \o <<e>>
           n == Len(events)
<1>1. /\ n \in Nat /\ Len(more) = n + 1 /\ more \in Seq(Event)
      /\ \A i \in 1..n : more[i] = events[i]
      /\ more[n + 1] = e
  BY OneMore
<1> HIDE DEF more, n
<1>2. DOMAIN events = 1..n /\ DOMAIN more = 1..(n + 1)
  BY <1>1 DEF n
<1>3. ASSUME NEW i \in 0..n PROVE Told(more, i) = Told(events, i)
  <2>1. i = 0 \/ i \in 1..n
    BY <1>1
  <2>2. i = 0 \/ more[i] = events[i]
    BY <1>1, <2>1
  <2> QED BY <2>2 DEF Told
<1>4. ASSUME NEW i \in DOMAIN more
      PROVE  /\ more[i].from = Told(more, i - 1)
             /\ i > 1 => more[i].to \in Moves[more[i].from]
  <2>1. CASE i \in 1..n
    <3>1. i - 1 \in 0..n
      BY <1>1, <2>1
    <3> QED BY <1>1, <1>2, <1>3, <2>1, <3>1 DEF EventsTell
  <2>2. CASE i = n + 1
    <3>1. i > 1 => events # <<>>
      BY <1>1, <2>2 DEF n
    <3>2. i - 1 = n /\ n \in 0..n
      BY <1>1, <2>2
    <3>3. e.from = Told(events, n)
      BY DEF n
    <3> QED BY <1>1, <1>3, <2>2, <3>1, <3>2, <3>3
  <2> QED BY <1>1, <1>2, <2>1, <2>2
<1>5. more # <<>> /\ Told(more, Len(more)) = e.to
  <2>1. n + 1 # 0 /\ Len(<<>>) = 0
    BY <1>1
  <2> QED BY <1>1, <2>1 DEF Told
<1> QED BY <1>4, <1>5 DEF EventsTell, more

\* The changes tell who has the roles.
RolesTell(roles, assignee, reviewer) ==
  /\ \A i \in DOMAIN roles : Has(roles[i].from, roles[i].role, roles, i - 1)
  /\ Has(assignee, "assignee", roles, Len(roles))
  /\ Has(reviewer, "reviewer", roles, Len(roles))

LEMMA RolesGrow ==
  ASSUME NEW roles \in Seq(RoleChange), NEW e \in RoleChange, NEW assignee, NEW reviewer,
         RolesTell(roles, assignee, reviewer),
         e.from = IF e.role = "assignee" THEN assignee ELSE reviewer
  PROVE  RolesTell(roles \o <<e>>, IF e.role = "assignee" THEN e.to ELSE assignee,
                                   IF e.role = "reviewer" THEN e.to ELSE reviewer)
<1> DEFINE more == roles \o <<e>>
           n == Len(roles)
<1>1. /\ n \in Nat /\ Len(more) = n + 1 /\ more \in Seq(RoleChange)
      /\ \A i \in 1..n : more[i] = roles[i]
      /\ more[n + 1] = e
  BY OneMore
<1>2. e.role \in {"assignee", "reviewer"}
  BY DEF RoleChange
<1> HIDE DEF more, n
<1>3. DOMAIN roles = 1..n /\ DOMAIN more = 1..(n + 1)
  BY <1>1 DEF n
<1>4. ASSUME NEW k \in 0..n, NEW role, NEW person, Has(person, role, roles, k)
      PROVE  Has(person, role, more, k)
  <2>1. \A i \in 1..k : i \in 1..n /\ more[i] = roles[i]
    BY <1>1
  <2> QED BY <1>4, <2>1 DEF Has
<1>5. Has(e.to, e.role, more, n + 1)
  <2>1. n + 1 \in 1..(n + 1) /\ \A j \in 1..(n + 1) : j <= n + 1
    BY <1>1
  <2> QED BY <1>1, <2>1 DEF Has
<1>6. ASSUME NEW role, role # e.role, NEW person, Has(person, role, roles, n)
      PROVE  Has(person, role, more, n + 1)
  <2>1. Has(person, role, more, n)
    BY <1>1, <1>4, <1>6
  <2>2. \A i \in 1..(n + 1) : i \in 1..n \/ (i = n + 1 /\ more[i].role # role)
    BY <1>1, <1>6
  <2>3. 1..n \subseteq 1..(n + 1)
    BY <1>1
  <2>4. CASE \A i \in 1..n : more[i].role # role
    BY <2>1, <2>2, <2>4 DEF Has
  <2>5. CASE \E i \in 1..n : more[i].role = role
    <3>1. PICK i \in 1..n : /\ more[i].role = role /\ more[i].to = person
                            /\ \A j \in 1..n : more[j].role = role => j <= i
      BY <2>1, <2>5 DEF Has
    <3>2. \A j \in 1..(n + 1) : more[j].role = role => j <= i
      BY <2>2, <3>1
    <3> QED BY <2>3, <3>1, <3>2 DEF Has
  <2> QED BY <2>4, <2>5
<1>7. ASSUME NEW i \in DOMAIN more
      PROVE  Has(more[i].from, more[i].role, more, i - 1)
  <2>1. CASE i \in 1..n
    <3>1. i - 1 \in 0..n /\ Has(roles[i].from, roles[i].role, roles, i - 1)
      BY <1>1, <1>3, <2>1 DEF RolesTell
    <3> QED BY <1>1, <1>4, <2>1, <3>1
  <2>2. CASE i = n + 1
    <3>1. i - 1 = n /\ n \in 0..n
      BY <1>1, <2>2
    <3>2. Has(e.from, e.role, roles, n)
      BY <1>2 DEF RolesTell, n
    <3> QED BY <1>1, <1>4, <2>2, <3>1, <3>2
  <2> QED BY <1>1, <1>3, <2>1, <2>2
<1>8. Has(assignee, "assignee", roles, n) /\ Has(reviewer, "reviewer", roles, n)
  BY DEF RolesTell, n
<1>9. CASE e.role = "assignee"
  <2>1. Has(e.to, "assignee", more, n + 1) /\ Has(reviewer, "reviewer", more, n + 1)
    BY <1>5, <1>6, <1>8, <1>9
  <2> QED BY <1>1, <1>7, <1>9, <2>1 DEF RolesTell, more
<1>10. CASE e.role = "reviewer"
  <2>1. Has(e.to, "reviewer", more, n + 1) /\ Has(assignee, "assignee", more, n + 1)
    BY <1>5, <1>6, <1>8, <1>10
  <2> QED BY <1>1, <1>7, <1>10, <2>1 DEF RolesTell, more
<1> QED BY <1>2, <1>9, <1>10

\* An update keeps the history explained: update_case_collaboration.
LEMMA UpdatedExplained ==
  ASSUME TypeOK, NEW c \in Case, NEW r \in Record, NEW by \in People,
         Explained(c), Permitted(c.status, Normal(r.state))
  PROVE  Explained(Updated(c, r, by))
<1> DEFINE to == Normal(r.state)
           first == IF c.events = <<>> THEN <<[from |-> "", to |-> c.status]>> ELSE <<>>
           move == IF c.status = to THEN <<>> ELSE <<[from |-> c.status, to |-> to]>>
           events == c.events \o first \o move
           assigned == c.roles \o RoleChanges("assignee", c.assignee, r.assignee)
           roles == assigned \o RoleChanges("reviewer", c.reviewer, r.reviewer)
           u == Updated(c, r, by)
<1>1. /\ u.events = events /\ u.roles = roles
      /\ u.status = to /\ u.assignee = r.assignee /\ u.reviewer = r.reviewer
  BY DEF Updated, Case
<1>2. /\ to \in States /\ c.status \in States
      /\ c.events \in Seq(Event) /\ c.roles \in Seq(RoleChange)
      /\ {c.assignee, c.reviewer, r.assignee, r.reviewer} \subseteq People
  BY DEF Normal, Record, Asked, States, Case
<1>3. EventsTell(c.events, c.status) /\ RolesTell(c.roles, c.assignee, c.reviewer)
  BY DEF Explained, EventsExplain, RolesExplain, EventsTell, RolesTell
<1>4. to = c.status \/ to \in Moves[c.status]
  BY DEF Permitted
<1> HIDE DEF to
<1>5. /\ c.events \o first \in Seq(Event) /\ c.events \o first # <<>>
      /\ EventsTell(c.events \o first, c.status)
  <2>1. CASE c.events = <<>>
    <3> DEFINE e == [from |-> "", to |-> c.status]
    <3>1. e \in Event /\ e.from = "" /\ e.to = c.status
      BY <1>2 DEF Event
    <3>2. e.from = Told(c.events, Len(c.events))
      BY <2>1, <3>1 DEF Told
    <3> HIDE DEF e
    <3>3. EventsTell(c.events \o <<e>>, e.to)
      BY <1>2, <1>3, <2>1, <3>1, <3>2, EventsGrow
    <3>4. c.events \o <<e>> \in Seq(Event) /\ Len(c.events \o <<e>>) = Len(c.events) + 1
      <4>1. c.events \in Seq(Event) /\ e \in Event
        BY <1>2, <3>1
      <4> HIDE DEF first, move, events
      <4> QED BY ONLY <4>1, OneMore
    <3>5. Len(<<>>) = 0 /\ Len(c.events \o <<e>>) = 1 /\ c.events \o <<e>> # <<>>
      <4>1. Len(<<>>) = 0
        OBVIOUS
      <4> QED BY <2>1, <3>4, <4>1
    <3> QED BY <2>1, <3>1, <3>3, <3>4, <3>5 DEF e
  <2>2. CASE c.events # <<>>
    BY <1>2, <1>3, <2>2, NoMore
  <2> QED BY <2>1, <2>2
<1>6. EventsTell(events, to)
  <2> DEFINE before == c.events \o first
             e == [from |-> c.status, to |-> to]
  <2> HIDE DEF first
  <2>1. CASE c.status = to
    BY <1>5, <2>1, NoMore
  <2>2. CASE c.status # to
    <3>1. e \in Event /\ e.from = c.status /\ e.to = to
      BY <1>2 DEF Event
    <3>2. e.from = Told(before, Len(before))
      BY <1>5, <3>1 DEF EventsTell
    <3> HIDE DEF e, before
    <3>3. EventsTell(before \o <<e>>, e.to)
      BY <1>4, <1>5, <2>2, <3>1, <3>2, EventsGrow DEF before
    <3> QED BY <2>2, <3>1, <3>3 DEF e, before
  <2> QED BY <2>1, <2>2
<1>7. assigned \in Seq(RoleChange) /\ RolesTell(assigned, r.assignee, c.reviewer)
  <2>1. CASE c.assignee = r.assignee
    BY <1>2, <1>3, <2>1, NoMore DEF RoleChanges
  <2>2. CASE c.assignee # r.assignee
    <3> DEFINE e == [role |-> "assignee", from |-> c.assignee, to |-> r.assignee]
    <3>1. /\ e \in RoleChange /\ e.role = "assignee" /\ e.role # "reviewer"
          /\ e.from = c.assignee /\ e.to = r.assignee
      BY <1>2 DEF RoleChange
    <3>2. assigned = c.roles \o <<e>>
      BY <2>2 DEF RoleChanges
    <3> HIDE DEF e, assigned
    <3>3. RolesTell(c.roles \o <<e>>, IF e.role = "assignee" THEN e.to ELSE c.assignee,
                    IF e.role = "reviewer" THEN e.to ELSE c.reviewer)
      BY <1>2, <1>3, <3>1, RolesGrow
    <3>4. c.roles \o <<e>> \in Seq(RoleChange)
      BY <1>2, <3>1, OneMore
    <3> QED BY <3>1, <3>2, <3>3, <3>4
  <2> QED BY <2>1, <2>2
<1>8. RolesTell(roles, r.assignee, r.reviewer)
  <2> HIDE DEF assigned
  <2>1. CASE c.reviewer = r.reviewer
    BY <1>7, <2>1, NoMore DEF RoleChanges
  <2>2. CASE c.reviewer # r.reviewer
    <3> DEFINE e == [role |-> "reviewer", from |-> c.reviewer, to |-> r.reviewer]
    <3>1. /\ e \in RoleChange /\ e.role = "reviewer" /\ e.role # "assignee"
          /\ e.from = c.reviewer /\ e.to = r.reviewer
      BY <1>2 DEF RoleChange
    <3>2. roles = assigned \o <<e>>
      BY <2>2 DEF RoleChanges
    <3> HIDE DEF e, roles
    <3>3. RolesTell(assigned \o <<e>>, IF e.role = "assignee" THEN e.to ELSE r.assignee,
                    IF e.role = "reviewer" THEN e.to ELSE c.reviewer)
      BY <1>7, <3>1, RolesGrow
    <3> QED BY <3>1, <3>2, <3>3
  <2> QED BY <2>1, <2>2
<1> HIDE DEF events, roles, u
<1>9. Explained(u)
  BY <1>1, <1>6, <1>8 DEF Explained, EventsExplain, RolesExplain, EventsTell, RolesTell
<1> QED BY <1>9 DEF u

\* What is built of a case has its history, and a new case starts open.
LEMMA RebuildExplained ==
  ASSUME TypeOK, NEW previous \in {Missing} \cup Case, NEW base, NEW gate,
         previous # Missing => Explained(previous)
  PROVE  Explained(Rebuild(previous, base, gate))
<1>1. CASE previous = Missing
  <2> DEFINE c == Rebuild(previous, base, gate)
  <2>1. /\ c.status = "open" /\ c.assignee = Nobody /\ c.reviewer = Nobody
        /\ c.events = <<>> /\ c.roles = <<>>
    BY <1>1 DEF Rebuild
  <2>2. Len(<<>>) = 0 /\ DOMAIN <<>> = {} /\ 1..0 = {}
    OBVIOUS
  <2> HIDE DEF c
  <2>3. Explained(c)
    BY <2>1, <2>2 DEF Explained, EventsExplain, RolesExplain, Has
  <2> QED BY <2>3 DEF c
<1>2. CASE previous # Missing
  <2> DEFINE c == Rebuild(previous, base, gate)
  <2>1. /\ c.status = previous.status /\ c.assignee = previous.assignee
        /\ c.reviewer = previous.reviewer
        /\ c.events = previous.events /\ c.roles = previous.roles
    BY <1>2 DEF Rebuild
  <2> HIDE DEF c
  <2>2. Explained(c)
    BY <1>2, <2>1 DEF Explained, EventsExplain, RolesExplain
  <2> QED BY <2>2 DEF c
<1> QED BY <1>1, <1>2

\* What is explained in the files and in what a step makes of its command stays so.
LEMMA HistoryKept ==
  ASSUME TInv, HistoryInv, TInv', circumstance' = circumstance,
         NEW p \in Processes, NEW d \in Command, Become(p, d),
         d \in Late => /\ Explained(d.item)
                       /\ d.previous # Missing => Explained(d.previous),
         \A r \in Reports : cases'[r] # Missing => Explained(cases'[r])
  PROVE  HistoryInv'
<1>1. Late' = Late
  BY DEF Late, Case
<1>2. \A q \in Processes : command'[q] = IF q = p THEN d ELSE command[q]
  BY DEF Become, TInv, TypeOK
<1>3. ASSUME NEW q \in Processes, command'[q] \in Late
      PROVE  /\ Explained(command'[q].item)
             /\ command'[q].previous # Missing => Explained(command'[q].previous)
  BY <1>2, <1>3 DEF HistoryInv
<1> QED BY <1>1, <1>3 DEF HistoryInv

LEMMA HistoryStep == TInv /\ HistoryInv /\ [Next]_vars => HistoryInv'
<1> SUFFICES ASSUME TInv, HistoryInv, [Next]_vars PROVE HistoryInv'
  OBVIOUS
<1>1. TypeOK /\ TInv'
  BY TypeStep DEF TInv
<1>2. Current # Missing => Explained(Current)
  BY <1>1 DEF Current, HistoryInv, TypeOK
<1>3. CASE UNCHANGED vars \/ MoveBaseline \/ RecordOverride
  BY <1>3 DEF vars, MoveBaseline, RecordOverride, HistoryInv, Late, Case
<1>4. ASSUME NEW p \in Processes,
             View(p) \/ ReadGate(p) \/ Collaborate(p) \/ SaveRecord(p) \/ Refuse(p)
      PROVE  HistoryInv'
  <2>1. /\ UNCHANGED <<circumstance, cases>>
        /\ \E d : Become(p, d) /\ d.at \in {"idle", "record", "load", "gate", "previous"}
    <3>1. UNCHANGED <<circumstance, cases>>
      BY <1>4 DEF View, ReadGate, Collaborate, SaveRecord, Refuse, Files
    <3>2. CASE ReadGate(p)
      <4>1. command[p] \in Middle
        BY <1>1, <3>2, CommandAt DEF ReadGate
      <4>2. [command[p] EXCEPT !.at = "previous", !.gate = GateNow].at = "previous"
        BY <4>1 DEF Middle
      <4> QED BY <3>1, <3>2, <4>2 DEF ReadGate
    <3>3. CASE SaveRecord(p)
      <4>1. command[p] \in Early
        BY <1>1, <3>3, CommandAt DEF SaveRecord
      <4>2. [command[p] EXCEPT !.at = "load"].at = "load" /\ Idle.at = "idle"
        BY <4>1 DEF Early, Idle
      <4>3. \/ Become(p, Idle)
            \/ Become(p, [command[p] EXCEPT !.at = "load"])
        BY <3>3 DEF SaveRecord
      <4> HIDE DEF Idle
      <4> QED BY <3>1, <4>2, <4>3
    <3>4. CASE View(p)
      BY <3>1, <3>4 DEF View, Read
    <3>5. CASE Collaborate(p)
      <4>1. PICK verb \in Verb : Ask(p, verb)
        BY <1>1, <3>5, AskedFor
      <4> QED BY <3>1, <4>1 DEF Ask
    <3>6. CASE Refuse(p)
      BY <3>1, <3>6 DEF Refuse, Idle
    <3> QED BY <1>4, <3>2, <3>3, <3>4, <3>5, <3>6
  <2>2. PICK d : Become(p, d) /\ d.at \in {"idle", "record", "load", "gate", "previous"}
    BY <2>1
  <2>3. command'[p] = d /\ command'[p] \in Command'
    BY <1>1, <2>2 DEF Become, TInv, TypeOK
  <2>4. d \in Command /\ d \notin Late
    BY <2>1, <2>2, <2>3 DEF Command, Late, Case
  <2> QED BY <1>1, <2>1, <2>2, <2>4, HistoryKept DEF HistoryInv
<1> DEFINE Kept(p, d) ==
             /\ d \in Command /\ Become(p, d) /\ UNCHANGED <<circumstance, cases>>
             /\ d \in Late => /\ Explained(d.item)
                              /\ d.previous # Missing => Explained(d.previous)
<1>5. ASSUME NEW p \in Processes, NEW d, Kept(p, d) PROVE HistoryInv'
  BY <1>1, <1>5, HistoryKept DEF HistoryInv
<1>6. ASSUME NEW p \in Processes, NEW d, Become(p, d), circumstance' = circumstance PROVE d \in Command
  <2>1. command'[p] = d /\ command'[p] \in Command'
    BY <1>1, <1>6 DEF Become, TInv, TypeOK
  <2> QED BY <1>6, <2>1 DEF Command, Case
<1>7. ASSUME NEW p \in Processes, ReadPrevious(p) PROVE HistoryInv'
  <2> DEFINE c == command[p]
             d == [at |-> "number", verb |-> c.verb, record |-> c.record, looking |-> TRUE,
                   previous |-> Current, item |-> Rebuild(Current, c.base, c.gate)]
  <2>1. Become(p, d) /\ UNCHANGED <<circumstance, cases>>
    BY <1>7 DEF ReadPrevious, Files
  <2>2. Explained(Rebuild(Current, c.base, c.gate))
    BY <1>1, <1>2, CurrentType, RebuildExplained
  <2>3. Kept(p, d)
    BY <1>2, <1>6, <2>1, <2>2
  <2> QED BY <1>5, <2>3
<1>8. ASSUME NEW p \in Processes, Number(p) PROVE HistoryInv'
  <2> DEFINE c == command[p]
             raw == cases[IF c.previous = Missing THEN c.item.report ELSE c.previous.report]
             d == [c EXCEPT !.at = "case", !.item.revision = Revision(c.previous, raw, c.item)]
  <2>1. Become(p, d) /\ UNCHANGED <<circumstance, cases>> /\ c \in Late
    BY <1>1, <1>8, CommandAt DEF Number, Files
  <2>2. /\ d.previous = c.previous /\ d.item.status = c.item.status
        /\ d.item.assignee = c.item.assignee /\ d.item.reviewer = c.item.reviewer
        /\ d.item.events = c.item.events /\ d.item.roles = c.item.roles
    BY <2>1 DEF Late, Case
  <2>3. Explained(c.item) /\ (c.previous # Missing => Explained(c.previous))
    BY <2>1 DEF HistoryInv
  <2>4. d \in Command
    BY <1>6, <2>1
  <2> HIDE DEF c, d
  <2>5. Explained(d.item) /\ (d.previous # Missing => Explained(d.previous))
    BY <2>2, <2>3 DEF Explained, EventsExplain, RolesExplain
  <2>6. Kept(p, d)
    BY <2>1, <2>4, <2>5
  <2> QED BY <1>5, <2>6
<1>9. ASSUME NEW p \in Processes, WriteIndex(p) PROVE HistoryInv'
  <2> DEFINE c == command[p]
             d == [c EXCEPT !.at = "publish"]
  <2>1. Become(p, d) /\ UNCHANGED <<circumstance, cases>> /\ c \in Late
    BY <1>1, <1>9, CommandAt DEF WriteIndex
  <2>2. d.previous = c.previous /\ d.item = c.item
    BY <2>1 DEF Late
  <2>3. Kept(p, d)
    BY <1>6, <2>1, <2>2 DEF HistoryInv
  <2> QED BY <1>5, <2>3
<1>10. ASSUME NEW p \in Processes, Publish(p) PROVE HistoryInv'
  <2> DEFINE c == command[p]
             d == [c EXCEPT !.at = "apply", !.looking = FALSE, !.previous = c.item]
  <2>1. (Become(p, d) \/ Become(p, Idle)) /\ UNCHANGED <<circumstance, cases>> /\ c \in Late
    BY <1>1, <1>10, CommandAt DEF Publish
  <2>2. d.previous = c.item /\ d.item = c.item
    BY <2>1 DEF Late
  <2>3. Idle \notin Late
    BY DEF Idle, Late
  <2>4. Kept(p, d) \/ Kept(p, Idle)
    BY <1>6, <2>1, <2>2, <2>3 DEF HistoryInv
  <2> QED BY <1>5, <2>4
<1>11. ASSUME NEW p \in Processes, LoadCase(p) PROVE HistoryInv'
  <2> DEFINE c == command[p]
             loaded == [Current EXCEPT !.shown = FALSE]
             look == [at |-> "gate", verb |-> c.verb, record |-> c.record, base |-> baseline,
                      gate |-> Missing]
             d == [at |-> "apply", verb |-> c.verb, record |-> c.record, looking |-> FALSE,
                   previous |-> loaded, item |-> loaded]
  <2>1. /\ UNCHANGED <<circumstance, cases>>
        /\ Become(p, look) \/ (Current # Missing /\ Become(p, d))
    BY <1>11 DEF LoadCase, Files, Read
  <2>2. look \notin Late
    BY DEF Late
  <2>3. CASE Become(p, look)
    <3>1. Kept(p, look)
      BY <1>6, <2>1, <2>2, <2>3
    <3> QED BY <1>5, <3>1
  <2>4. CASE Current # Missing /\ Become(p, d)
    <3>1. Current \in Case
      BY <1>1, <2>4, CurrentType
    <3>2. /\ loaded.status = Current.status /\ loaded.assignee = Current.assignee
          /\ loaded.reviewer = Current.reviewer
          /\ loaded.events = Current.events /\ loaded.roles = Current.roles
      BY <3>1 DEF Case
    <3>3. d.item = loaded /\ d.previous = loaded
      OBVIOUS
    <3>4. d \in Command
      BY <1>6, <2>1, <2>4
    <3> HIDE DEF loaded, d
    <3>5. Explained(loaded)
      BY <1>2, <2>4, <3>2 DEF Explained, EventsExplain, RolesExplain
    <3>6. Kept(p, d)
      BY <2>1, <2>4, <3>3, <3>4, <3>5
    <3> QED BY <1>5, <3>6
  <2> QED BY <2>1, <2>3, <2>4
<1>12. ASSUME NEW p \in Processes, Apply(p) PROVE HistoryInv'
  <2> DEFINE c == command[p]
             u == Updated(c.previous, c.record, c.verb.by)
             d == [c EXCEPT !.at = "number", !.item = u]
  <2>1. Become(p, d) /\ UNCHANGED <<circumstance, cases>> /\ c \in Late
    BY <1>1, <1>12, CommandAt DEF Apply
  <2>2. c.previous \in Case /\ c.previous # Missing /\ c.record \in Record /\ c.verb.by \in People
    BY <1>12, <2>1 DEF Apply, Late, Verb, People, TInv, InputsAreRead, HasRead
  <2>3. Explained(c.previous) /\ Permitted(c.previous.status, Normal(c.record.state))
    BY <1>12, <2>1, <2>2 DEF Apply, HistoryInv
  <2>4. Explained(u)
    BY <1>1, <2>2, <2>3, UpdatedExplained
  <2>5. d.previous = c.previous /\ d.item = u
    BY <2>1 DEF Late
  <2>6. d \in Command
    BY <1>6, <2>1
  <2> HIDE DEF d, u
  <2>7. Kept(p, d)
    BY <2>1, <2>3, <2>4, <2>5, <2>6
  <2> QED BY <1>5, <2>7
<1>13. ASSUME NEW p \in Processes, WriteCase(p) PROVE HistoryInv'
  <2> DEFINE c == command[p]
             d == [c EXCEPT !.at = "index"]
  <2>1. Become(p, d) /\ circumstance' = circumstance /\ c \in Late
        /\ cases' = [cases EXCEPT ![c.item.report] = c.item]
    BY <1>1, <1>13, CommandAt DEF WriteCase
  <2>2. d.previous = c.previous /\ d.item = c.item
    BY <2>1 DEF Late
  <2>3. Explained(c.item) /\ (c.previous # Missing => Explained(c.previous))
    BY <2>1 DEF HistoryInv
  <2>4. \A r \in Reports : cases'[r] \in {cases[r], c.item}
    BY <1>1, <2>1 DEF TypeOK
  <2>5. \A r \in Reports : cases'[r] # Missing => Explained(cases'[r])
    BY <2>3, <2>4 DEF HistoryInv
  <2> QED BY <1>1, <1>6, <2>1, <2>2, <2>3, <2>5, HistoryKept
<1>14. ASSUME NEW p \in Processes, Crash(p) PROVE HistoryInv'
  <2>1. Become(p, Idle) /\ circumstance' = circumstance
    BY <1>14 DEF Crash
  <2>2. \A r \in Reports : cases'[r] \in {cases[r], Missing}
    BY <1>1, <1>14 DEF Crash, TypeOK
  <2>3. \A r \in Reports : cases'[r] # Missing => Explained(cases'[r])
    BY <2>2 DEF HistoryInv
  <2>4. Idle \in Command /\ Idle \notin Late
    BY DEF Idle, Late, Command
  <2> QED BY <1>1, <2>1, <2>3, <2>4, HistoryKept
<1> QED BY <1>3, <1>4, <1>7, <1>8, <1>9, <1>10, <1>11, <1>12, <1>13, <1>14 DEF Next

\* However many commands overlap, wherever one dies, and whichever report the baseline is
\* moved to: every case in a file has a history that leads to it by allowed transitions and
\* role changes (AdmissionCaseService.get_case, update_case_collaboration).
THEOREM HistoryKeptWhole ==
  ASSUME ConstantsOK
  PROVE  Spec => []HistoryExplainsCase
<1>1. Init => TInv /\ HistoryInv
  <2>1. Idle \notin Late
    BY DEF Idle, Late
  <2> QED BY <2>1, InitType DEF Init, HistoryInv
<1>2. HistoryInv => HistoryExplainsCase
  BY DEF HistoryInv, HistoryExplainsCase, Explained
<1> QED BY <1>1, <1>2, TypeStep, HistoryStep, PTL DEF Spec

-----------------------------------------------------------------------------
(* One command at a time, of which none dies: record, case and contracts.  *)

\* Only commands that may run do, and the file of a report has a case of that report.
BelongInv ==
  /\ \A p \in Processes : command[p] # Idle => p \in circumstance.processes
  /\ \A r \in Reports : cases[r] # Missing => cases[r].report = r

LEMMA BelongStep == TInv /\ BelongInv /\ [Next]_vars => BelongInv'
<1> SUFFICES ASSUME TInv, BelongInv, [Next]_vars PROVE BelongInv'
  OBVIOUS
<1>0. TypeOK
  BY DEF TInv
<1>1. CASE UNCHANGED vars \/ MoveBaseline \/ RecordOverride
  BY <1>1 DEF vars, MoveBaseline, RecordOverride, BelongInv
<1>2. ASSUME NEW p \in Processes, NEW d, Become(p, d), circumstance' = circumstance,
             p \in circumstance.processes \/ command[p].at # "idle",
             \A r \in Reports : cases'[r] # Missing => cases'[r].report = r
      PROVE  BelongInv'
  <2>1. p \in circumstance.processes
    BY <1>0, <1>2, CommandAt DEF BelongInv
  <2>2. \A q \in Processes : q # p => command'[q] = command[q]
    BY <1>0, <1>2 DEF Become, TypeOK
  <2> QED BY <1>2, <2>1, <2>2 DEF BelongInv
<1>3. ASSUME NEW p \in Processes,
             View(p) \/ ReadGate(p) \/ ReadPrevious(p) \/ Number(p) \/ WriteIndex(p) \/ Publish(p)
             \/ Collaborate(p) \/ SaveRecord(p) \/ LoadCase(p) \/ Apply(p) \/ Refuse(p)
      PROVE  BelongInv'
  <2>1. UNCHANGED <<circumstance, cases>>
    BY <1>3 DEF View, ReadGate, ReadPrevious, Number, WriteIndex, Publish, Collaborate, SaveRecord,
                LoadCase, Apply, Refuse, Files
  <2>2. p \in circumstance.processes \/ command[p].at # "idle"
    BY <1>3 DEF View, ReadGate, ReadPrevious, Number, WriteIndex, Publish, Collaborate, SaveRecord,
                LoadCase, Apply, Refuse, Free
  <2>3. \E d : Become(p, d)
    <3>1. CASE Collaborate(p)
      BY <1>0, <3>1, AskedFor DEF Ask
    <3>2. CASE View(p) \/ LoadCase(p)
      BY <3>2 DEF View, LoadCase, Read
    <3> QED BY <1>3, <3>1, <3>2 DEF ReadGate, ReadPrevious, Number, WriteIndex, Publish, SaveRecord, Apply, Refuse
  <2> QED BY <1>2, <2>1, <2>2, <2>3 DEF BelongInv
<1>4. ASSUME NEW p \in Processes, WriteCase(p) PROVE BelongInv'
  <2> DEFINE c == command[p]
  <2>1. c.item.report \in Reports /\ c.item \in Case /\ c.at # "idle"
    BY <1>0, <1>4, CommandAt DEF WriteCase, Late, Case
  <2>2. cases' = [cases EXCEPT ![c.item.report] = c.item] /\ circumstance' = circumstance
        /\ \E d : Become(p, d)
    BY <1>4 DEF WriteCase
  <2>3. \A r \in Reports : cases'[r] = IF r = c.item.report THEN c.item ELSE cases[r]
    BY <1>0, <2>2 DEF TypeOK
  <2>4. \A r \in Reports : cases'[r] # Missing => cases'[r].report = r
    BY <2>3 DEF BelongInv
  <2> QED BY <1>2, <2>1, <2>2, <2>4
<1>5. ASSUME NEW p \in Processes, Crash(p) PROVE BelongInv'
  <2>1. Become(p, Idle) /\ circumstance' = circumstance /\ command[p].at # "idle"
    BY <1>0, <1>5, CommandAt DEF Crash
  <2>2. \A r \in Reports : cases'[r] \in {cases[r], Missing}
    BY <1>0, <1>5 DEF Crash, TypeOK
  <2>3. \A r \in Reports : cases'[r] # Missing => cases'[r].report = r
    BY <2>2 DEF BelongInv
  <2> QED BY <1>2, <2>1, <2>3
<1> QED BY <1>1, <1>3, <1>4, <1>5 DEF Next

\* Between commands: the record says what the case does, unless it was refused, and there is
\* none before there is a case; the last contract is the case's.
Agrees(c) ==
  c.status = Normal(record.state) /\ c.assignee = record.assignee /\ c.reviewer = record.reviewer
Settled ==
  /\ accepted /\ Current # Missing => Agrees(Current)
  /\ Current = Missing => record = NewRecord
IsLast(c) == announced # <<>> /\ announced[Len(announced)] = Contract(c)
UpToDate ==
  /\ Current = Missing => announced = <<>>
  /\ Current # Missing => IsLast(Current)

\* What a command knows of the record at each of its steps,
KnowsRecord(c) ==
  /\ c.at \in {"idle", "record"} => Settled
  /\ c.at = "record" => c.verb.what # "view" /\ (c.verb.what = "comment" => c.record = record)
  /\ c.at \in {"load", "apply"} => c.verb.what # "view" /\ c.record = record
  /\ c.at \in {"gate", "previous"} =>
       IF c.verb.what = "view" THEN Settled ELSE c.record = record
  /\ c.at \in {"number", "case", "index", "publish"} =>
       IF ~c.looking THEN accepted /\ Agrees(c.item)
       ELSE IF c.verb.what = "view" THEN Settled /\ (accepted => Agrees(c.item))
       ELSE c.record = record
  /\ c.at = "apply" => ~c.looking
\* of what it has written,
KnowsFiles(c) ==
  /\ c.at = "index" => cases[c.item.report] = c.item
  /\ c.at = "publish" => Current = c.item
\* and of the contracts.
KnowsContracts(c) ==
  /\ c.at \in {"idle", "record", "load", "gate", "previous", "apply", "number"} => UpToDate
  /\ c.at \in {"apply", "number"} =>
       IF c.previous = Missing THEN Current = Missing
       ELSE Current # Missing /\ Contract(Current) = Contract(c.previous)
  /\ c.at \in {"case", "index", "publish"} =>
       IF c.previous = Missing THEN announced = <<>>
       ELSE /\ IsLast(c.previous)
            /\ Contract(c.item) = Contract(c.previous) \/ c.item.revision > c.previous.revision
Knows(c) == KnowsRecord(c) /\ KnowsFiles(c) /\ KnowsContracts(c)

AgreeInv ==
  Orderly =>
    /\ \A i, j \in DOMAIN announced : i < j => announced[i].revision < announced[j].revision
    /\ Quiet => Knows(Idle)
    /\ \A p \in Processes : command[p] # Idle => Knows(command[p])

LEMMA AgreeSays == TInv /\ AgreeInv => StoresAgree
<1> SUFFICES ASSUME TInv, AgreeInv PROVE StoresAgree
  OBVIOUS
<1>1. Orderly /\ Quiet => Settled /\ UpToDate
  BY DEF AgreeInv, Knows, KnowsRecord, KnowsContracts, Idle
<1> QED BY <1>1 DEF AgreeInv, StoresAgree, RecordAgreesWithCase, RevisionsAnnouncedOnce, LastContractIsCase,
             Settled, Agrees, UpToDate, IsLast

\* In order, nobody but the command that makes a step is doing anything.
LEMMA Alone ==
  ASSUME TInv, BelongInv, AgreeInv, BelongInv', TInv', Orderly,
         NEW p \in Processes, NEW d, Become(p, d), circumstance' = circumstance,
         command[p].at # "idle" \/ p \in circumstance.processes,
         \A i, j \in DOMAIN announced' : i < j => announced'[i].revision < announced'[j].revision
  PROVE  /\ Knows(command[p])
         /\ command'[p] = d
         /\ Knows(command[p])' => AgreeInv'
<1>1. \A q \in Processes : command'[q] = IF q = p THEN d ELSE command[q]
  BY DEF Become, TInv, TypeOK
<1>2. p \in circumstance.processes
  BY CommandAt DEF BelongInv, TInv
<1>3. \A q \in Processes : q # p => command[q] = Idle
  BY <1>2 DEF BelongInv, Orderly, Serial
<1>4. Knows(command[p])
  BY <1>3 DEF AgreeInv, Quiet
<1>5. ASSUME Knows(command[p])' PROVE AgreeInv'
  <2>1. \A q \in Processes : q # p => command'[q] = Idle
    BY <1>1, <1>3
  <2>2. Idle' = Idle
    BY DEF Idle
  <2>3. Quiet' => Knows(Idle)'
    BY <1>5, <2>2 DEF Quiet, Knows, KnowsRecord, KnowsFiles, KnowsContracts
  <2>4. \A q \in Processes : command'[q] # Idle' => Knows(command[q])'
    BY <1>5, <2>1, <2>2
  <2> QED BY <2>3, <2>4 DEF AgreeInv
<1> QED BY <1>1, <1>4, <1>5

\* A command that only reads knows what it has read.
LEMMA AgreeRead ==
  ASSUME TInv, BelongInv, AgreeInv, TInv', BelongInv', Orderly, NEW p \in Processes,
         View(p) \/ ReadGate(p) \/ ReadPrevious(p) \/ Collaborate(p) \/ LoadCase(p) \/ Refuse(p)
  PROVE  AgreeInv'
<1> DEFINE c == command[p]
<1>0. TypeOK
  BY DEF TInv
<1>1. UNCHANGED <<circumstance, baseline, override, record, cases, index, announced>>
  BY DEF View, ReadGate, ReadPrevious, Collaborate, LoadCase, Refuse, Files
<1>2. c.at # "idle" \/ p \in circumstance.processes
  BY DEF View, ReadGate, ReadPrevious, Collaborate, LoadCase, Refuse, Free
<1>3. \A i, j \in DOMAIN announced' : i < j => announced'[i].revision < announced'[j].revision
  BY <1>1 DEF AgreeInv
<1>4. /\ Current' = Current /\ UpToDate' = UpToDate /\ (accepted' = accepted => Settled' = Settled)
      /\ (accepted' = FALSE /\ (Current = Missing => record = NewRecord) => Settled')
  BY <1>1 DEF Current, UpToDate, IsLast, Contract, Settled, Agrees
<1>5. ASSUME NEW d, Become(p, d)
      PROVE  /\ Knows(c) /\ command'[p] = d
             /\ Knows(command[p])' => AgreeInv'
  BY <1>1, <1>2, <1>3, <1>5, Alone
<1>6. ASSUME NEW verb, NEW r, Read(p, verb, r), UpToDate,
             IF verb.what = "view" THEN Settled' ELSE r = record
      PROVE  AgreeInv'
  <2> DEFINE d == [at |-> "gate", verb |-> verb, record |-> r, base |-> baseline, gate |-> Missing]
  <2>1. Knows(c) /\ command'[p] = d /\ (Knows(command[p])' => AgreeInv')
    BY <1>5, <1>6 DEF Read
  <2>2. Knows(command[p])'
    BY <1>1, <1>4, <1>6, <2>1 DEF Knows, KnowsRecord, KnowsFiles, KnowsContracts
  <2> QED BY <2>1, <2>2
<1>7. CASE View(p)
  <2>1. PICK d : Become(p, d)
    BY <1>7 DEF View, Read
  <2>2. Knows(c) /\ c.at = "idle"
    BY <1>5, <1>7, <2>1 DEF View, Free, Idle
  <2>3. Settled' /\ UpToDate
    BY <1>4, <1>7, <2>2 DEF View, Files, Knows, KnowsRecord, KnowsContracts
  <2> QED BY <1>6, <1>7, <2>3 DEF View, Look
<1>8. CASE ReadGate(p)
  <2> DEFINE d == [c EXCEPT !.at = "previous", !.gate = GateNow]
  <2>1. Knows(c) /\ command'[p] = d /\ (Knows(command[p])' => AgreeInv')
    BY <1>5, <1>8 DEF ReadGate
  <2>2. c \in Middle /\ c.at = "gate" /\ accepted' = accepted
    BY <1>0, <1>8, CommandAt DEF ReadGate, Files
  <2>3. d.at = "previous" /\ d.verb = c.verb /\ d.record = c.record
    BY <2>2 DEF Middle
  <2> HIDE DEF c, d
  <2>4. Knows(command[p])'
    BY <1>1, <1>4, <2>1, <2>2, <2>3 DEF Knows, KnowsRecord, KnowsFiles, KnowsContracts
  <2> QED BY <2>1, <2>4
<1>9. CASE ReadPrevious(p)
  <2> DEFINE item == Rebuild(Current, c.base, c.gate)
             d == [at |-> "number", verb |-> c.verb, record |-> c.record, looking |-> TRUE,
                   previous |-> Current, item |-> item]
  <2>1. Knows(c) /\ command'[p] = d /\ (Knows(command[p])' => AgreeInv')
    BY <1>5, <1>9 DEF ReadPrevious
  <2>2. c \in Middle /\ c.at = "previous" /\ accepted' = accepted
    BY <1>0, <1>9, CommandAt DEF ReadPrevious, Files
  <2>3. ASSUME Settled, accepted PROVE Agrees(item)
    <3>1. CASE Current = Missing
      BY <2>3, <3>1 DEF Settled, Agrees, Rebuild, NewRecord, Normal
    <3>2. CASE Current # Missing
      BY <2>3, <3>2 DEF Settled, Agrees, Rebuild
    <3> QED BY <3>1, <3>2
  <2>4. Agrees(item) => (accepted' => Agrees(d.item))
    OBVIOUS
  <2>5. /\ d.at = "number" /\ d.verb = c.verb /\ d.record = c.record /\ d.looking = TRUE
        /\ d.previous = Current /\ d.item = item
    OBVIOUS
  <2> HIDE DEF c, d, item
  <2>6. Knows(command[p])'
    BY <1>1, <1>4, <2>1, <2>2, <2>3, <2>5 DEF Knows, KnowsRecord, KnowsFiles, KnowsContracts, Agrees
  <2> QED BY <2>1, <2>6
<1>10. CASE Collaborate(p)
  <2>1. PICK verb \in Verb : verb.what # "view" /\ Ask(p, verb)
    BY <1>0, <1>10, AskedFor
  <2> DEFINE d == [at |-> "record", verb |-> verb, record |-> Revised(record, verb)]
  <2>2. Knows(c) /\ command'[p] = d /\ (Knows(command[p])' => AgreeInv')
    BY <1>5, <2>1 DEF Ask
  <2>3. c.at = "idle" /\ accepted' = accepted
    <3>1. Free(p) /\ UNCHANGED Files
      BY <1>10, Zenon DEF Collaborate
    <3> QED BY <3>1 DEF Free, Idle, Files
  <2>4. verb.what = "comment" => Revised(record, verb) = record
    BY DEF Revised
  <2>5. d.at = "record" /\ d.verb = verb /\ d.record = Revised(record, verb)
    OBVIOUS
  <2> HIDE DEF c, d
  <2>6. Knows(command[p])'
    BY <1>1, <1>4, <2>1, <2>2, <2>3, <2>4, <2>5 DEF Knows, KnowsRecord, KnowsFiles, KnowsContracts
  <2> QED BY <2>2, <2>6
<1>11. CASE LoadCase(p)
  <2> DEFINE loaded == [Current EXCEPT !.shown = FALSE]
             d == [at |-> "apply", verb |-> c.verb, record |-> c.record, looking |-> FALSE,
                   previous |-> loaded, item |-> loaded]
  <2>1. PICK x : Become(p, x)
    BY <1>11 DEF LoadCase, Read
  <2>2. Knows(c) /\ c.at = "load" /\ accepted' = accepted
    BY <1>5, <1>11, <2>1 DEF LoadCase, Files
  <2>3. UpToDate /\ c.record = record /\ c.verb.what # "view"
    BY <2>2 DEF Knows, KnowsRecord, KnowsContracts
  <2>4. CASE Current = Missing
    BY <1>6, <1>11, <2>3, <2>4 DEF LoadCase
  <2>5. CASE Current # Missing
    <3>1. command'[p] = d /\ (Knows(command[p])' => AgreeInv')
      BY <1>5, <1>11, <2>5 DEF LoadCase
    <3>2. Current \in Case
      BY <1>0, <2>5, CurrentType
    <3>3. loaded \in Case
      BY <3>2 DEF Case
    <3>4. loaded # Missing /\ Contract(Current) = Contract(loaded)
      BY <1>0, <3>2, <3>3, MissingIsNoRecord DEF Contract, Case
    <3>5. /\ d.at = "apply" /\ d.verb = c.verb /\ d.record = c.record /\ d.looking = FALSE
          /\ d.previous = loaded
      OBVIOUS
    <3> HIDE DEF c, d, loaded
    <3>6. Contract(Current)' = Contract(loaded)
      BY <1>4, <3>4 DEF Contract
    <3>7. Knows(command[p])'
      <4> DEFINE e == command'[p]
      <4>1. /\ e.at = "apply" /\ e.verb.what # "view" /\ e.record = record' /\ e.looking = FALSE
            /\ e.previous = loaded
        BY <1>1, <2>3, <3>1, <3>5
      <4>2. KnowsRecord(command[p])' /\ KnowsFiles(command[p])'
        BY <4>1 DEF KnowsRecord, KnowsFiles
      <4>3. Contract(command[p].previous)' = Contract(loaded)
        BY <4>1 DEF Contract
      <4>4. KnowsContracts(command[p])'
        BY <1>4, <2>3, <2>5, <3>4, <3>6, <4>1, <4>3 DEF KnowsContracts
      <4> QED BY <4>2, <4>4 DEF Knows
    <3> QED BY <3>1, <3>7
  <2> QED BY <2>4, <2>5
<1>12. CASE Refuse(p)
  <2>1. Knows(c) /\ command'[p] = Idle /\ (Knows(command[p])' => AgreeInv')
    BY <1>5, <1>12 DEF Refuse
  <2>2. c.at = "apply" /\ accepted' = FALSE /\ Idle.at = "idle" /\ c.previous # Missing
    BY <1>12 DEF Refuse, Idle, TInv, InputsAreRead, HasRead
  <2>3. UpToDate /\ Current # Missing
    BY <2>1, <2>2 DEF Knows, KnowsContracts
  <2> HIDE DEF c, Idle
  <2>4. Knows(command[p])'
    BY <1>4, <2>1, <2>2, <2>3 DEF Knows, KnowsRecord, KnowsFiles, KnowsContracts
  <2> QED BY <2>1, <2>4
<1> QED BY <1>7, <1>8, <1>9, <1>10, <1>11, <1>12

\* A case that is numbered has the revision of the last contract, or the next one.
LEMMA AgreeNumber ==
  ASSUME TInv, BelongInv, AgreeInv, TInv', BelongInv', Orderly, NEW p \in Processes, Number(p)
  PROVE  AgreeInv'
<1> DEFINE c == command[p]
           raw == cases[IF c.previous = Missing THEN c.item.report ELSE c.previous.report]
           n == Revision(c.previous, raw, c.item)
           d == [c EXCEPT !.at = "case", !.item.revision = n]
<1>0. TypeOK
  BY DEF TInv
<1>1. /\ UNCHANGED <<circumstance, record, cases, index, announced, accepted>>
      /\ c.at = "number" /\ Become(p, d)
  BY DEF Number, Files
<1>2. Knows(c) /\ command'[p] = d /\ (Knows(command[p])' => AgreeInv')
  BY <1>1, Alone DEF AgreeInv
<1>3. c \in Late
  BY <1>0, <1>1, CommandAt
<1>4. /\ d.at = "case" /\ d.verb = c.verb /\ d.record = c.record /\ d.looking = c.looking
      /\ d.previous = c.previous /\ d.item = [c.item EXCEPT !.revision = n]
  BY <1>3 DEF Late
<1>5. c.item \in Case /\ (c.previous # Missing => c.previous \in Case)
  BY <1>3 DEF Late
<1>6. ASSUME c.previous # Missing
      PROVE  /\ IsLast(c.previous)
             /\ Contract(d.item) = Contract(c.previous) \/ n > c.previous.revision
  <2>1. Current # Missing /\ Contract(Current) = Contract(c.previous) /\ IsLast(Current)
    BY <1>1, <1>2, <1>6 DEF Knows, KnowsContracts, UpToDate
  <2>2. Current \in Case /\ index \in Reports /\ Current = cases[index]
    BY <1>0, <2>1, CurrentType DEF Current, TypeOK
  <2>3. Current.report = index
    BY <2>1, <2>2 DEF BelongInv
  <2>4. c.previous.report = Current.report /\ c.previous.revision = Current.revision
    BY <2>1 DEF Contract
  <2>5. raw = Current
    BY <1>6, <2>2, <2>3, <2>4
  <2>6. CASE Fingerprint(Current) = Fingerprint(c.item) /\ c.previous.revision > 0
    <3>1. n = Current.revision
      BY <1>6, <2>1, <2>4, <2>5, <2>6 DEF Revision
    <3>2. /\ Fingerprint(Current).report = Current.report /\ Fingerprint(c.item).report = c.item.report
          /\ Fingerprint(Current).status = Current.status /\ Fingerprint(c.item).status = c.item.status
          /\ Fingerprint(Current).assignee = Current.assignee
          /\ Fingerprint(c.item).assignee = c.item.assignee
          /\ Fingerprint(Current).reviewer = Current.reviewer
          /\ Fingerprint(c.item).reviewer = c.item.reviewer
          /\ Fingerprint(Current).gate = Current.gate /\ Fingerprint(c.item).gate = c.item.gate
      BY <1>5, <2>2 DEF Fingerprint, Case
    <3>3. /\ d.item.report = c.item.report /\ d.item.revision = n /\ d.item.status = c.item.status
          /\ d.item.assignee = c.item.assignee /\ d.item.reviewer = c.item.reviewer
          /\ d.item.gate = c.item.gate
      BY <1>4, <1>5 DEF Case
    <3> HIDE DEF c, d, n
    <3>4. Contract(d.item) = Contract(Current)
      BY <2>6, <3>1, <3>2, <3>3 DEF Contract
    <3> QED BY <2>1, <3>4 DEF IsLast
  <2>7. CASE ~(Fingerprint(Current) = Fingerprint(c.item) /\ c.previous.revision > 0)
    <3>1. n = c.previous.revision + 1
      BY <1>6, <2>5, <2>7 DEF Revision
    <3>2. c.previous.revision \in Nat
      BY <1>5, <1>6 DEF Case
    <3> QED BY <2>1, <3>1, <3>2 DEF IsLast
  <2> QED BY <2>6, <2>7
<1>7. c.previous = Missing => announced = <<>>
  BY <1>1, <1>2 DEF Knows, KnowsContracts, UpToDate
<1>8. /\ d.item.status = c.item.status /\ d.item.assignee = c.item.assignee
      /\ d.item.reviewer = c.item.reviewer /\ d.item.revision = n
  BY <1>4, <1>5 DEF Case
<1>9. Settled' = Settled /\ (Agrees(c.item) => Agrees(d.item))
  BY <1>1, <1>8 DEF Settled, Agrees, Current
<1> HIDE DEF c, d, n, raw
<1> DEFINE e == command'[p]
<1>10. /\ e.at = "case" /\ e.verb = c.verb /\ e.record = c.record /\ e.looking = c.looking
       /\ e.previous = c.previous /\ e.item = d.item
  BY <1>2, <1>4
<1>11. KnowsRecord(command[p])'
  <2>1. KnowsRecord(c)
    BY <1>2 DEF Knows
  <2>2. Agrees(c.item) => Agrees(command[p].item)'
    BY <1>1, <1>8, <1>10 DEF Agrees
  <2> HIDE DEF e
  <2> QED BY <1>1, <1>9, <1>10, <2>1, <2>2 DEF KnowsRecord, e
<1>12. KnowsFiles(command[p])'
  BY <1>10 DEF KnowsFiles
<1>13. KnowsContracts(command[p])'
  <2>1. IsLast(c.previous) => IsLast(command[p].previous)'
    BY <1>1, <1>10 DEF IsLast, Contract
  <2>2. Contract(command[p].item)' = Contract(d.item) /\ Contract(command[p].previous)' = Contract(c.previous)
    BY <1>10 DEF Contract
  <2> QED BY <1>1, <1>6, <1>7, <1>8, <1>10, <2>1, <2>2 DEF KnowsContracts
<1> QED BY <1>2, <1>11, <1>12, <1>13 DEF Knows

\* A case that is written is the current one once the index is.
LEMMA AgreeWrite ==
  ASSUME TInv, BelongInv, AgreeInv, TInv', BelongInv', Orderly, NEW p \in Processes,
         WriteCase(p) \/ WriteIndex(p)
  PROVE  AgreeInv'
<1> DEFINE c == command[p]
           e == command'[p]
<1>0. TypeOK
  BY DEF TInv
<1>1. UNCHANGED <<circumstance, record, announced, accepted>> /\ c.at \in {"case", "index"}
  BY DEF WriteCase, WriteIndex
<1>2. c \in Late /\ c.item \in Case /\ c.item.report \in Reports /\ c.item # Missing
  <2>1. c \in Late
    BY <1>0, <1>1, CommandAt
  <2> QED BY <1>0, <2>1, MissingIsNoRecord DEF Late, Case
<1>3. ASSUME NEW d, Become(p, d)
      PROVE  Knows(c) /\ e = d /\ (Knows(command[p])' => AgreeInv')
  BY <1>1, <1>3, Alone DEF AgreeInv
<1>4. 0 \notin Reports
  BY <1>0 DEF TypeOK, ConstantsOK, Reports
<1>5. ASSUME NEW at \in {"index", "publish"}, Become(p, [c EXCEPT !.at = at]),
             KnowsFiles(command[p])', Current' \in {Current, c.item}
      PROVE  AgreeInv'
  <2> DEFINE d == [c EXCEPT !.at = at]
  <2>1. Knows(c) /\ e = d /\ (Knows(command[p])' => AgreeInv')
    BY <1>3, <1>5
  <2>2. /\ d.at = at /\ d.verb = c.verb /\ d.record = c.record /\ d.looking = c.looking
        /\ d.previous = c.previous /\ d.item = c.item
    BY <1>2 DEF Late
  <2> HIDE DEF c, d, e
  <2>3. Agrees(c.item) => Agrees(command[p].item)'
    BY <1>1, <2>1, <2>2 DEF Agrees, e
  <2>4. Settled /\ (accepted => Agrees(c.item)) => Settled'
    BY <1>1, <1>2, <1>5 DEF Settled, Agrees
  <2>5. KnowsRecord(command[p])'
    BY <1>1, <2>1, <2>2, <2>3, <2>4 DEF Knows, KnowsRecord, e
  <2>6. /\ IsLast(c.previous) => IsLast(command[p].previous)'
        /\ Contract(command[p].item)' = Contract(c.item)
        /\ Contract(command[p].previous)' = Contract(c.previous)
    BY <1>1, <2>1, <2>2 DEF IsLast, Contract, e
  <2>7. KnowsContracts(command[p])'
    BY <1>1, <2>1, <2>2, <2>6 DEF Knows, KnowsContracts, e
  <2> QED BY <1>5, <2>1, <2>5, <2>7 DEF Knows
<1>6. CASE WriteCase(p)
  <2> DEFINE d == [c EXCEPT !.at = "index"]
  <2>1. Become(p, d) /\ cases' = [cases EXCEPT ![c.item.report] = c.item] /\ index' = index
    BY <1>6 DEF WriteCase
  <2>2. cases'[c.item.report] = c.item /\ \A r \in Reports : cases'[r] \in {cases[r], c.item}
    BY <1>0, <1>2, <2>1 DEF TypeOK
  <2>3. Current' \in {Current, c.item}
    BY <1>0, <2>1, <2>2 DEF Current, TypeOK
  <2>4. d.at = "index" /\ d.item = c.item /\ e = d
    BY <1>2, <1>3, <2>1 DEF Late
  <2>5. KnowsFiles(command[p])'
    BY <2>2, <2>4 DEF KnowsFiles
  <2> QED BY <1>5, <2>1, <2>3, <2>5
<1>7. CASE WriteIndex(p)
  <2> DEFINE d == [c EXCEPT !.at = "publish"]
  <2>1. Become(p, d) /\ index' = c.item.report /\ cases' = cases /\ c.at = "index"
    BY <1>7 DEF WriteIndex
  <2>2. cases[c.item.report] = c.item
    BY <1>3, <2>1 DEF Knows, KnowsFiles
  <2>3. Current' = c.item
    BY <1>2, <1>4, <2>1, <2>2 DEF Current
  <2>4. d.at = "publish" /\ d.item = c.item /\ e = d
    BY <1>2, <1>3, <2>1 DEF Late
  <2>5. KnowsFiles(command[p])'
    BY <2>3, <2>4 DEF KnowsFiles
  <2> QED BY <1>5, <2>1, <2>3, <2>5
<1> QED BY <1>6, <1>7

\* The contract of a new revision comes after all others.
LEMMA AgreePublish ==
  ASSUME TInv, BelongInv, AgreeInv, TInv', BelongInv', Orderly, NEW p \in Processes, Publish(p)
  PROVE  AgreeInv'
<1> DEFINE c == command[p]
           e == command'[p]
           d == [c EXCEPT !.at = "apply", !.looking = FALSE, !.previous = c.item]
           last == Len(announced)
<1>0. TypeOK
  BY DEF TInv
<1>1. UNCHANGED <<circumstance, record, cases, index, accepted>> /\ c.at = "publish" /\ Current' = Current
  BY DEF Publish, Current
<1>2. /\ announced \in Seq(Contracts) /\ last \in Nat /\ DOMAIN announced = 1..last
      /\ \A i \in 1..last : announced[i].revision \in Nat
      /\ \A i, j \in DOMAIN announced : i < j => announced[i].revision < announced[j].revision
  <2>1. announced \in Seq(Contracts) /\ last \in Nat /\ DOMAIN announced = 1..last
    BY <1>0 DEF TypeOK
  <2>2. \A x \in Contracts : x.revision \in Nat
    BY DEF Contracts
  <2> QED BY <2>1, <2>2 DEF AgreeInv
<1>3. c \in Late /\ c.item \in Case /\ c.item # Missing
  <2>1. c \in Late
    BY <1>0, <1>1, CommandAt
  <2> QED BY <1>0, <2>1, MissingIsNoRecord DEF Late
<1>4. Knows(c)
  BY <1>1, CommandAt, <1>0 DEF AgreeInv, Knows
<1>5. /\ Current = c.item
      /\ c.previous = Missing => announced = <<>>
      /\ c.previous # Missing => IsLast(c.previous)
      /\ c.previous # Missing =>
           Contract(c.item) = Contract(c.previous) \/ c.item.revision > c.previous.revision
  BY <1>1, <1>4 DEF Knows, KnowsFiles, KnowsContracts
<1>6. /\ announced' # <<>> /\ announced'[Len(announced')] = Contract(c.item)
      /\ \A i, j \in DOMAIN announced' : i < j => announced'[i].revision < announced'[j].revision
  <2>1. CASE News(c.previous, c.item)
    <3> DEFINE x == Contract(c.item)
               more == Append(announced, x)
    <3>1. x \in Contracts /\ x.revision = c.item.revision /\ x.revision \in Nat
      BY <1>3 DEF Contract, Contracts, Case
    <3>2. announced' = more
      BY <2>1 DEF Publish
    <3> HIDE DEF x
    <3>3. /\ Len(more) = last + 1 /\ DOMAIN more = 1..(last + 1) /\ more[last + 1] = x
          /\ \A i \in 1..last : more[i] = announced[i]
      BY <1>2, <3>1
    <3> HIDE DEF more
    <3>4. ASSUME NEW i \in 1..last PROVE announced[i].revision < x.revision
      <4>1. last # 0 /\ last \in 1..last
        BY <1>2, <3>4
      <4>2. announced # <<>>
        BY <4>1
      <4>3. c.previous # Missing /\ IsLast(c.previous) /\ c.item.revision > c.previous.revision
        BY <1>5, <2>1, <4>2 DEF News
      <4>4. announced[last].revision = c.previous.revision
        BY <4>3 DEF IsLast, Contract
      <4>5. announced[i].revision <= announced[last].revision
        BY <1>2, <3>4, <4>1
      <4> HIDE DEF c, last
      <4>6. announced[i].revision \in Nat /\ announced[last].revision \in Nat
        BY <1>2, <4>1
      <4> QED BY <3>1, <4>3, <4>4, <4>5, <4>6
    <3>5. ASSUME NEW i \in 1..(last + 1), NEW j \in 1..(last + 1), i < j
          PROVE  more[i].revision < more[j].revision
      <4>1. i \in 1..last /\ (j \in 1..last \/ j = last + 1)
        BY <1>2, <3>5
      <4> QED BY <1>2, <3>3, <3>4, <3>5, <4>1
    <3>6. more # <<>>
      <4>1. last + 1 # 0 /\ Len(<<>>) = 0
        BY <1>2
      <4> QED BY <3>3, <4>1
    <3> QED BY <1>2, <3>2, <3>3, <3>5, <3>6 DEF x
  <2>2. CASE ~News(c.previous, c.item)
    <3>1. announced' = announced
      BY <2>2 DEF Publish
    <3>2. IsLast(c.previous) /\ Contract(c.previous) = Contract(c.item)
      BY <1>5, <2>2 DEF News
    <3> QED BY <1>2, <3>1, <3>2 DEF IsLast
  <2> QED BY <2>1, <2>2
<1>7. UpToDate'
  BY <1>1, <1>3, <1>5, <1>6 DEF UpToDate, IsLast, Contract
<1>8. ASSUME NEW x, Become(p, x) PROVE e = x /\ (Knows(command[p])' => AgreeInv')
  BY <1>1, <1>6, <1>8, Alone
<1>9. Settled' = Settled
  BY <1>1 DEF Settled, Agrees
<1>10. CASE c.looking /\ c.verb.what # "view"
  <2>1. Become(p, d)
    BY <1>10 DEF Publish
  <2>2. e = d /\ (Knows(command[p])' => AgreeInv')
    BY <1>8, <2>1
  <2>3. /\ d.at = "apply" /\ d.verb = c.verb /\ d.record = c.record /\ d.looking = FALSE
        /\ d.previous = c.item
    BY <1>3 DEF Late
  <2>4. c.record = record
    BY <1>1, <1>4, <1>10 DEF Knows, KnowsRecord
  <2> HIDE DEF c, d
  <2>5. KnowsRecord(command[p])' /\ KnowsFiles(command[p])'
    BY <1>1, <1>10, <2>2, <2>3, <2>4 DEF KnowsRecord, KnowsFiles
  <2>6. KnowsContracts(command[p])'
    BY <1>1, <1>3, <1>5, <1>7, <2>2, <2>3 DEF KnowsContracts, Contract
  <2> QED BY <2>2, <2>5, <2>6 DEF Knows
<1>11. CASE ~(c.looking /\ c.verb.what # "view")
  <2>1. Become(p, Idle)
    BY <1>11 DEF Publish
  <2>2. e = Idle /\ (Knows(command[p])' => AgreeInv') /\ Idle.at = "idle"
    BY <1>8, <2>1 DEF Idle
  <2>3. Settled
    <3>1. CASE ~c.looking
      BY <1>1, <1>3, <1>4, <1>5, <3>1 DEF Knows, KnowsRecord, Settled
    <3>2. CASE c.looking
      BY <1>1, <1>4, <1>11, <3>2 DEF Knows, KnowsRecord
    <3> QED BY <3>1, <3>2
  <2> HIDE DEF Idle
  <2>4. Knows(command[p])'
    BY <1>7, <1>9, <2>2, <2>3 DEF Knows, KnowsRecord, KnowsFiles, KnowsContracts
  <2> QED BY <2>2, <2>4
<1> QED BY <1>10, <1>11

\* The record is saved, and the case takes what it says.
LEMMA AgreeRecord ==
  ASSUME TInv, BelongInv, AgreeInv, TInv', BelongInv', Orderly, NEW p \in Processes,
         SaveRecord(p) \/ Apply(p)
  PROVE  AgreeInv'
<1> DEFINE c == command[p]
           e == command'[p]
<1>0. TypeOK
  BY DEF TInv
<1>1. UNCHANGED <<circumstance, cases, index, announced>> /\ c.at \in {"record", "apply"}
  BY DEF SaveRecord, Apply
<1>2. Current' = Current /\ UpToDate' = UpToDate
  BY <1>1 DEF Current, UpToDate, IsLast, Contract
<1>3. ASSUME NEW d, Become(p, d)
      PROVE  Knows(c) /\ e = d /\ (Knows(command[p])' => AgreeInv')
  BY <1>1, <1>3, Alone DEF AgreeInv
<1>4. CASE SaveRecord(p)
  <2>1. c \in Early /\ c.at = "record" /\ record' = c.record /\ accepted' = accepted
    BY <1>0, <1>4, CommandAt DEF SaveRecord
  <2>2. CASE c.verb.what = "comment"
    <3>1. Become(p, Idle)
      BY <1>4, <2>2 DEF SaveRecord
    <3>2. Knows(c) /\ e = Idle /\ (Knows(command[p])' => AgreeInv') /\ Idle.at = "idle"
      BY <1>3, <3>1 DEF Idle
    <3>3. record' = record /\ Settled /\ UpToDate
      BY <2>1, <2>2, <3>2 DEF Knows, KnowsRecord, KnowsContracts
    <3>4. Settled'
      BY <1>2, <2>1, <3>3 DEF Settled, Agrees
    <3> HIDE DEF c, Idle
    <3>5. Knows(command[p])'
      BY <1>2, <3>2, <3>3, <3>4 DEF Knows, KnowsRecord, KnowsFiles, KnowsContracts
    <3> QED BY <3>2, <3>5
  <2>3. CASE c.verb.what # "comment"
    <3> DEFINE d == [c EXCEPT !.at = "load"]
    <3>1. Become(p, d)
      BY <1>4, <2>3 DEF SaveRecord
    <3>2. Knows(c) /\ e = d /\ (Knows(command[p])' => AgreeInv')
      BY <1>3, <3>1
    <3>3. d.at = "load" /\ d.verb = c.verb /\ d.record = c.record
      BY <2>1 DEF Early
    <3> HIDE DEF c, d
    <3>4. Knows(command[p])'
      BY <1>2, <2>1, <3>2, <3>3 DEF Knows, KnowsRecord, KnowsFiles, KnowsContracts
    <3> QED BY <3>2, <3>4
  <2> QED BY <2>2, <2>3
<1>5. CASE Apply(p)
  <2> DEFINE u == Updated(c.previous, c.record, c.verb.by)
             d == [c EXCEPT !.at = "number", !.item = u]
  <2>1. c \in Late /\ c.at = "apply" /\ record' = record /\ accepted' = TRUE /\ Become(p, d)
    BY <1>0, <1>5, CommandAt DEF Apply
  <2>2. Knows(c) /\ e = d /\ (Knows(command[p])' => AgreeInv')
    BY <1>3, <2>1
  <2>3. c.record = record /\ ~c.looking /\ c.verb.what # "view"
    BY <2>1, <2>2 DEF Knows, KnowsRecord
  <2>4. c.previous \in Case
    BY <2>1 DEF Late, TInv, InputsAreRead, HasRead
  <2>5. Agrees(u)
    BY <2>3, <2>4 DEF Updated, Agrees, Case
  <2>6. /\ d.at = "number" /\ d.verb = c.verb /\ d.record = c.record /\ d.looking = c.looking
        /\ d.previous = c.previous /\ d.item = u
    BY <2>1 DEF Late
  <2> HIDE DEF c, d, u, e
  <2>7. Agrees(command[p].item)' /\ Contract(command[p].previous)' = Contract(c.previous)
        /\ Contract(Current)' = Contract(Current)
    BY <1>2, <2>1, <2>2, <2>5, <2>6 DEF Agrees, Contract, e
  <2>8. KnowsRecord(command[p])' /\ KnowsFiles(command[p])'
    BY <2>1, <2>2, <2>3, <2>6, <2>7 DEF KnowsRecord, KnowsFiles, e
  <2>9. KnowsContracts(command[p])'
    BY <1>2, <2>1, <2>2, <2>6, <2>7 DEF Knows, KnowsContracts, e
  <2> QED BY <2>2, <2>8, <2>9 DEF Knows
<1> QED BY <1>4, <1>5

LEMMA AgreeStep == TInv /\ BelongInv /\ AgreeInv /\ [Next]_vars => AgreeInv'
<1> SUFFICES ASSUME TInv, BelongInv, AgreeInv, [Next]_vars PROVE AgreeInv'
  OBVIOUS
<1>1. TInv' /\ BelongInv'
  BY TypeStep, BelongStep
<1>2. circumstance' = circumstance
  BY Zenon DEF Next, vars, MoveBaseline, RecordOverride, View, ReadGate, ReadPrevious, Number, WriteCase,
    WriteIndex, Publish, Collaborate, SaveRecord, LoadCase, Apply, Refuse, Crash
<1>3. Orderly' = Orderly
  BY <1>2 DEF Orderly, Serial
<1>4. SUFFICES ASSUME Orderly PROVE AgreeInv'
  BY <1>3 DEF AgreeInv
<1>5. CASE UNCHANGED vars \/ MoveBaseline \/ RecordOverride
  <2>1. UNCHANGED <<record, cases, index, announced, accepted, command>>
    BY <1>5 DEF vars, MoveBaseline, RecordOverride
  <2>2. Current' = Current /\ Settled' = Settled /\ UpToDate' = UpToDate
    BY <2>1 DEF Current, Settled, Agrees, UpToDate, IsLast, Contract
  <2>3. Knows(Idle) => Knows(Idle)'
    BY <2>2 DEF Knows, KnowsRecord, KnowsFiles, KnowsContracts, Idle
  <2>4. ASSUME NEW p \in Processes, Knows(command[p]) PROVE Knows(command[p])'
    <3> DEFINE c == command[p]
    <3>1. command'[p] = c
      BY <2>1
    <3>2. /\ Agrees(c.item) => Agrees(command[p].item)'
          /\ IsLast(c.previous) => IsLast(command[p].previous)'
          /\ Contract(command[p].item)' = Contract(c.item)
          /\ Contract(command[p].previous)' = Contract(c.previous)
          /\ Contract(Current)' = Contract(Current)
      BY <2>1, <2>2 DEF Agrees, IsLast, Contract
    <3> QED BY <2>1, <2>2, <2>4, <3>1, <3>2 DEF Knows, KnowsRecord, KnowsFiles, KnowsContracts
  <2> QED BY <1>4, <2>1, <2>3, <2>4 DEF AgreeInv, Quiet, Idle
<1>6. \A p \in Processes : ~Crash(p)
  BY <1>4 DEF Orderly, Crash
<1> QED BY <1>1, <1>4, <1>5, <1>6, AgreeRead, AgreeNumber, AgreeWrite, AgreePublish, AgreeRecord DEF Next

\* With one command at a time, none of which dies: between commands the record of the
\* collaboration and the case agree unless the case refused the last step; contracts are
\* announced under growing revisions, and the last one announced is the case's
\* (AdmissionWorkflowMixin, AdmissionCaseService._persist_case and
\* _publish_case_contract_event).
THEOREM RecordCaseAndContractAgree ==
  ASSUME ConstantsOK
  PROVE  Spec => []StoresAgree
<1>1. Init => TInv /\ BelongInv /\ AgreeInv
  <2> SUFFICES ASSUME Init PROVE TInv /\ BelongInv /\ AgreeInv
    OBVIOUS
  <2>1. TInv
    BY InitType
  <2>2. Current = Missing /\ record = NewRecord /\ announced = <<>> /\ DOMAIN announced = {}
    BY DEF Init, Current
  <2>3. \A p \in Processes : command[p] = Idle
    BY DEF Init
  <2>4. \A r \in Reports : cases[r] = Missing
    BY DEF Init
  <2>5. Idle.at = "idle"
    BY DEF Idle
  <2> HIDE DEF Idle
  <2>6. Knows(Idle)
    BY <2>2, <2>5 DEF Knows, KnowsRecord, KnowsFiles, KnowsContracts, Settled, UpToDate
  <2> QED BY <2>1, <2>2, <2>3, <2>4, <2>6 DEF BelongInv, AgreeInv
<1> QED BY <1>1, TypeStep, BelongStep, AgreeStep, AgreeSays, PTL DEF Spec

=============================================================================
