-------------------------- MODULE RuleGovernanceProofs --------------------------
(***************************************************************************)
(* Proofs about RuleGovernance: what counts as approved has its approvals, *)
(* and a file that validates is followed by files that do, in every        *)
(* interleaving of any number of commands, of which any may die anywhere;  *)
(* with one command at a time nothing is published against the last word;  *)
(* and when none dies either, the rule file is what the active version     *)
(* says, which can be undone, and a candidate is published once.           *)
(***************************************************************************)
EXTENDS RuleGovernance, SequenceTheorems, TLAPS

-----------------------------------------------------------------------------
(* Types.                                                                  *)

Writes == {"file", "version", "active", "candidate"}
Reviewing == [at : {"review"}, k : 1..MaxCandidates, new : Candidate, decision : {"approve", "reject"}]
Writing == [at : Writes, k : 0..MaxCandidates, copy : Candidate \cup {NoCopy}, content : Rules,
            previous : Rules, found : Rules \cup {Torn}, v : 0..MaxVersions]

\* What a command is about is there, of n candidates and m versions.
RefersTo(c, n, m) ==
  /\ c.at = "review" => c.k \in 1..n
  /\ c.at \in Writes /\ c.k # 0 => c.k \in 1..n /\ c.copy \in Candidate /\ c.copy.status = "approved"
  /\ c.at = "active" => c.v \in 1..m
  /\ c.at = "candidate" => c.k # 0
CommandsRefer ==
  \A p \in Processes :
    /\ RefersTo(command[p], Len(candidates), Len(versions))
    /\ command[p] = Idle \/ p \in circumstance.processes
TInv == TypeOK /\ CommandsRefer

LEMMA CommandIs == Command = {Idle} \cup Reviewing \cup Writing
BY DEF Command, Reviewing, Writing, Writes

LEMMA CommandAt ==
  ASSUME TypeOK, NEW p \in Processes
  PROVE  /\ command[p] \in Command
         /\ command[p] # Idle <=> command[p].at # "idle"
         /\ command[p].at = "review" => command[p] \in Reviewing
         /\ command[p].at \in Writes => command[p] \in Writing
<1>1. command[p] \in {Idle} \cup Reviewing \cup Writing
  BY CommandIs DEF TypeOK
<1>2. /\ Idle.at = "idle"
      /\ \A c \in Reviewing : c.at = "review"
      /\ \A c \in Writing : c.at \in Writes
      /\ "idle" \notin Writes /\ "review" \notin Writes
  BY DEF Idle, Reviewing, Writing, Writes
<1> HIDE DEF Idle, Reviewing, Writing, Writes
<1> QED BY <1>1, <1>2, CommandIs

LEMMA RulesType ==
  ASSUME TypeOK
  PROVE  /\ Empty \in Rules /\ Defaults \in Rules /\ Valid(Defaults)
         /\ Readable => Current \in Rules
<1>1. Empty \in Rules /\ Defaults \in Rules
  BY ValueAssumption DEF Empty, Defaults, Rules
<1>2. Valid(Defaults)
  BY ValueAssumption DEF Valid, Errors, Defaults
<1>3. Readable => Current \in Rules
  BY <1>1 DEF Readable, Current, TypeOK
<1> QED BY <1>1, <1>2, <1>3

\* A patched file is a file, and has something to say.
LEMMA MergeType ==
  ASSUME NEW rules \in Rules, NEW patch \in Patches
  PROVE  Merge(rules, patch) \in Rules /\ Merge(rules, patch) # Empty
<1>1. PICK s \in (SUBSET Fields) \ {{}} : patch \in [s -> Given]
  BY DEF Patches
<1>2. Merge(rules, patch) \in Rules
  BY <1>1, ValueAssumption DEF Merge, Rules
<1>3. PICK f \in s : f \in Fields
  BY <1>1
<1>4. Merge(rules, patch)[f] = patch[f] /\ patch[f] \in Given
  BY <1>1, <1>3 DEF Merge
<1>5. Empty[f] = Absent
  BY <1>3 DEF Empty
<1> QED BY <1>2, <1>4, <1>5, ValueAssumption

LEMMA ReviewedType ==
  ASSUME NEW c \in Candidate, NEW a \in Actors, NEW decision \in {"approve", "reject"}
  PROVE  Reviewed(c, a, decision) \in Candidate
<1>1. c.reviews \in Reviews
  BY DEF Candidate
<1>2. PICK S \in SUBSET Actors : c.reviews \in [S -> {"approve", "reject"}]
  BY <1>1 DEF Reviews
<1>3. Decided(c, a, decision) \in [S \cup {a} -> {"approve", "reject"}]
  BY <1>2 DEF Decided
<1>4. Decided(c, a, decision) \in Reviews
  BY <1>3 DEF Reviews
<1> DEFINE reviews == Decided(c, a, decision)
           status == IF decision = "reject" THEN "rejected"
                     ELSE IF Cardinality(Approvers(reviews)) >= c.required THEN "approved" ELSE "draft"
<1>5. Reviewed(c, a, decision) = [c EXCEPT !.reviews = reviews, !.status = status]
  BY DEF Reviewed
<1>6. status \in {"draft", "approved", "rejected"}
  OBVIOUS
<1> HIDE DEF reviews, status
<1> QED BY <1>4, <1>5, <1>6 DEF Candidate, reviews

\* A step of one process keeps what is known of all commands.
LEMMA BecomeType ==
  ASSUME TInv, NEW p \in Processes, NEW c \in Command, Become(p, c),
         circumstance' = circumstance, c = Idle \/ p \in circumstance.processes,
         NEW n \in Nat, NEW m \in Nat, Len(candidates) <= n, Len(versions) <= m,
         RefersTo(c, n, m)
  PROVE  /\ command' \in [Processes -> Command]
         /\ \A q \in Processes : command'[q] = IF q = p THEN c ELSE command[q]
         /\ \A q \in Processes : RefersTo(command'[q], n, m)
                                 /\ (command'[q] = Idle \/ q \in circumstance'.processes)
<1>1. command' = [command EXCEPT ![p] = c] /\ command \in [Processes -> Command]
  BY DEF Become, TInv, TypeOK
<1>2. Len(candidates) \in Nat /\ Len(versions) \in Nat
  BY DEF TInv, TypeOK
<1> HIDE DEF Command
<1>3. command' \in [Processes -> Command]
  BY <1>1
<1>4. \A q \in Processes : command'[q] = IF q = p THEN c ELSE command[q]
  BY <1>1
<1>5. ASSUME NEW q \in Processes, q # p
      PROVE  RefersTo(command[q], n, m) /\ (command[q] = Idle \/ q \in circumstance.processes)
  <2> DEFINE d == command[q]
  <2>1. RefersTo(d, Len(candidates), Len(versions)) /\ (d = Idle \/ q \in circumstance.processes)
    BY DEF TInv, CommandsRefer
  <2> HIDE DEF d
  <2>2. RefersTo(d, n, m)
    BY <1>2, <2>1 DEF RefersTo
  <2> QED BY <2>1, <2>2 DEF d
<1> QED BY <1>3, <1>4, <1>5

LEMMA IdleType == Idle \in Command /\ \A n, m : RefersTo(Idle, n, m)
<1>1. Idle.at = "idle"
  BY DEF Idle
<1> QED BY <1>1, CommandIs DEF RefersTo, Writes

\* A process that is doing something is one of those there are.
LEMMA Running ==
  ASSUME TInv, NEW p \in Processes, command[p].at # "idle"
  PROVE  p \in circumstance.processes
BY CommandAt DEF TInv, CommandsRefer

LEMMA InitType == Init => TInv
<1> SUFFICES ASSUME Init PROVE TInv
  OBVIOUS
<1>1. circumstance \in Circumstances /\ circumstance.source \in Rules
      /\ circumstance.bound \in [Actors -> Roles \cup {Nobody}] /\ circumstance.binds \in Nat
  BY CircumstanceAssumption DEF Init
<1>2. command = [p \in Processes |-> Idle]
  BY DEF Init
<1>3. command \in [Processes -> Command] /\ CommandsRefer
  BY <1>2, IdleType DEF CommandsRefer
<1>4. /\ candidates = <<>> /\ versions = <<>> /\ lastWord = <<>>
      /\ candidates \in Seq(Candidate) /\ versions \in Seq(Version)
      /\ lastWord \in Seq({"none", "approve", "reject"})
      /\ Len(candidates) = 0 /\ Len(versions) = 0 /\ Len(lastWord) = 0
  <2>1. candidates = <<>> /\ versions = <<>> /\ lastWord = <<>>
    BY DEF Init
  <2>2. <<>> \in Seq(Candidate) /\ <<>> \in Seq(Version)
        /\ <<>> \in Seq({"none", "approve", "reject"})
    OBVIOUS
  <2>3. Len(<<>>) = 0
    OBVIOUS
  <2> QED BY <2>1, <2>2, <2>3
<1>5. file \in Rules \cup {Torn} /\ active \in 0..MaxVersions /\ skipped \in BOOLEAN
      /\ bindings \in [Actors -> Roles \cup {Nobody}] /\ binds \in 0..circumstance.binds
  <2>1. /\ file = circumstance.source /\ active = 0 /\ bindings = circumstance.bound
        /\ binds = 0 /\ skipped = FALSE
    BY DEF Init
  <2>2. 0 \in 0..MaxVersions /\ 0 \in 0..circumstance.binds
    BY <1>1, CountAssumption
  <2> QED BY <1>1, <2>1, <2>2
<1>6. TypeOK
  BY <1>1, <1>3, <1>4, <1>5, CountAssumption DEF TypeOK
<1> QED BY <1>3, <1>6 DEF TInv

\* Only what a step changes has to be shown.
LEMMA StepType ==
  ASSUME TInv, NEW p \in Processes, NEW c \in Command, Become(p, c),
         circumstance' = circumstance, c = Idle \/ p \in circumstance.processes,
         candidates' \in Seq(Candidate), Len(candidates') = Len(candidates),
         versions' \in Seq(Version), Len(versions) <= Len(versions'), Len(versions') <= MaxVersions,
         RefersTo(c, Len(candidates'), Len(versions')),
         file' \in Rules \cup {Torn}, active' \in 0..MaxVersions, UNCHANGED <<bindings, binds>>,
         lastWord' \in Seq({"none", "approve", "reject"}), Len(lastWord') = Len(lastWord),
         skipped' \in BOOLEAN
  PROVE  TInv'
<1>1. Len(candidates') \in Nat /\ Len(versions') \in Nat
  OBVIOUS
<1>2. Len(candidates) <= Len(candidates')
  BY <1>1
<1>3. /\ command' \in [Processes -> Command]
      /\ \A q \in Processes : RefersTo(command'[q], Len(candidates'), Len(versions'))
                              /\ (command'[q] = Idle \/ q \in circumstance'.processes)
  BY <1>1, <1>2, BecomeType
<1>4. TypeOK'
  <2>1. Command' = Command
    OBVIOUS
  <2> QED BY <1>3, <2>1 DEF TypeOK, TInv
<1> QED BY <1>3, <1>4 DEF TInv, CommandsRefer

LEMMA BindType ==
  ASSUME TInv, NEW p \in Processes, Bind(p) \/ BindDies(p)
  PROVE  TInv'
<1>1. /\ UNCHANGED <<circumstance, file, candidates, versions, active, command, lastWord, skipped>>
      /\ binds < circumstance.binds /\ binds' = binds + 1
  BY DEF Bind, BindDies, history
<1>2. bindings' \in [Actors -> Roles \cup {Nobody}]
  <2>1. bindings \in [Actors -> Roles \cup {Nobody}]
    BY DEF TInv, TypeOK
  <2>2. CASE Bind(p)
    <3>1. PICK a \in Actors, role \in Roles : bindings' = [bindings EXCEPT ![a] = role]
      BY <2>2 DEF Bind
    <3> HIDE DEF Roles, Nobody
    <3> QED BY <2>1, <3>1
  <2>3. CASE BindDies(p)
    BY <2>3 DEF BindDies
  <2> QED BY <2>2, <2>3
<1>3. binds' \in 0..circumstance'.binds
  <2>1. binds \in 0..circumstance.binds /\ circumstance.binds \in Nat
    BY CircumstanceAssumption DEF TInv, TypeOK
  <2> QED BY <1>1, <2>1
<1> QED BY <1>1, <1>2, <1>3 DEF TInv, TypeOK, CommandsRefer

LEMMA ProposeType ==
  ASSUME TInv, NEW p \in Processes, Propose(p)
  PROVE  /\ TInv'
         /\ \E new \in Candidate : /\ candidates' = Append(candidates, new)
                                  /\ new.status = "draft" /\ new.preview # Empty
<1>1. PICK patch \in Patches, n \in Required :
        candidates' = Append(candidates,
            [status |-> "draft", preview |-> Merge(Current, patch), required |-> n,
             reviews |-> [a \in {} |-> "reject"]])
  BY DEF Propose
<1> DEFINE new == [status |-> "draft", preview |-> Merge(Current, patch), required |-> n,
                   reviews |-> [a \in {} |-> "reject"]]
<1>2. /\ UNCHANGED <<circumstance, file, versions, active, bindings, binds, command, skipped>>
      /\ Len(candidates) < circumstance.room /\ lastWord' = Append(lastWord, "none") /\ Readable
  BY DEF Propose
<1>3. Merge(Current, patch) \in Rules /\ Merge(Current, patch) # Empty
  BY <1>2, RulesType, MergeType DEF TInv
<1>4. [a \in {} |-> "reject"] \in Reviews
  <2>1. [a \in {} |-> "reject"] \in [{} -> {"approve", "reject"}]
    OBVIOUS
  <2>2. {} \in SUBSET Actors
    OBVIOUS
  <2> QED BY <2>1, <2>2 DEF Reviews
<1>5. new \in Candidate
  BY <1>3, <1>4 DEF Candidate
<1>6. new.status = "draft" /\ new.preview # Empty
  BY <1>3
<1>7. candidates' = Append(candidates, new)
  BY <1>1
<1> HIDE DEF new
<1>8. /\ candidates \in Seq(Candidate) /\ lastWord \in Seq({"none", "approve", "reject"})
      /\ Len(lastWord) = Len(candidates) /\ circumstance.room \in 0..MaxCandidates
  BY CircumstanceAssumption DEF TInv, TypeOK
<1>9. /\ candidates' \in Seq(Candidate) /\ Len(candidates') = Len(candidates) + 1
      /\ lastWord' \in Seq({"none", "approve", "reject"}) /\ Len(lastWord') = Len(lastWord) + 1
  BY <1>2, <1>5, <1>7, <1>8
<1>10. Len(candidates') <= MaxCandidates /\ Len(lastWord') = Len(candidates')
  BY <1>2, <1>8, <1>9, CountAssumption
<1>11. TypeOK'
  BY <1>2, <1>9, <1>10 DEF TInv, TypeOK
<1>12. CommandsRefer'
  <2>1. \A q \in Processes :
          /\ RefersTo(command[q], Len(candidates), Len(versions))
          /\ command[q] = Idle \/ q \in circumstance.processes
    BY DEF TInv, CommandsRefer
  <2>2. \A c : RefersTo(c, Len(candidates), Len(versions)) => RefersTo(c, Len(candidates'), Len(versions))
    BY <1>8, <1>9 DEF RefersTo
  <2> QED BY <1>2, <2>1, <2>2 DEF CommandsRefer
<1> QED BY <1>5, <1>6, <1>7, <1>11, <1>12 DEF TInv

LEMMA ReadType ==
  ASSUME TInv, NEW p \in Processes, ReviewRead(p) \/ PublishRead(p) \/ RollbackRead(p)
  PROVE  TInv'
<1>1. /\ UNCHANGED <<circumstance, file, candidates, versions, active, bindings, binds, lastWord>>
      /\ p \in circumstance.processes /\ skipped' \in BOOLEAN
  BY DEF ReviewRead, PublishRead, RollbackRead, Free, history, TInv, TypeOK
<1>2. /\ candidates \in Seq(Candidate) /\ Len(candidates) \in Nat /\ Len(candidates) <= MaxCandidates
      /\ versions \in Seq(Version) /\ Len(versions) \in Nat /\ Len(versions) <= MaxVersions
      /\ file \in Rules \cup {Torn} /\ active \in 0..MaxVersions
      /\ lastWord \in Seq({"none", "approve", "reject"})
      /\ MaxCandidates \in Nat /\ MaxVersions \in Nat
  BY CountAssumption DEF TInv, TypeOK
<1> SUFFICES \E c \in Command : Become(p, c) /\ RefersTo(c, Len(candidates), Len(versions))
  BY <1>1, <1>2, StepType
<1>3. CASE ReviewRead(p)
  <2>1. PICK a \in Actors, k \in DOMAIN candidates, decision \in {"approve", "reject"} :
          Become(p, [at |-> "review", k |-> k, new |-> Reviewed(candidates[k], a, decision),
                     decision |-> decision])
    BY <1>3 DEF ReviewRead
  <2> DEFINE c == [at |-> "review", k |-> k, new |-> Reviewed(candidates[k], a, decision),
                   decision |-> decision]
  <2>2. k \in 1..Len(candidates) /\ k \in 1..MaxCandidates /\ candidates[k] \in Candidate
    BY <1>2
  <2>3. c \in Reviewing
    BY <2>2, ReviewedType DEF Reviewing
  <2>4. RefersTo(c, Len(candidates), Len(versions))
    BY <2>2 DEF RefersTo, Writes
  <2> QED BY <2>1, <2>3, <2>4, CommandIs
<1>4. CASE PublishRead(p)
  <2>1. PICK a \in Actors, k \in DOMAIN candidates :
          /\ candidates[k].status = "approved" /\ Readable
          /\ Become(p, [at |-> "file", k |-> k, copy |-> candidates[k], content |-> candidates[k].preview,
                        previous |-> Current, found |-> Torn, v |-> 0])
    BY <1>4 DEF PublishRead
  <2> DEFINE c == [at |-> "file", k |-> k, copy |-> candidates[k], content |-> candidates[k].preview,
                   previous |-> Current, found |-> Torn, v |-> 0]
  <2>2. k \in 1..Len(candidates) /\ k \in 0..MaxCandidates /\ candidates[k] \in Candidate
        /\ 0 \in 0..MaxVersions
    BY <1>2
  <2>3. candidates[k].preview \in Rules /\ Current \in Rules
    BY <2>1, <2>2, RulesType DEF Candidate, TInv
  <2>4. c \in Writing
    BY <2>2, <2>3 DEF Writing, Writes
  <2>5. RefersTo(c, Len(candidates), Len(versions))
    BY <2>1, <2>2 DEF RefersTo, Writes
  <2> QED BY <2>1, <2>4, <2>5, CommandIs
<1>5. CASE RollbackRead(p)
  <2>1. PICK a \in Actors, v \in DOMAIN versions :
          Become(p, [at |-> "file", k |-> 0, copy |-> NoCopy, content |-> versions[v].previous,
                     previous |-> versions[v].content, found |-> Torn, v |-> 0])
    BY <1>5 DEF RollbackRead
  <2> DEFINE c == [at |-> "file", k |-> 0, copy |-> NoCopy, content |-> versions[v].previous,
                   previous |-> versions[v].content, found |-> Torn, v |-> 0]
  <2>2. versions[v] \in Version /\ 0 \in 0..MaxCandidates /\ 0 \in 0..MaxVersions
    BY <1>2
  <2>3. versions[v].previous \in Rules /\ versions[v].content \in Rules
    BY <2>2 DEF Version
  <2>4. c \in Writing
    BY <2>2, <2>3 DEF Writing, Writes
  <2>5. RefersTo(c, Len(candidates), Len(versions))
    BY DEF RefersTo, Writes
  <2> QED BY <2>1, <2>4, <2>5, CommandIs
<1> QED BY <1>3, <1>4, <1>5

LEMMA WriteType ==
  ASSUME TInv, NEW p \in Processes,
         ReviewWrite(p) \/ WriteFile(p) \/ WriteVersion(p) \/ WriteActive(p) \/ WriteCandidate(p)
  PROVE  TInv'
<1> DEFINE c == command[p]
<1>1. /\ candidates \in Seq(Candidate) /\ Len(candidates) \in Nat
      /\ versions \in Seq(Version) /\ Len(versions) \in Nat /\ Len(versions) <= MaxVersions
      /\ file \in Rules \cup {Torn} /\ active \in 0..MaxVersions
      /\ lastWord \in Seq({"none", "approve", "reject"}) /\ Len(lastWord) = Len(candidates)
      /\ skipped \in BOOLEAN
      /\ MaxCandidates \in Nat /\ MaxVersions \in Nat
  BY CountAssumption DEF TInv, TypeOK
<1>2. RefersTo(c, Len(candidates), Len(versions))
  BY DEF TInv, CommandsRefer
<1>3. CASE ReviewWrite(p)
  <2>1. /\ c.at = "review" /\ c \in Reviewing
        /\ candidates' = [candidates EXCEPT ![c.k] = c.new]
        /\ lastWord' = [lastWord EXCEPT ![c.k] = c.decision]
        /\ Become(p, Idle) /\ UNCHANGED <<circumstance, file, versions, active, bindings, binds, skipped>>
    BY <1>3, CommandAt DEF ReviewWrite, TInv
  <2>2. c.new \in Candidate /\ c.decision \in {"none", "approve", "reject"}
    BY <2>1 DEF Reviewing
  <2>3. /\ candidates' \in Seq(Candidate) /\ Len(candidates') = Len(candidates)
        /\ lastWord' \in Seq({"none", "approve", "reject"}) /\ Len(lastWord') = Len(lastWord)
    <3>1. c.k \in 1..Len(candidates) /\ c.k \in 1..Len(lastWord)
      BY <1>1, <1>2, <2>1 DEF RefersTo
    <3> HIDE DEF c
    <3> QED BY <1>1, <2>1, <2>2, <3>1, ExceptSeq
  <2> QED BY <1>1, <2>1, <2>3, StepType, IdleType
<1>4. CASE WriteFile(p)
  <2> DEFINE d == [c EXCEPT !.at = "version", !.found = file]
  <2>1. /\ c.at = "file" /\ c \in Writing /\ file' = c.content /\ Become(p, d)
        /\ UNCHANGED <<circumstance, candidates, versions, active, bindings, binds, lastWord, skipped>>
    BY <1>4, CommandAt DEF WriteFile, TInv, Writes, history
  <2>2. p \in circumstance.processes
    BY <2>1, Running
  <2>3. d \in Writing /\ c.content \in Rules
    BY <1>1, <2>1 DEF Writing, Writes
  <2>4. RefersTo(d, Len(candidates), Len(versions))
    BY <1>2, <2>1 DEF RefersTo, Writes, Writing
  <2> HIDE DEF d
  <2> QED BY <1>1, <2>1, <2>2, <2>3, <2>4, StepType, CommandIs
<1>5. CASE WriteVersion(p)
  <2> DEFINE d == [c EXCEPT !.at = "active", !.v = Len(versions) + 1]
             new == [content |-> c.content, previous |-> c.previous, parent |-> active,
                     candidate |-> c.k, found |-> c.found]
  <2>1. /\ c.at = "version" /\ c \in Writing /\ Len(versions) < circumstance.publications
        /\ versions' = Append(versions, new) /\ Become(p, d)
        /\ UNCHANGED <<circumstance, file, candidates, active, bindings, binds, lastWord, skipped>>
    BY <1>5, CommandAt DEF WriteVersion, TInv, Writes, history
  <2>2. p \in circumstance.processes /\ circumstance.publications \in 0..MaxVersions
    BY <2>1, Running, CircumstanceAssumption DEF TInv, TypeOK
  <2>3. new \in Version
    BY <1>1, <2>1 DEF Writing, Version
  <2>4. Len(versions) + 1 \in 1..MaxVersions
    BY <1>1, <2>1, <2>2
  <2>5. d \in Writing
    <3>1. Len(versions) + 1 \in 0..MaxVersions
      BY <1>1, <2>4
    <3> QED BY <2>1, <3>1 DEF Writing, Writes
  <2>6. RefersTo(d, Len(candidates), Len(versions) + 1)
    BY <1>1, <1>2, <2>1 DEF RefersTo, Writes, Writing
  <2> HIDE DEF d, new
  <2>7. versions' \in Seq(Version) /\ Len(versions') = Len(versions) + 1
    BY <1>1, <2>1, <2>3
  <2> QED BY <1>1, <2>1, <2>2, <2>4, <2>5, <2>6, <2>7, StepType, CommandIs
<1>6. CASE WriteActive(p)
  <2> DEFINE d == IF c.k = 0 THEN Idle ELSE [c EXCEPT !.at = "candidate"]
  <2>1. /\ c.at = "active" /\ c \in Writing /\ active' = c.v /\ Become(p, d)
        /\ UNCHANGED <<circumstance, file, candidates, versions, bindings, binds, lastWord, skipped>>
    BY <1>6, CommandAt DEF WriteActive, TInv, Writes, history
  <2>2. p \in circumstance.processes
    BY <2>1, Running
  <2>3. c.v \in 0..MaxVersions
    BY <2>1 DEF Writing
  <2>4. d \in Command /\ RefersTo(d, Len(candidates), Len(versions))
    <3>1. CASE c.k = 0
      BY <3>1, IdleType
    <3>2. CASE c.k # 0
      <4>1. [c EXCEPT !.at = "candidate"] \in Writing
        BY <2>1 DEF Writing, Writes
      <4>2. RefersTo([c EXCEPT !.at = "candidate"], Len(candidates), Len(versions))
        BY <1>2, <2>1, <3>2 DEF RefersTo, Writes, Writing
      <4> QED BY <3>2, <4>1, <4>2, CommandIs
    <3> QED BY <3>1, <3>2
  <2> HIDE DEF d
  <2> QED BY <1>1, <2>1, <2>2, <2>3, <2>4, StepType
<1>7. CASE WriteCandidate(p)
  <2> DEFINE new == [c.copy EXCEPT !.status = "published"]
  <2>1. /\ c.at = "candidate" /\ candidates' = [candidates EXCEPT ![c.k] = new] /\ Become(p, Idle)
        /\ UNCHANGED <<circumstance, file, versions, active, bindings, binds, lastWord, skipped>>
    BY <1>7 DEF WriteCandidate, history
  <2>2. c.k \in 1..Len(candidates) /\ c.copy \in Candidate
    BY <1>2, <2>1 DEF RefersTo, Writes
  <2>3. new \in Candidate
    BY <2>2 DEF Candidate
  <2> HIDE DEF new, c
  <2>4. candidates' \in Seq(Candidate) /\ Len(candidates') = Len(candidates)
    BY <1>1, <2>1, <2>2, <2>3, ExceptSeq
  <2> QED BY <1>1, <2>1, <2>4, StepType, IdleType
<1> QED BY <1>3, <1>4, <1>5, <1>6, <1>7

LEMMA CrashType ==
  ASSUME TInv, NEW p \in Processes, Crash(p)
  PROVE  TInv'
<1> DEFINE k == command[p].k
<1>1. Become(p, Idle) /\ UNCHANGED <<circumstance, bindings, binds, lastWord, skipped>>
  BY DEF Crash, history
<1>2. /\ candidates \in Seq(Candidate) /\ Len(candidates) \in Nat
      /\ versions \in Seq(Version) /\ Len(versions) \in Nat /\ Len(versions) <= MaxVersions
      /\ file \in Rules \cup {Torn} /\ active \in 0..MaxVersions
      /\ lastWord \in Seq({"none", "approve", "reject"}) /\ skipped \in BOOLEAN
      /\ MaxVersions \in Nat
  BY CountAssumption DEF TInv, TypeOK
<1>3. /\ file' \in Rules \cup {Torn} /\ active' \in 0..MaxVersions /\ versions' = versions
      /\ \/ candidates' = candidates
         \/ /\ command[p].at \in {"review", "candidate"}
            /\ candidates' = [candidates EXCEPT ![k].status = "torn"]
  BY <1>2 DEF Crash
<1>4. candidates' \in Seq(Candidate) /\ Len(candidates') = Len(candidates)
  <2>1. CASE candidates' = candidates
    BY <1>2, <2>1
  <2>2. CASE /\ command[p].at \in {"review", "candidate"}
             /\ candidates' = [candidates EXCEPT ![k].status = "torn"]
    <3>1. k \in 1..Len(candidates)
      BY <2>2 DEF TInv, CommandsRefer, RefersTo, Writes
    <3> HIDE DEF k
    <3>2. candidates[k] \in Candidate
      BY <1>2, <3>1
    <3>3. [candidates[k] EXCEPT !.status = "torn"] \in Candidate
      BY <3>2 DEF Candidate
    <3>4. candidates' = [candidates EXCEPT ![k] = [candidates[k] EXCEPT !.status = "torn"]]
      BY <2>2
    <3> QED BY <1>2, <3>1, <3>3, <3>4, ExceptSeq
  <2> QED BY <1>3, <2>1, <2>2
<1> QED BY <1>1, <1>2, <1>3, <1>4, StepType, IdleType

LEMMA TypeStep == TInv /\ [Next]_vars => TInv'
<1> SUFFICES ASSUME TInv, [Next]_vars PROVE TInv'
  OBVIOUS
<1>1. CASE UNCHANGED vars
  BY <1>1 DEF vars, history, TInv, TypeOK, CommandsRefer
<1>2. CASE Next
  BY <1>2, BindType, ProposeType, ReadType, WriteType, CrashType DEF Next
<1> QED BY <1>1, <1>2

\* The files, the commands and what they refer to are what they are to be, whatever runs at
\* the same time and wherever it dies (rule_governance_lifecycle.py).
THEOREM TypeCorrect == Spec => []TypeOK
<1>1. Spec => []TInv
  BY InitType, TypeStep, PTL DEF Spec
<1>2. TInv => TypeOK
  BY DEF TInv
<1> QED BY <1>1, <1>2, PTL

-----------------------------------------------------------------------------
(* The gate: approvals, and files that validate.                           *)

Approvals(c) ==
  c.status \in {"approved", "published"} => Cardinality(Approvers(c.reviews)) >= c.required

\* What a command holds has passed the gate.
Passed(c) ==
  /\ c.at = "review" => Approvals(c.new)
  /\ c.at \in Writes /\ c.k # 0 => Approvals(c.copy)
  /\ c.at = "file" => Valid(c.content)

GateInv ==
  /\ \A k \in DOMAIN candidates : Approvals(candidates[k])
  /\ \A p \in Processes : Passed(command[p])

LEMMA Added ==
  ASSUME NEW S, NEW s \in Seq(S), NEW x \in S
  PROVE  /\ Len(Append(s, x)) = Len(s) + 1
         /\ \A i \in 1..Len(s) : Append(s, x)[i] = s[i]
         /\ Append(s, x)[Len(s) + 1] = x
OBVIOUS

\* The candidates after each step.
LEMMA CandidatesAfterProposal ==
  ASSUME TInv, NEW p \in Processes, Propose(p)
  PROVE  /\ Len(candidates') = Len(candidates) + 1
         /\ \A j \in 1..Len(candidates) : candidates'[j] = candidates[j] /\ lastWord'[j] = lastWord[j]
         /\ candidates'[Len(candidates) + 1].status = "draft"
         /\ candidates'[Len(candidates) + 1].preview # Empty
<1>1. PICK new \in Candidate : /\ candidates' = Append(candidates, new)
                              /\ new.status = "draft" /\ new.preview # Empty
  BY ProposeType
<1>2. /\ candidates \in Seq(Candidate) /\ lastWord \in Seq({"none", "approve", "reject"})
      /\ Len(lastWord) = Len(candidates) /\ lastWord' = Append(lastWord, "none")
  BY DEF TInv, TypeOK, Propose
<1>3. /\ Len(candidates') = Len(candidates) + 1
      /\ \A j \in 1..Len(candidates) : candidates'[j] = candidates[j]
      /\ candidates'[Len(candidates) + 1] = new
  BY <1>1, <1>2, Added
<1>4. \A j \in 1..Len(lastWord) : lastWord'[j] = lastWord[j]
  BY <1>2, Added
<1> QED BY <1>1, <1>2, <1>3, <1>4

LEMMA CandidatesAfterReview ==
  ASSUME TInv, NEW p \in Processes, ReviewWrite(p)
  PROVE  /\ Len(candidates') = Len(candidates) /\ command[p].k \in 1..Len(candidates)
         /\ \A j \in 1..Len(candidates) :
              /\ candidates'[j] = IF j = command[p].k THEN command[p].new ELSE candidates[j]
              /\ lastWord'[j] = IF j = command[p].k THEN command[p].decision ELSE lastWord[j]
<1> DEFINE c == command[p]
<1>1. /\ candidates \in Seq(Candidate) /\ lastWord \in Seq({"none", "approve", "reject"})
      /\ Len(lastWord) = Len(candidates)
      /\ candidates' = [candidates EXCEPT ![c.k] = c.new]
      /\ lastWord' = [lastWord EXCEPT ![c.k] = c.decision]
  BY DEF TInv, TypeOK, ReviewWrite
<1>2. c \in Reviewing /\ c.k \in 1..Len(candidates)
  BY CommandAt DEF TInv, CommandsRefer, RefersTo, ReviewWrite
<1>3. c.new \in Candidate /\ c.decision \in {"none", "approve", "reject"}
  BY <1>2 DEF Reviewing
<1> HIDE DEF c
<1>4. /\ Len(candidates') = Len(candidates)
      /\ \A j \in 1..Len(candidates) : candidates'[j] = IF j = c.k THEN c.new ELSE candidates[j]
  BY <1>1, <1>2, <1>3, ExceptSeq
<1>5. \A j \in 1..Len(lastWord) : lastWord'[j] = IF j = c.k THEN c.decision ELSE lastWord[j]
  BY <1>1, <1>2, <1>3, ExceptSeq
<1> QED BY <1>1, <1>2, <1>4, <1>5 DEF c

LEMMA CandidatesAfterPublication ==
  ASSUME TInv, NEW p \in Processes, WriteCandidate(p)
  PROVE  /\ Len(candidates') = Len(candidates)
         /\ command[p].k \in 1..Len(candidates) /\ command[p].copy \in Candidate
         /\ command[p].copy.status = "approved"
         /\ \A j \in 1..Len(candidates) :
              candidates'[j] = IF j = command[p].k THEN [command[p].copy EXCEPT !.status = "published"]
                               ELSE candidates[j]
<1> DEFINE c == command[p]
           new == [c.copy EXCEPT !.status = "published"]
<1>1. /\ candidates \in Seq(Candidate) /\ c.at = "candidate"
      /\ candidates' = [candidates EXCEPT ![c.k] = new]
  BY DEF TInv, TypeOK, WriteCandidate
<1>2. c.k \in 1..Len(candidates) /\ c.copy \in Candidate /\ c.copy.status = "approved"
  BY <1>1 DEF TInv, CommandsRefer, RefersTo, Writes
<1>3. new \in Candidate
  BY <1>2 DEF Candidate
<1> HIDE DEF c, new
<1>4. /\ Len(candidates') = Len(candidates)
      /\ \A j \in 1..Len(candidates) : candidates'[j] = IF j = c.k THEN new ELSE candidates[j]
  BY <1>1, <1>2, <1>3, ExceptSeq
<1> QED BY <1>2, <1>4 DEF c, new

LEMMA CandidatesAfterCrash ==
  ASSUME TInv, NEW p \in Processes, Crash(p)
  PROVE  /\ Len(candidates') = Len(candidates) /\ lastWord' = lastWord
         /\ \A j \in 1..Len(candidates) : candidates'[j] = candidates[j] \/ candidates'[j].status = "torn"
<1> DEFINE k == command[p].k
<1>1. candidates \in Seq(Candidate) /\ lastWord' = lastWord
  BY DEF TInv, TypeOK, Crash, history
<1>2. CASE candidates' = candidates
  BY <1>1, <1>2
<1>3. CASE /\ command[p].at \in {"review", "candidate"}
           /\ candidates' = [candidates EXCEPT ![k].status = "torn"]
  <2>1. k \in 1..Len(candidates)
    BY <1>3 DEF TInv, CommandsRefer, RefersTo, Writes
  <2> HIDE DEF k
  <2>2. candidates[k] \in Candidate
    BY <1>1, <2>1
  <2> DEFINE new == [candidates[k] EXCEPT !.status = "torn"]
  <2>3. new \in Candidate /\ new.status = "torn"
    BY <2>2 DEF Candidate
  <2>4. candidates' = [candidates EXCEPT ![k] = new]
    BY <1>3
  <2> HIDE DEF new
  <2>5. /\ Len(candidates') = Len(candidates)
        /\ \A j \in 1..Len(candidates) : candidates'[j] = IF j = k THEN new ELSE candidates[j]
    BY <1>1, <2>1, <2>3, <2>4, ExceptSeq
  <2> QED BY <1>1, <2>3, <2>5
<1> QED BY <1>2, <1>3 DEF Crash

LEMMA CandidatesStay ==
  ASSUME NEW p \in Processes,
         Bind(p) \/ BindDies(p) \/ ReviewRead(p) \/ PublishRead(p) \/ RollbackRead(p) \/ WriteFile(p)
           \/ WriteVersion(p) \/ WriteActive(p)
  PROVE  candidates' = candidates /\ lastWord' = lastWord
BY DEF Bind, BindDies, ReviewRead, PublishRead, RollbackRead, WriteFile, WriteVersion, WriteActive, history

LEMMA ReviewedHasApprovals ==
  ASSUME NEW c \in Candidate, NEW a, NEW decision
  PROVE  /\ Approvals(Reviewed(c, a, decision))
         /\ Reviewed(c, a, decision).status = "approved" => decision # "reject"
         /\ Reviewed(c, a, decision).status # "published"
<1> DEFINE reviews == Decided(c, a, decision)
           status == IF decision = "reject" THEN "rejected"
                     ELSE IF Cardinality(Approvers(reviews)) >= c.required THEN "approved" ELSE "draft"
<1>1. Reviewed(c, a, decision) = [c EXCEPT !.reviews = reviews, !.status = status]
  BY DEF Reviewed
<1> HIDE DEF reviews
<1>2. Reviewed(c, a, decision).status = status /\ Reviewed(c, a, decision).reviews = reviews
      /\ Reviewed(c, a, decision).required = c.required
  <2> HIDE DEF status
  <2> QED BY <1>1 DEF Candidate
<1>3. status \in {"approved", "published"} => Cardinality(Approvers(reviews)) >= c.required
  OBVIOUS
<1>4. (status = "approved" => decision # "reject") /\ status # "published"
  OBVIOUS
<1> HIDE DEF status
<1> QED BY <1>2, <1>3, <1>4 DEF Approvals

LEMMA Becomes ==
  ASSUME TInv, NEW p \in Processes, NEW c, Become(p, c)
  PROVE  \A q \in Processes : command'[q] = IF q = p THEN c ELSE command[q]
BY DEF Become, TInv, TypeOK

LEMMA GatePassed ==
  ASSUME TInv, GateInv, NEW p \in Processes, NEW c, Become(p, c), Passed(c)
  PROVE  \A q \in Processes : Passed(command'[q])
BY Becomes DEF GateInv

LEMMA IdlePassed == Passed(Idle)
<1>1. Idle.at = "idle"
  BY DEF Idle
<1> QED BY <1>1 DEF Passed, Writes

LEMMA GateRead ==
  ASSUME TInv, GateInv, NEW p \in Processes, ReviewRead(p) \/ PublishRead(p) \/ RollbackRead(p)
  PROVE  GateInv'
<1>1. candidates' = candidates /\ candidates \in Seq(Candidate)
      /\ \A k \in DOMAIN candidates : candidates[k] \in Candidate /\ Approvals(candidates[k])
  BY CandidatesStay DEF TInv, TypeOK, GateInv
<1> SUFFICES \E c : Become(p, c) /\ Passed(c)
  BY <1>1, GatePassed DEF GateInv
<1>2. CASE ReviewRead(p)
  <2>1. PICK a \in Actors, k \in DOMAIN candidates, decision \in {"approve", "reject"} :
          Become(p, [at |-> "review", k |-> k, new |-> Reviewed(candidates[k], a, decision),
                     decision |-> decision])
    BY <1>2 DEF ReviewRead
  <2> DEFINE c == [at |-> "review", k |-> k, new |-> Reviewed(candidates[k], a, decision),
                   decision |-> decision]
  <2>2. Approvals(Reviewed(candidates[k], a, decision))
    BY <1>1, ReviewedHasApprovals
  <2>3. Passed(c)
    BY <2>2 DEF Passed, Writes
  <2> QED BY <2>1, <2>3
<1>3. CASE PublishRead(p)
  <2>1. PICK a \in Actors, k \in DOMAIN candidates :
          /\ Valid(candidates[k].preview)
          /\ Become(p, [at |-> "file", k |-> k, copy |-> candidates[k], content |-> candidates[k].preview,
                        previous |-> Current, found |-> Torn, v |-> 0])
    BY <1>3 DEF PublishRead
  <2> DEFINE c == [at |-> "file", k |-> k, copy |-> candidates[k], content |-> candidates[k].preview,
                   previous |-> Current, found |-> Torn, v |-> 0]
  <2>2. c.at = "file" /\ c.content = candidates[k].preview /\ c.copy = candidates[k]
    OBVIOUS
  <2> HIDE DEF c
  <2>3. Passed(c)
    BY <1>1, <2>1, <2>2 DEF Passed
  <2> QED BY <2>1, <2>3 DEF c
<1>4. CASE RollbackRead(p)
  <2>1. PICK a \in Actors, v \in DOMAIN versions :
          /\ Valid(versions[v].previous)
          /\ Become(p, [at |-> "file", k |-> 0, copy |-> NoCopy, content |-> versions[v].previous,
                        previous |-> versions[v].content, found |-> Torn, v |-> 0])
    BY <1>4 DEF RollbackRead
  <2> DEFINE c == [at |-> "file", k |-> 0, copy |-> NoCopy, content |-> versions[v].previous,
                   previous |-> versions[v].content, found |-> Torn, v |-> 0]
  <2>2. c.at = "file" /\ c.content = versions[v].previous /\ c.k = 0
    OBVIOUS
  <2> HIDE DEF c
  <2>3. Passed(c)
    BY <2>1, <2>2 DEF Passed
  <2> QED BY <2>1, <2>3 DEF c
<1> QED BY <1>2, <1>3, <1>4

LEMMA GateWrite ==
  ASSUME TInv, GateInv, NEW p \in Processes, WriteFile(p) \/ WriteVersion(p) \/ WriteActive(p)
  PROVE  GateInv'
<1> DEFINE c == command[p]
<1>1. candidates' = candidates
  BY CandidatesStay
<1>2. Passed(c)
  BY DEF GateInv
<1> SUFFICES \E d : Become(p, d) /\ Passed(d)
  BY <1>1, GatePassed DEF GateInv
<1>3. CASE WriteFile(p)
  <2>1. c \in Writing /\ c.at = "file" /\ Become(p, [c EXCEPT !.at = "version", !.found = file])
    BY <1>3, CommandAt DEF WriteFile, TInv, Writes
  <2> DEFINE d == [c EXCEPT !.at = "version", !.found = file]
  <2>2. d.at = "version" /\ d.k = c.k /\ d.copy = c.copy
    BY <2>1 DEF Writing
  <2> HIDE DEF d
  <2>3. Passed(d)
    BY <1>2, <2>1, <2>2 DEF Passed, Writes
  <2> QED BY <2>1, <2>3 DEF d
<1>4. CASE WriteVersion(p)
  <2>1. c \in Writing /\ c.at = "version"
        /\ Become(p, [c EXCEPT !.at = "active", !.v = Len(versions) + 1])
    BY <1>4, CommandAt DEF WriteVersion, TInv, Writes
  <2> DEFINE d == [c EXCEPT !.at = "active", !.v = Len(versions) + 1]
  <2>2. d.at = "active" /\ d.k = c.k /\ d.copy = c.copy
    BY <2>1 DEF Writing
  <2> HIDE DEF d
  <2>3. Passed(d)
    BY <1>2, <2>1, <2>2 DEF Passed, Writes
  <2> QED BY <2>1, <2>3 DEF d
<1>5. CASE WriteActive(p)
  <2>1. c \in Writing /\ c.at = "active"
        /\ Become(p, IF c.k = 0 THEN Idle ELSE [c EXCEPT !.at = "candidate"])
    BY <1>5, CommandAt DEF WriteActive, TInv, Writes
  <2>2. CASE c.k = 0
    BY <2>1, <2>2, IdlePassed
  <2>3. CASE c.k # 0
    <3> DEFINE d == [c EXCEPT !.at = "candidate"]
    <3>1. d.at = "candidate" /\ d.k = c.k /\ d.copy = c.copy
      BY <2>1 DEF Writing
    <3>2. Become(p, d)
      BY <2>1, <2>3
    <3> HIDE DEF d
    <3>3. Passed(d)
      BY <1>2, <2>1, <3>1 DEF Passed, Writes
    <3> QED BY <3>2, <3>3
  <2> QED BY <2>2, <2>3
<1> QED BY <1>3, <1>4, <1>5

LEMMA GateCandidates ==
  ASSUME TInv, GateInv, NEW p \in Processes,
         Bind(p) \/ BindDies(p) \/ Propose(p) \/ ReviewWrite(p) \/ WriteCandidate(p) \/ Crash(p)
  PROVE  GateInv'
<1> DEFINE c == command[p]
<1>1. Len(candidates) \in Nat /\ DOMAIN candidates = 1..Len(candidates) /\ TInv'
  BY BindType, ProposeType, WriteType, CrashType DEF TInv, TypeOK
<1>2. DOMAIN candidates' = 1..Len(candidates')
  BY <1>1 DEF TInv, TypeOK
<1>3. Passed(c) /\ \A k \in 1..Len(candidates) : Approvals(candidates[k])
  BY <1>1 DEF GateInv
<1>4. \A k \in DOMAIN candidates' : Approvals(candidates'[k])
  <2>1. CASE Bind(p) \/ BindDies(p)
    BY <1>1, <1>3, <2>1, CandidatesStay
  <2>2. CASE Propose(p)
    <3>1. /\ Len(candidates') = Len(candidates) + 1
          /\ \A j \in 1..Len(candidates) : candidates'[j] = candidates[j]
          /\ candidates'[Len(candidates) + 1].status = "draft"
      BY <2>2, CandidatesAfterProposal
    <3>2. \A j \in 1..Len(candidates') : j \in 1..Len(candidates) \/ j = Len(candidates) + 1
      BY <1>1, <3>1
    <3> QED BY <1>2, <1>3, <3>1, <3>2 DEF Approvals
  <2>3. CASE ReviewWrite(p)
    <3>1. Approvals(c.new)
      BY <1>3, <2>3 DEF Passed, ReviewWrite
    <3> QED BY <1>2, <1>3, <2>3, <3>1, CandidatesAfterReview
  <2>4. CASE WriteCandidate(p)
    <3>1. c.at = "candidate" /\ c.k # 0 /\ c.copy \in Candidate /\ c.copy.status = "approved"
          /\ Approvals(c.copy)
      <4>1. c.at = "candidate" /\ c.k \in 1..Len(candidates) /\ c.copy \in Candidate
            /\ c.copy.status = "approved"
        BY <2>4, CandidatesAfterPublication DEF WriteCandidate
      <4> HIDE DEF c
      <4> QED BY <1>1, <1>3, <4>1 DEF Passed, Writes
    <3>2. Approvals([c.copy EXCEPT !.status = "published"])
      BY <3>1 DEF Approvals, Candidate
    <3> QED BY <1>2, <1>3, <2>4, <3>2, CandidatesAfterPublication
  <2>5. CASE Crash(p)
    <3>1. Len(candidates') = Len(candidates)
          /\ \A j \in 1..Len(candidates) : candidates'[j] = candidates[j] \/ candidates'[j].status = "torn"
      BY <2>5, CandidatesAfterCrash
    <3> QED BY <1>2, <1>3, <3>1 DEF Approvals
  <2> QED BY <2>1, <2>2, <2>3, <2>4, <2>5
<1>5. \A q \in Processes : Passed(command'[q])
  <2>1. CASE UNCHANGED command
    BY <2>1 DEF GateInv
  <2>2. CASE Become(p, Idle)
    BY <2>2, GatePassed, IdlePassed
  <2> QED BY <2>1, <2>2 DEF Bind, BindDies, Propose, ReviewWrite, WriteCandidate, Crash
<1> QED BY <1>4, <1>5 DEF GateInv

LEMMA GateStep == TInv /\ GateInv /\ [Next]_vars => GateInv'
<1> SUFFICES ASSUME TInv, GateInv, [Next]_vars PROVE GateInv'
  OBVIOUS
<1>1. CASE UNCHANGED vars
  BY <1>1 DEF vars, GateInv
<1>2. CASE Next
  BY <1>2, GateRead, GateWrite, GateCandidates DEF Next
<1> QED BY <1>1, <1>2

LEMMA GateInit == Init => GateInv
<1> SUFFICES ASSUME Init PROVE GateInv
  OBVIOUS
<1>1. candidates = <<>> /\ command = [p \in Processes |-> Idle]
  BY DEF Init
<1>2. \A p \in Processes : command[p] = Idle
  BY <1>1
<1> QED BY <1>1, <1>2, IdlePassed DEF GateInv

\* The rule file is written by one action, with what passed.
LEMMA ValidStep ==
  ASSUME TInv, GateInv, [Next]_vars, file # Torn, Valid(file)
  PROVE  file' = Torn \/ Valid(file')
<1>1. CASE file' = file
  BY <1>1
<1>2. CASE \E p \in Processes : WriteFile(p)
  <2>1. PICK p \in Processes : WriteFile(p)
    BY <1>2
  <2>2. command[p].at = "file" /\ file' = command[p].content
    BY <2>1 DEF WriteFile
  <2> QED BY <2>2 DEF GateInv, Passed
<1>3. CASE \E p \in Processes : Crash(p)
  BY <1>1, <1>3 DEF Crash
<1>4. file' = file \/ \E p \in Processes : WriteFile(p) \/ Crash(p)
  BY DEF Next, vars, Bind, BindDies, Propose, ReviewRead, ReviewWrite, PublishRead, RollbackRead,
         WriteVersion, WriteActive, WriteCandidate
<1> QED BY <1>1, <1>2, <1>3, <1>4

-----------------------------------------------------------------------------
(* The last word, with one command at a time.                              *)

\* What a command holds follows the last word.
Told(c, words) ==
  /\ c.at = "review" /\ c.new.status = "approved" => c.decision = "approve"
  /\ c.at \in Writes /\ c.k # 0 => words[c.k] = "approve"

WordInv ==
  Serial =>
    /\ \A k \in DOMAIN candidates : candidates[k].status = "approved" => lastWord[k] = "approve"
    /\ \A p \in Processes : Told(command[p], lastWord)

LEMMA IdleTold == \A words : Told(Idle, words)
<1>1. Idle.at = "idle"
  BY DEF Idle
<1> QED BY <1>1 DEF Told, Writes

\* Who makes a step is one of the processes there are, and the others stay as they are.
LEMMA OneMoves ==
  ASSUME TInv, NEW p \in Processes,
         Bind(p) \/ BindDies(p) \/ Propose(p) \/ ReviewRead(p) \/ ReviewWrite(p) \/ PublishRead(p)
           \/ RollbackRead(p) \/ WriteFile(p) \/ WriteVersion(p) \/ WriteActive(p)
           \/ WriteCandidate(p) \/ Crash(p)
  PROVE  /\ circumstance' = circumstance /\ p \in circumstance.processes
         /\ \A q \in Processes \ {p} : command'[q] = command[q]
<1>1. circumstance' = circumstance
  BY DEF Bind, BindDies, Propose, ReviewRead, ReviewWrite, PublishRead, RollbackRead, WriteFile,
         WriteVersion, WriteActive, WriteCandidate, Crash
<1>2. Free(p) \/ command[p].at \in {"review"} \cup Writes \/ command[p] # Idle
  BY DEF Bind, BindDies, Propose, ReviewRead, ReviewWrite, PublishRead, RollbackRead, WriteFile,
         WriteVersion, WriteActive, WriteCandidate, Crash, Writes
<1>3. p \in circumstance.processes
  BY <1>2, CommandAt DEF Free, Writes, TInv, CommandsRefer
<1>4. command' = command \/ \E c : Become(p, c)
  BY DEF Bind, BindDies, Propose, ReviewRead, ReviewWrite, PublishRead, RollbackRead, WriteFile,
         WriteVersion, WriteActive, WriteCandidate, Crash
<1>5. \A q \in Processes \ {p} : command'[q] = command[q]
  <2>1. CASE \E c : Become(p, c)
    <3>1. PICK c : Become(p, c)
      BY <2>1
    <3> QED BY <3>1, Becomes
  <2> QED BY <1>4, <2>1
<1> QED BY <1>1, <1>3, <1>5

LEMMA OthersIdle ==
  ASSUME TInv, Serial, NEW p \in circumstance.processes
  PROVE  \A q \in Processes \ {p} : command[q] = Idle
BY DEF TInv, CommandsRefer, Serial

LEMMA WordTold ==
  ASSUME TInv, Serial, NEW p \in Processes, p \in circumstance.processes,
         \A q \in Processes \ {p} : command'[q] = command[q], Told(command'[p], lastWord')
  PROVE  \A q \in Processes : Told(command'[q], lastWord')
BY OthersIdle, IdleTold

LEMMA WordRead ==
  ASSUME TInv, WordInv, Serial, NEW p \in Processes, ReviewRead(p) \/ PublishRead(p) \/ RollbackRead(p)
  PROVE  Told(command'[p], lastWord')
<1>1. lastWord' = lastWord
  BY CandidatesStay
<1>2. CASE ReviewRead(p)
  <2>1. PICK a \in Actors, k \in DOMAIN candidates, decision \in {"approve", "reject"} :
          Become(p, [at |-> "review", k |-> k, new |-> Reviewed(candidates[k], a, decision),
                     decision |-> decision])
    BY <1>2 DEF ReviewRead
  <2> DEFINE new == Reviewed(candidates[k], a, decision)
             c == [at |-> "review", k |-> k, new |-> new, decision |-> decision]
  <2>2. candidates[k] \in Candidate
    BY DEF TInv, TypeOK
  <2>3. new.status = "approved" => decision = "approve"
    BY <2>2, ReviewedHasApprovals
  <2>4. Told(c, lastWord)
    <3> HIDE DEF new
    <3> QED BY <2>3 DEF Told, Writes
  <2> HIDE DEF c
  <2>5. command'[p] = c
    BY <2>1, Becomes DEF c
  <2> QED BY <1>1, <2>4, <2>5
<1>3. CASE PublishRead(p)
  <2>1. PICK a \in Actors, k \in DOMAIN candidates :
          /\ candidates[k].status = "approved"
          /\ Become(p, [at |-> "file", k |-> k, copy |-> candidates[k], content |-> candidates[k].preview,
                        previous |-> Current, found |-> Torn, v |-> 0])
    BY <1>3 DEF PublishRead
  <2> DEFINE c == [at |-> "file", k |-> k, copy |-> candidates[k], content |-> candidates[k].preview,
                   previous |-> Current, found |-> Torn, v |-> 0]
  <2>2. c.at = "file" /\ c.k = k /\ lastWord[k] = "approve"
    BY <2>1 DEF WordInv
  <2>3. command'[p] = c
    BY <2>1, Becomes
  <2> HIDE DEF c
  <2> QED BY <1>1, <2>2, <2>3 DEF Told
<1>4. CASE RollbackRead(p)
  <2>1. PICK a \in Actors, v \in DOMAIN versions :
          Become(p, [at |-> "file", k |-> 0, copy |-> NoCopy, content |-> versions[v].previous,
                     previous |-> versions[v].content, found |-> Torn, v |-> 0])
    BY <1>4 DEF RollbackRead
  <2> DEFINE c == [at |-> "file", k |-> 0, copy |-> NoCopy, content |-> versions[v].previous,
                   previous |-> versions[v].content, found |-> Torn, v |-> 0]
  <2>2. c.at = "file" /\ c.k = 0
    OBVIOUS
  <2>3. command'[p] = c
    BY <2>1, Becomes
  <2> HIDE DEF c
  <2> QED BY <2>2, <2>3 DEF Told
<1> QED BY <1>2, <1>3, <1>4

LEMMA WordWrite ==
  ASSUME TInv, WordInv, Serial, NEW p \in Processes, WriteFile(p) \/ WriteVersion(p) \/ WriteActive(p)
  PROVE  Told(command'[p], lastWord')
<1> DEFINE c == command[p]
<1>1. lastWord' = lastWord
  BY CandidatesStay
<1>2. c \in Writing /\ c.at \in Writes
  BY CommandAt DEF WriteFile, WriteVersion, WriteActive, TInv, Writes
<1>3. c.k # 0 => lastWord[c.k] = "approve"
  BY <1>2 DEF WordInv, Told
<1>4. command'[p] = Idle \/ (command'[p].at \in Writes /\ command'[p].k = c.k)
  <2>1. CASE WriteFile(p)
    <3> DEFINE d == [c EXCEPT !.at = "version", !.found = file]
    <3>1. command'[p] = d
      BY <2>1, Becomes DEF WriteFile
    <3>2. d.at \in Writes /\ d.k = c.k
      BY <1>2 DEF Writing, Writes
    <3> QED BY <3>1, <3>2
  <2>2. CASE WriteVersion(p)
    <3> DEFINE d == [c EXCEPT !.at = "active", !.v = Len(versions) + 1]
    <3>1. command'[p] = d
      BY <2>2, Becomes DEF WriteVersion
    <3>2. d.at \in Writes /\ d.k = c.k
      BY <1>2 DEF Writing, Writes
    <3> QED BY <3>1, <3>2
  <2>3. CASE WriteActive(p)
    <3> DEFINE d == [c EXCEPT !.at = "candidate"]
    <3>1. command'[p] = IF c.k = 0 THEN Idle ELSE d
      BY <2>3, Becomes DEF WriteActive
    <3>2. d.at \in Writes /\ d.k = c.k
      BY <1>2 DEF Writing, Writes
    <3> QED BY <3>1, <3>2
  <2> QED BY <2>1, <2>2, <2>3
<1> HIDE DEF c
<1>5. CASE command'[p] = Idle
  BY <1>5, IdleTold
<1>6. CASE command'[p].at \in Writes /\ command'[p].k = c.k
  BY <1>1, <1>3, <1>6 DEF Told, Writes
<1> QED BY <1>4, <1>5, <1>6

LEMMA WordStep == TInv /\ WordInv /\ [Next]_vars => WordInv'
<1> SUFFICES ASSUME TInv, WordInv, [Next]_vars PROVE WordInv'
  OBVIOUS
<1>1. CASE UNCHANGED vars
  BY <1>1 DEF vars, history, WordInv, Serial
<1>2. CASE Next
  <2>1. PICK p \in Processes :
          Bind(p) \/ BindDies(p) \/ Propose(p) \/ ReviewRead(p) \/ ReviewWrite(p) \/ PublishRead(p)
            \/ RollbackRead(p) \/ WriteFile(p) \/ WriteVersion(p) \/ WriteActive(p)
            \/ WriteCandidate(p) \/ Crash(p)
    BY <1>2 DEF Next
  <2>2. /\ circumstance' = circumstance /\ p \in circumstance.processes
        /\ \A q \in Processes \ {p} : command'[q] = command[q]
    BY <2>1, OneMoves
  <2> SUFFICES ASSUME Serial
               PROVE  /\ \A k \in DOMAIN candidates' :
                            candidates'[k].status = "approved" => lastWord'[k] = "approve"
                      /\ \A q \in Processes : Told(command'[q], lastWord')
    BY <2>2 DEF WordInv, Serial
  <2>3. /\ Len(candidates) \in Nat /\ DOMAIN candidates = 1..Len(candidates)
        /\ DOMAIN candidates' = 1..Len(candidates')
    BY <1>2, TypeStep DEF TInv, TypeOK
  <2>4. \A k \in 1..Len(candidates) : candidates[k].status = "approved" => lastWord[k] = "approve"
    BY <2>3 DEF WordInv
  <2>5. \A k \in DOMAIN candidates' : candidates'[k].status = "approved" => lastWord'[k] = "approve"
    <3>1. CASE Propose(p)
      <4>1. /\ Len(candidates') = Len(candidates) + 1
            /\ \A j \in 1..Len(candidates) : candidates'[j] = candidates[j] /\ lastWord'[j] = lastWord[j]
            /\ candidates'[Len(candidates) + 1].status = "draft"
        BY <3>1, CandidatesAfterProposal
      <4>2. \A j \in 1..Len(candidates') : j \in 1..Len(candidates) \/ j = Len(candidates) + 1
        BY <2>3, <4>1
      <4> QED BY <2>3, <2>4, <4>1, <4>2
    <3>2. CASE ReviewWrite(p)
      <4>1. command[p].new.status = "approved" => command[p].decision = "approve"
        BY <3>2 DEF WordInv, Told, ReviewWrite
      <4>2. /\ Len(candidates') = Len(candidates)
            /\ \A j \in 1..Len(candidates) :
                 /\ candidates'[j] = IF j = command[p].k THEN command[p].new ELSE candidates[j]
                 /\ lastWord'[j] = IF j = command[p].k THEN command[p].decision ELSE lastWord[j]
        BY <3>2, CandidatesAfterReview
      <4> SUFFICES ASSUME NEW k \in 1..Len(candidates), candidates'[k].status = "approved"
                   PROVE  lastWord'[k] = "approve"
        BY <2>3, <4>2
      <4>3. CASE k = command[p].k
        BY <4>1, <4>2, <4>3
      <4>4. CASE k # command[p].k
        BY <2>4, <4>2, <4>4
      <4> QED BY <4>3, <4>4
    <3>3. CASE WriteCandidate(p)
      <4>1. lastWord' = lastWord
        BY <3>3 DEF WriteCandidate, history
      <4>2. [command[p].copy EXCEPT !.status = "published"].status = "published"
        BY <3>3, CandidatesAfterPublication DEF Candidate
      <4> QED BY <2>3, <2>4, <3>3, <4>1, <4>2, CandidatesAfterPublication
    <3>4. CASE Crash(p)
      BY <2>3, <2>4, <3>4, CandidatesAfterCrash
    <3>5. CASE candidates' = candidates /\ lastWord' = lastWord
      BY <2>3, <2>4, <3>5
    <3> QED BY <2>1, <3>1, <3>2, <3>3, <3>4, <3>5, CandidatesStay
  <2>6. Told(command'[p], lastWord')
    <3>1. CASE ReviewRead(p) \/ PublishRead(p) \/ RollbackRead(p)
      BY <3>1, WordRead
    <3>2. CASE WriteFile(p) \/ WriteVersion(p) \/ WriteActive(p)
      BY <3>2, WordWrite
    <3>3. CASE ReviewWrite(p) \/ WriteCandidate(p) \/ Crash(p)
      <4>1. command'[p] = Idle
        BY <3>3, Becomes DEF ReviewWrite, WriteCandidate, Crash
      <4> QED BY <4>1, IdleTold
    <3>4. CASE Bind(p) \/ BindDies(p) \/ Propose(p)
      <4>1. command'[p] = Idle
        BY <3>4 DEF Bind, BindDies, Propose, Free
      <4> QED BY <4>1, IdleTold
    <3> QED BY <2>1, <3>1, <3>2, <3>3, <3>4
  <2> QED BY <2>2, <2>5, <2>6, WordTold
<1> QED BY <1>1, <1>2

\* What is published was approved last.
LEMMA LastWordStep ==
  ASSUME TInv, WordInv, [Next]_vars, Serial, versions' # versions
  PROVE  versions'[Len(versions')].candidate # 0 => lastWord[versions'[Len(versions')].candidate] = "approve"
<1>1. PICK p \in Processes : WriteVersion(p)
  BY DEF Next, vars, Bind, BindDies, Propose, ReviewRead, ReviewWrite, PublishRead, RollbackRead,
         WriteFile, WriteActive, WriteCandidate, Crash
<1> DEFINE c == command[p]
           new == [content |-> c.content, previous |-> c.previous, parent |-> active,
                   candidate |-> c.k, found |-> c.found]
<1>2. c.at = "version" /\ c \in Writing /\ versions' = Append(versions, new)
  BY <1>1, CommandAt DEF WriteVersion, TInv, Writes
<1>3. new \in Version /\ new.candidate = c.k
  BY <1>2 DEF Writing, Version, TInv, TypeOK
<1>4. c.k # 0 => lastWord[c.k] = "approve"
  BY <1>2 DEF WordInv, Told, Writes
<1> HIDE DEF c, new
<1>5. versions'[Len(versions')] = new
  <2>1. versions \in Seq(Version)
    BY DEF TInv, TypeOK
  <2> QED BY <1>2, <1>3, <2>1, Added
<1> QED BY <1>3, <1>4, <1>5

LEMMA WordInit == Init => WordInv
<1> SUFFICES ASSUME Init PROVE WordInv
  OBVIOUS
<1>1. candidates = <<>> /\ command = [p \in Processes |-> Idle]
  BY DEF Init
<1>2. \A p \in Processes : command[p] = Idle
  BY <1>1
<1> QED BY <1>1, <1>2, IdleTold DEF WordInv

-----------------------------------------------------------------------------
(* The files and the versions, with one command at a time, none of which   *)
(* dies: c is what the only command knows at each of its steps.            *)

\* A version has a candidate of its own, which is published, or about to be said to be.
About(c, k) == c.at \in {"active", "candidate"} /\ c.k = k
Unique ==
  \A v, w \in DOMAIN versions :
    (versions[v].candidate = versions[w].candidate /\ versions[v].candidate # 0) => v = w
KnowsCandidates(c) ==
  /\ Unique
  /\ \A v \in DOMAIN versions : LET k == versions[v].candidate IN
       k # 0 => k \in DOMAIN candidates /\ (candidates[k].status = "published" \/ About(c, k))
  /\ c.at \in {"review", "file", "version"} /\ c.k # 0 =>
       \A v \in DOMAIN versions : versions[v].candidate # c.k

\* What is written has something to say.
KnowsContents(c) ==
  /\ \A k \in DOMAIN candidates : candidates[k].preview # Empty
  /\ \A v \in DOMAIN versions : versions[v].content # Empty
  /\ c.at = "review" => c.new.preview # Empty
  /\ c.at \in Writes /\ c.k # 0 => c.copy.preview # Empty
  /\ c.at \in {"file", "version"} => c.content # Empty

\* The last version is the active one, which says what the rule file holds and what it
\* replaced, except while both are written.
Replaces(previous, found) == previous = IF found = Empty THEN Defaults ELSE found
KnowsFiles(c) ==
  /\ IF c.at = "active" THEN c.v = Len(versions) ELSE active = Len(versions)
  /\ c.at # "version" /\ Len(versions) # 0 =>
       LET last == versions[Len(versions)] IN
       file = last.content /\ (~skipped => Replaces(last.previous, last.found))
  /\ c.at = "file" /\ ~skipped => Replaces(c.previous, file)
  /\ c.at = "version" => file = c.content /\ (~skipped => Replaces(c.previous, c.found))

Knows(c) == KnowsCandidates(c) /\ KnowsContents(c) /\ KnowsFiles(c)
OrderInv ==
  Orderly => /\ Quiet => Knows(Idle)
             /\ \A p \in Processes : command[p] # Idle => Knows(command[p])

\* In order, nobody but the process that makes a step is doing anything.
LEMMA OrderAlone ==
  ASSUME TInv, OrderInv, Orderly, NEW p \in Processes, p \in circumstance.processes
  PROVE  Knows(command[p])
<1>1. \A q \in Processes \ {p} : command[q] = Idle
  BY OthersIdle DEF Orderly
<1> QED BY <1>1 DEF OrderInv, Quiet

LEMMA OrderKept ==
  ASSUME TInv, OrderInv, Orderly, NEW p \in Processes, p \in circumstance.processes,
         circumstance' = circumstance, \A q \in Processes \ {p} : command'[q] = command[q],
         Knows(command[p])'
  PROVE  OrderInv'
<1>1. \A q \in Processes \ {p} : command'[q] = Idle
  BY OthersIdle DEF Orderly
<1>2. Idle' = Idle
  BY DEF Idle
<1> QED BY <1>1, <1>2 DEF OrderInv, Quiet

LEMMA OrderTypes ==
  ASSUME TInv
  PROVE  /\ candidates \in Seq(Candidate) /\ versions \in Seq(Version)
         /\ Len(candidates) \in Nat /\ Len(versions) \in Nat
         /\ DOMAIN candidates = 1..Len(candidates) /\ DOMAIN versions = 1..Len(versions)
BY DEF TInv, TypeOK

\* What holds between commands holds of whoever starts or ends one.
LEMMA OrderBind ==
  ASSUME NEW p \in Processes, Knows(command[p]), Bind(p)
  PROVE  Knows(command[p])'
<1>1. UNCHANGED <<file, candidates, versions, active, command, skipped>>
  BY DEF Bind, history
<1> QED BY <1>1 DEF Knows, KnowsCandidates, KnowsContents, KnowsFiles, Unique

LEMMA OrderPropose ==
  ASSUME TInv, TInv', NEW p \in Processes, Knows(command[p]), Propose(p)
  PROVE  Knows(command[p])'
<1>1. /\ UNCHANGED <<file, versions, active, skipped>> /\ command'[p] = Idle /\ command[p] = Idle
  BY DEF Propose, Free
<1>2. Idle.at = "idle"
  BY DEF Idle
<1>3. /\ Len(candidates') = Len(candidates) + 1
      /\ \A j \in 1..Len(candidates) : candidates'[j] = candidates[j]
      /\ candidates'[Len(candidates) + 1].preview # Empty
  BY CandidatesAfterProposal
<1>4. /\ DOMAIN candidates = 1..Len(candidates) /\ Len(candidates) \in Nat
      /\ DOMAIN candidates' = 1..Len(candidates')
  BY OrderTypes DEF TInv, TypeOK
<1>5. KnowsCandidates(command[p])'
  BY <1>1, <1>2, <1>3, <1>4 DEF Knows, KnowsCandidates, Unique, About
<1>6. KnowsContents(command[p])'
  <2>1. \A j \in 1..Len(candidates') : j \in 1..Len(candidates) \/ j = Len(candidates) + 1
    BY <1>3, <1>4
  <2>2. Empty' = Empty
    BY DEF Empty
  <2> QED BY <1>1, <1>2, <1>3, <1>4, <2>1, <2>2 DEF Knows, KnowsContents, Writes
<1>7. KnowsFiles(command[p])'
  BY <1>1, <1>2 DEF Knows, KnowsFiles, Replaces, Empty, Defaults
<1> QED BY <1>5, <1>6, <1>7 DEF Knows

LEMMA ReviewedPreview ==
  ASSUME NEW c \in Candidate, NEW a, NEW decision
  PROVE  Reviewed(c, a, decision).preview = c.preview
<1> DEFINE reviews == Decided(c, a, decision)
           status == IF decision = "reject" THEN "rejected"
                     ELSE IF Cardinality(Approvers(reviews)) >= c.required THEN "approved" ELSE "draft"
<1>1. Reviewed(c, a, decision) = [c EXCEPT !.reviews = reviews, !.status = status]
  BY DEF Reviewed
<1> HIDE DEF reviews, status
<1> QED BY <1>1 DEF Candidate

LEMMA OrderReviewRead ==
  ASSUME TInv, NEW p \in Processes, Knows(command[p]), ReviewRead(p)
  PROVE  Knows(command[p])'
<1>1. /\ UNCHANGED <<file, candidates, versions, active, skipped>> /\ command[p] = Idle
  BY DEF ReviewRead, Free, history
<1>2. PICK a \in Actors, k \in DOMAIN candidates, decision \in {"approve", "reject"} :
        /\ candidates[k].status \in {"draft", "approved", "rejected"}
        /\ Become(p, [at |-> "review", k |-> k, new |-> Reviewed(candidates[k], a, decision),
                      decision |-> decision])
  BY DEF ReviewRead
<1> DEFINE e == [at |-> "review", k |-> k, new |-> Reviewed(candidates[k], a, decision),
                 decision |-> decision]
<1>3. /\ command'[p] = e /\ e.at = "review" /\ e.k = k
      /\ e.new.preview = candidates[k].preview
  <2>1. command'[p] = e
    BY <1>2, Becomes
  <2>2. candidates[k] \in Candidate
    BY OrderTypes
  <2>3. e.at = "review" /\ e.k = k /\ e.new = Reviewed(candidates[k], a, decision)
    OBVIOUS
  <2> HIDE DEF e
  <2> QED BY <2>1, <2>2, <2>3, ReviewedPreview
<1> HIDE DEF e
<1>4. Idle.at = "idle"
  BY DEF Idle
<1>5. KnowsCandidates(command[p])'
  BY <1>1, <1>2, <1>3, <1>4 DEF Knows, KnowsCandidates, Unique, About
<1>6. KnowsContents(command[p])'
  BY <1>1, <1>3, <1>4 DEF Knows, KnowsContents, Writes, Empty
<1>7. KnowsFiles(command[p])'
  BY <1>1, <1>3, <1>4 DEF Knows, KnowsFiles, Replaces, Empty, Defaults
<1> QED BY <1>5, <1>6, <1>7 DEF Knows

LEMMA OrderReviewWrite ==
  ASSUME TInv, TInv', NEW p \in Processes, Knows(command[p]), ReviewWrite(p)
  PROVE  Knows(command[p])'
<1> DEFINE c == command[p]
<1>1. /\ UNCHANGED <<file, versions, active, skipped>> /\ c.at = "review" /\ command'[p] = Idle
  BY Becomes DEF ReviewWrite
<1>2. Idle.at = "idle"
  BY DEF Idle
<1>3. /\ Len(candidates') = Len(candidates) /\ c.k \in 1..Len(candidates)
      /\ \A j \in 1..Len(candidates) : candidates'[j] = IF j = c.k THEN c.new ELSE candidates[j]
  BY CandidatesAfterReview
<1>4. /\ DOMAIN candidates = 1..Len(candidates) /\ Len(candidates) \in Nat
      /\ DOMAIN candidates' = 1..Len(candidates')
  BY OrderTypes DEF TInv, TypeOK
<1>5. KnowsCandidates(c) /\ KnowsContents(c) /\ KnowsFiles(c)
  BY DEF Knows
<1> HIDE DEF c
<1>6. KnowsCandidates(command[p])'
  BY <1>1, <1>2, <1>3, <1>4, <1>5 DEF KnowsCandidates, Unique, About
<1>7. KnowsContents(command[p])'
  BY <1>1, <1>2, <1>3, <1>4, <1>5 DEF KnowsContents, Writes, Empty
<1>8. KnowsFiles(command[p])'
  BY <1>1, <1>2, <1>5 DEF KnowsFiles, Replaces, Empty, Defaults
<1> QED BY <1>6, <1>7, <1>8 DEF Knows

LEMMA OrderPublishRead ==
  ASSUME TInv, NEW p \in Processes, Knows(command[p]), PublishRead(p)
  PROVE  Knows(command[p])'
<1>1. /\ UNCHANGED <<file, candidates, versions, active, skipped>> /\ command[p] = Idle
  BY DEF PublishRead, Free, history
<1>2. PICK a \in Actors, k \in DOMAIN candidates :
        /\ candidates[k].status = "approved"
        /\ Become(p, [at |-> "file", k |-> k, copy |-> candidates[k], content |-> candidates[k].preview,
                      previous |-> Current, found |-> Torn, v |-> 0])
  BY DEF PublishRead
<1> DEFINE e == [at |-> "file", k |-> k, copy |-> candidates[k], content |-> candidates[k].preview,
                 previous |-> Current, found |-> Torn, v |-> 0]
<1>3. /\ command'[p] = e /\ e.at = "file" /\ e.k = k /\ e.copy = candidates[k]
      /\ e.content = candidates[k].preview /\ e.previous = Current
  BY <1>2, Becomes
<1> HIDE DEF e
<1>4. Idle.at = "idle"
  BY DEF Idle
<1>5. KnowsCandidates(command[p])'
  BY <1>1, <1>2, <1>3, <1>4 DEF Knows, KnowsCandidates, Unique, About
<1>6. KnowsContents(command[p])'
  BY <1>1, <1>3, <1>4 DEF Knows, KnowsContents, Writes, Empty
<1>7. KnowsFiles(command[p])'
  <2>1. Replaces(Current, file)
    BY DEF Replaces, Current
  <2> QED BY <1>1, <1>3, <1>4, <2>1 DEF Knows, KnowsFiles, Replaces, Empty, Defaults
<1> QED BY <1>5, <1>6, <1>7 DEF Knows

\* Who rolls the active version back has read what the rule file holds.
LEMMA OrderRollbackRead ==
  ASSUME TInv, NEW p \in Processes, Knows(command[p]), RollbackRead(p)
  PROVE  Knows(command[p])'
<1>1. /\ UNCHANGED <<file, candidates, versions, active>> /\ command[p] = Idle
  BY DEF RollbackRead, Free
<1>2. PICK a \in Actors, v \in DOMAIN versions :
        /\ versions[v].previous # Empty
        /\ Become(p, [at |-> "file", k |-> 0, copy |-> NoCopy, content |-> versions[v].previous,
                      previous |-> versions[v].content, found |-> Torn, v |-> 0])
        /\ skipped' = (skipped \/ v # active)
  BY DEF RollbackRead
<1> DEFINE e == [at |-> "file", k |-> 0, copy |-> NoCopy, content |-> versions[v].previous,
                 previous |-> versions[v].content, found |-> Torn, v |-> 0]
<1>3. /\ command'[p] = e /\ e.at = "file" /\ e.k = 0 /\ e.content = versions[v].previous
      /\ e.previous = versions[v].content
  BY <1>2, Becomes
<1> HIDE DEF e
<1>4. Idle.at = "idle"
  BY DEF Idle
<1>5. KnowsCandidates(command[p])'
  BY <1>1, <1>3, <1>4 DEF Knows, KnowsCandidates, Unique, About
<1>6. KnowsContents(command[p])'
  BY <1>1, <1>2, <1>3, <1>4 DEF Knows, KnowsContents, Writes, Empty
<1>7. KnowsFiles(command[p])'
  <2>1. KnowsFiles(Idle) /\ versions[v].content # Empty
    BY <1>1 DEF Knows, KnowsContents
  <2>2. DOMAIN versions = 1..Len(versions) /\ Len(versions) \in Nat
    BY OrderTypes
  <2>3. ~skipped' => ~skipped /\ v = Len(versions)
    BY <1>2, <1>4, <2>1 DEF KnowsFiles
  <2>4. ~skipped' => Replaces(versions[v].content, file)
    BY <1>4, <2>1, <2>2, <2>3 DEF KnowsFiles, Replaces
  <2> QED BY <1>1, <1>3, <1>4, <2>1, <2>3, <2>4 DEF KnowsFiles, Replaces, Empty, Defaults
<1> QED BY <1>5, <1>6, <1>7 DEF Knows

LEMMA OrderWriteFile ==
  ASSUME TInv, NEW p \in Processes, Knows(command[p]), WriteFile(p)
  PROVE  Knows(command[p])'
<1> DEFINE c == command[p]
           e == [c EXCEPT !.at = "version", !.found = file]
<1>1. /\ UNCHANGED <<candidates, versions, active, skipped>> /\ c.at = "file" /\ c \in Writing
      /\ file' = c.content /\ Become(p, e)
  BY CommandAt DEF WriteFile, history, TInv, Writes
<1>2. /\ e.at = "version" /\ e.k = c.k /\ e.copy = c.copy /\ e.content = c.content
      /\ e.previous = c.previous /\ e.found = file
  BY <1>1 DEF Writing
<1>3. command'[p] = e
  BY <1>1, Becomes
<1>4. KnowsCandidates(c) /\ KnowsContents(c) /\ KnowsFiles(c)
  BY DEF Knows
<1> HIDE DEF c, e
<1>5. KnowsCandidates(command[p])'
  BY <1>1, <1>2, <1>3, <1>4 DEF KnowsCandidates, Unique, About
<1>6. KnowsContents(command[p])'
  BY <1>1, <1>2, <1>3, <1>4 DEF KnowsContents, Writes, Empty
<1>7. KnowsFiles(command[p])'
  BY <1>1, <1>2, <1>3, <1>4 DEF KnowsFiles, Replaces, Empty, Defaults
<1> QED BY <1>5, <1>6, <1>7 DEF Knows

LEMMA OrderWriteVersion ==
  ASSUME TInv, TInv', NEW p \in Processes, Knows(command[p]), WriteVersion(p)
  PROVE  Knows(command[p])'
<1> DEFINE c == command[p]
           e == [c EXCEPT !.at = "active", !.v = Len(versions) + 1]
           new == [content |-> c.content, previous |-> c.previous, parent |-> active,
                   candidate |-> c.k, found |-> c.found]
<1>1. /\ UNCHANGED <<file, candidates, active, skipped>> /\ c.at = "version" /\ c \in Writing
      /\ versions' = Append(versions, new) /\ Become(p, e)
  BY CommandAt DEF WriteVersion, history, TInv, Writes
<1>2. /\ e.at = "active" /\ e.k = c.k /\ e.copy = c.copy /\ e.v = Len(versions) + 1
  BY <1>1 DEF Writing
<1>3. command'[p] = e
  BY <1>1, Becomes
<1>4. KnowsCandidates(c) /\ KnowsContents(c) /\ KnowsFiles(c)
  BY DEF Knows
<1>5. c.k # 0 => c.k \in 1..Len(candidates)
  BY <1>1 DEF TInv, CommandsRefer, RefersTo, Writes
<1>6. new \in Version /\ new.content = c.content /\ new.previous = c.previous
      /\ new.candidate = c.k /\ new.found = c.found
  BY <1>1 DEF Writing, Version, TInv, TypeOK
<1> HIDE DEF c, e, new
<1>7. /\ Len(versions') = Len(versions) + 1 /\ versions'[Len(versions) + 1] = new
      /\ \A v \in 1..Len(versions) : versions'[v] = versions[v]
  BY <1>1, <1>6, Added, OrderTypes
<1>8. /\ Len(versions) \in Nat /\ DOMAIN versions = 1..Len(versions)
      /\ DOMAIN versions' = 1..Len(versions') /\ DOMAIN candidates = 1..Len(candidates)
  BY OrderTypes DEF TInv, TypeOK
<1>9. \A v \in DOMAIN versions' : v \in DOMAIN versions \/ v = Len(versions) + 1
  BY <1>7, <1>8
<1>10. KnowsCandidates(command[p])'
  <2>1. \A v \in DOMAIN versions : c.k # 0 => versions[v].candidate # c.k
    BY <1>1, <1>4 DEF KnowsCandidates
  <2>2. Unique'
    BY <1>4, <1>6, <1>7, <1>8, <1>9, <2>1 DEF KnowsCandidates, Unique
  <2>3. ASSUME NEW v \in DOMAIN versions', versions'[v].candidate # 0
        PROVE  /\ versions'[v].candidate \in DOMAIN candidates
               /\ candidates[versions'[v].candidate].status = "published" \/ About(e, versions'[v].candidate)
    <3>1. CASE v \in DOMAIN versions
      BY <1>1, <1>4, <1>7, <1>8, <2>3, <3>1 DEF KnowsCandidates, About
    <3>2. CASE v = Len(versions) + 1
      BY <1>2, <1>5, <1>6, <1>7, <1>8, <2>3, <3>2 DEF About
    <3> QED BY <1>9, <3>1, <3>2
  <2> QED BY <1>1, <1>2, <1>3, <2>2, <2>3 DEF KnowsCandidates, About
<1>11. KnowsContents(command[p])'
  BY <1>1, <1>2, <1>3, <1>4, <1>6, <1>7, <1>8, <1>9 DEF KnowsContents, Writes, Empty
<1>12. KnowsFiles(command[p])'
  BY <1>1, <1>2, <1>3, <1>4, <1>6, <1>7, <1>8 DEF KnowsFiles, Replaces, Empty, Defaults
<1> QED BY <1>10, <1>11, <1>12 DEF Knows

LEMMA OrderWriteActive ==
  ASSUME TInv, NEW p \in Processes, Knows(command[p]), WriteActive(p)
  PROVE  Knows(command[p])'
<1> DEFINE c == command[p]
           d == [c EXCEPT !.at = "candidate"]
           e == IF c.k = 0 THEN Idle ELSE d
<1>1. /\ UNCHANGED <<file, candidates, versions, skipped>> /\ c.at = "active" /\ c \in Writing
      /\ active' = c.v /\ Become(p, e)
  BY CommandAt DEF WriteActive, history, TInv, Writes
<1>2. d.at = "candidate" /\ d.k = c.k /\ d.copy = c.copy
  BY <1>1 DEF Writing
<1>3. Idle.at = "idle"
  BY DEF Idle
<1> HIDE DEF d
<1>4. \/ c.k = 0 /\ e.at = "idle"
      \/ c.k # 0 /\ e.at = "candidate" /\ e.k = c.k /\ e.copy = c.copy
  BY <1>2, <1>3
<1>5. command'[p] = e
  BY <1>1, Becomes
<1>6. KnowsCandidates(c) /\ KnowsContents(c) /\ KnowsFiles(c)
  BY DEF Knows
<1> HIDE DEF c, e
<1>7. KnowsCandidates(command[p])'
  BY <1>1, <1>4, <1>5, <1>6 DEF KnowsCandidates, Unique, About
<1>8. KnowsContents(command[p])'
  BY <1>1, <1>4, <1>5, <1>6 DEF KnowsContents, Writes, Empty
<1>9. KnowsFiles(command[p])'
  BY <1>1, <1>4, <1>5, <1>6 DEF KnowsFiles, Replaces, Empty, Defaults
<1> QED BY <1>7, <1>8, <1>9 DEF Knows

LEMMA OrderWriteCandidate ==
  ASSUME TInv, TInv', NEW p \in Processes, Knows(command[p]), WriteCandidate(p)
  PROVE  Knows(command[p])'
<1> DEFINE c == command[p]
           new == [c.copy EXCEPT !.status = "published"]
<1>1. /\ UNCHANGED <<file, versions, active, skipped>> /\ c.at = "candidate" /\ command'[p] = Idle
  BY Becomes DEF WriteCandidate, history
<1>2. Idle.at = "idle"
  BY DEF Idle
<1>3. /\ Len(candidates') = Len(candidates) /\ c.k \in 1..Len(candidates) /\ c.copy \in Candidate
      /\ \A j \in 1..Len(candidates) : candidates'[j] = IF j = c.k THEN new ELSE candidates[j]
  BY CandidatesAfterPublication
<1>4. new.status = "published" /\ new.preview = c.copy.preview
  BY <1>3 DEF Candidate
<1>5. /\ DOMAIN candidates = 1..Len(candidates) /\ Len(candidates) \in Nat
      /\ DOMAIN candidates' = 1..Len(candidates')
  BY OrderTypes DEF TInv, TypeOK
<1>6. KnowsCandidates(c) /\ KnowsContents(c) /\ KnowsFiles(c)
  BY DEF Knows
<1> HIDE DEF c, new
<1>7. KnowsCandidates(command[p])'
  BY <1>1, <1>2, <1>3, <1>4, <1>5, <1>6 DEF KnowsCandidates, Unique, About
<1>8. KnowsContents(command[p])'
  BY <1>1, <1>2, <1>3, <1>4, <1>5, <1>6 DEF KnowsContents, Writes, Empty
<1>9. KnowsFiles(command[p])'
  BY <1>1, <1>2, <1>6 DEF KnowsFiles, Replaces, Empty, Defaults
<1> QED BY <1>7, <1>8, <1>9 DEF Knows

LEMMA OrderStep == TInv /\ OrderInv /\ [Next]_vars => OrderInv'
<1> SUFFICES ASSUME TInv, OrderInv, [Next]_vars PROVE OrderInv'
  OBVIOUS
<1>1. CASE UNCHANGED vars
  BY <1>1 DEF vars, history, OrderInv, Orderly, Serial, Quiet, Knows, KnowsCandidates, KnowsContents,
              KnowsFiles, Unique
<1>2. CASE Next
  <2>1. PICK p \in Processes :
          Bind(p) \/ BindDies(p) \/ Propose(p) \/ ReviewRead(p) \/ ReviewWrite(p) \/ PublishRead(p)
            \/ RollbackRead(p) \/ WriteFile(p) \/ WriteVersion(p) \/ WriteActive(p)
            \/ WriteCandidate(p) \/ Crash(p)
    BY <1>2 DEF Next
  <2>2. /\ circumstance' = circumstance /\ p \in circumstance.processes
        /\ \A q \in Processes \ {p} : command'[q] = command[q]
    BY <2>1, OneMoves
  <2> SUFFICES ASSUME Orderly PROVE OrderInv'
    BY <2>2 DEF OrderInv, Orderly, Serial
  <2>3. ~BindDies(p) /\ ~Crash(p)
    BY DEF Orderly, BindDies, Crash
  <2>4. Knows(command[p]) /\ TInv'
    BY <1>2, <2>2, OrderAlone, TypeStep
  <2>5. Knows(command[p])'
    BY <2>1, <2>3, <2>4, OrderBind, OrderPropose, OrderReviewRead, OrderReviewWrite, OrderPublishRead,
       OrderRollbackRead, OrderWriteFile, OrderWriteVersion, OrderWriteActive, OrderWriteCandidate
  <2> QED BY <2>2, <2>5, OrderKept
<1> QED BY <1>1, <1>2

LEMMA OrderInit == Init => OrderInv
<1> SUFFICES ASSUME Init PROVE OrderInv
  OBVIOUS
<1>1. candidates = <<>> /\ versions = <<>> /\ active = 0 /\ command = [p \in Processes |-> Idle]
  BY DEF Init
<1>2. Idle.at = "idle" /\ \A p \in Processes : command[p] = Idle
  BY <1>1 DEF Idle
<1>3. DOMAIN candidates = {} /\ DOMAIN versions = {} /\ Len(versions) = 0
  BY <1>1
<1>4. KnowsCandidates(Idle) /\ KnowsContents(Idle) /\ KnowsFiles(Idle)
  BY <1>1, <1>2, <1>3 DEF KnowsCandidates, KnowsContents, KnowsFiles, Unique, Writes
<1> QED BY <1>2, <1>4 DEF OrderInv, Knows

\* Between commands.
LEMMA OrderSays == TInv /\ OrderInv => PublishedOnce /\ FileMatchesActive /\ UndoRestores
<1> SUFFICES ASSUME TInv, OrderInv, Orderly, Quiet
             PROVE  /\ Unique
                    /\ active # 0 => file = versions[active].content
                    /\ active # 0 /\ ~skipped =>
                         Replaces(versions[active].previous, versions[active].found)
  BY DEF PublishedOnce, FileMatchesActive, UndoRestores, Unique, Replaces
<1>1. KnowsCandidates(Idle) /\ KnowsFiles(Idle)
  BY DEF OrderInv, Knows
<1>2. Idle.at = "idle"
  BY DEF Idle
<1> QED BY <1>1, <1>2 DEF KnowsCandidates, KnowsFiles

-----------------------------------------------------------------------------

RInv == TInv /\ GateInv /\ WordInv /\ OrderInv

LEMMA RInvHolds == Spec => []RInv
<1>1. Init => RInv
  BY InitType, GateInit, WordInit, OrderInit DEF RInv
<1>2. RInv /\ [Next]_vars => RInv'
  BY TypeStep, GateStep, WordStep, OrderStep DEF RInv
<1> QED BY <1>1, <1>2, PTL DEF Spec

\* What counts as approved or was published has its approvals, however commands overlap
\* and wherever one dies; with one command at a time nothing is published whose last
\* review rejected it, and if none dies a candidate is published once
\* (approve_rule_change_candidate, publish_rule_change_candidate).
THEOREM PublishedOnlyAsReviewed == Spec => PublishedAsReviewed
<1>1. RInv => ApprovedMeansApprovals /\ PublishedOnce
  BY OrderSays DEF RInv, GateInv, Approvals, ApprovedMeansApprovals
<1>2. RInv /\ [Next]_vars =>
        [ (Serial /\ versions' # versions)
            => LET k == versions'[Len(versions')].candidate
               IN  k # 0 => lastWord[k] = "approve" ]_vars
  BY LastWordStep DEF RInv
<1>3. Spec => [](ApprovedMeansApprovals /\ PublishedOnce)
  BY <1>1, RInvHolds, PTL
<1>4. Spec => LastWordDecides
  BY <1>2, RInvHolds, PTL DEF Spec, LastWordDecides
<1> QED BY <1>3, <1>4, PTL DEF PublishedAsReviewed

\* Once the rule file validates it goes on to, unless a death leaves it torn; with one
\* command at a time, none of which dies, it holds what the active version says, and
\* rolling that back gives the rules in force before it
\* (publish_rule_change_candidate, rollback_rule_version).
THEOREM FilesFollow == Spec => FilesFollowVersions
<1>1. RInv => FileMatchesActive /\ UndoRestores
  BY OrderSays DEF RInv
<1>2. RInv /\ [Next]_vars => [ (file # Torn /\ Valid(file)) => (file' = Torn \/ Valid(file')) ]_vars
  BY ValidStep DEF RInv
<1>3. Spec => [](FileMatchesActive /\ UndoRestores)
  BY <1>1, RInvHolds, PTL
<1>4. Spec => OnceValidAlwaysValid
  BY <1>2, RInvHolds, PTL DEF Spec, OnceValidAlwaysValid
<1> QED BY <1>3, <1>4, PTL DEF FilesFollowVersions
=============================================================================
