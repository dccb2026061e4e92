--------------------------- MODULE RuleGovernance ---------------------------
(***************************************************************************)
(* RuleGovernanceService: candidates for a change of the analysis rules,   *)
(* their review, publication, versions and rollback, and the permissions   *)
(* of the actors, all of them files beside the rule file.  Every command   *)
(* is a process of its own and nothing is locked: a command reads, decides *)
(* and then writes one file after the other.                               *)
(*                                                                         *)
(* A rule file gives values to fields (sections and their keys are one     *)
(* name); a file that cannot be parsed is Torn.  A missing file and an     *)
(* empty object read the same and are Empty.                               *)
(***************************************************************************)
EXTENDS Integers, FiniteSets, Sequences

CONSTANTS
  Processes,       \* commands running at the same time
  Actors,          \* the people they run for
  Fields, Values,  \* editable fields, and what a file may have for them
  Given,           \* the values a patch may give
  Wrong,           \* the values that do not validate
  Required,        \* required_approvals a candidate may ask for
  MaxCandidates, MaxVersions,
  Circumstances    \* the commands there are, may one die, what the files hold at first,
                   \* how many bindings, candidates and versions there may be

Absent == "absent"
Default == "default"
Torn == [torn |-> TRUE]
Nobody == "none"

\* A patch gives each of its fields a value.
ASSUME ValueAssumption ==
  /\ {Absent, Default} \cup Given \cup Wrong \subseteq Values
  /\ Default \notin Wrong /\ Absent \notin Wrong \cup Given
ASSUME CountAssumption ==
  MaxCandidates \in Nat /\ MaxVersions \in Nat /\ Required \subseteq Nat \ {0}
ASSUME ActorAssumption == "cli" \in Actors /\ IsFiniteSet(Actors)

VARIABLES
  circumstance,  \* the same throughout
  file,          \* the rule file
  candidates,    \* the candidates' files, by number
  versions,      \* the versions' files, by number
  active,        \* active_version.json
  bindings,      \* permissions.json
  binds,         \* how often it was written
  command,       \* what each process is doing, with what it has read
  lastWord,      \* history: the decision made last about each candidate
  skipped        \* history: was a version rolled back that was not the active one?

history == <<lastWord, skipped>>
vars == <<circumstance, file, candidates, versions, active, bindings, binds, command, history>>

Permissions == {"propose", "approve", "publish", "rollback", "bind_permission"}
Roles == {"admin", "publisher", "reviewer", "author", "viewer"}

\* _ROLE_PERMISSIONS; a rule_admin may do what an admin may.
Granted(role) ==
  CASE role = "admin" -> Permissions
    [] role = "publisher" -> Permissions \ {"bind_permission"}
    [] role = "reviewer" -> {"approve"}
    [] role = "author" -> {"propose"}
    [] role = "viewer" -> {}

\* _assert_rule_permission: before anybody is bound, the command line may do everything.
Allowed(a, permission) ==
  IF bindings[a] = Nobody THEN a = "cli" /\ \A b \in Actors : bindings[b] = Nobody
                          ELSE permission \in Granted(bindings[a])

Rules == [Fields -> Values]
Empty == [f \in Fields |-> Absent]
\* default_analysis_rule_config: what is in force as long as no file says otherwise.
Defaults == [f \in Fields |-> Default]

\* The sections' validators: a field may be absent, but what is there has its type.
Errors(rules) == {f \in Fields : rules[f] \in Wrong}
Valid(rules) == Errors(rules) = {}

\* What an edit or a publication starts from: the file, or the rules in force if it has
\* nothing to say.  A torn file is no object either, but reading the rules in force raises.
Readable == file # Torn
Current == IF file = Empty THEN Defaults ELSE file

\* _merge_rule_patch.
Merge(rules, patch) == [f \in Fields |-> IF f \in DOMAIN patch THEN patch[f] ELSE rules[f]]
Patches == UNION {[s -> Given] : s \in (SUBSET Fields) \ {{}}}

\* The decision of each actor who reviewed a candidate; a new one replaces the earlier.
Reviews == UNION {[S -> {"approve", "reject"}] : S \in SUBSET Actors}
Approvers(reviews) == {a \in DOMAIN reviews : reviews[a] = "approve"}
Decided(c, a, decision) ==
  [b \in DOMAIN c.reviews \cup {a} |-> IF b = a THEN decision ELSE c.reviews[b]]

\* Mutant: enough approvals make a candidate approved, whatever the decision is.
ReviewedDespite(c, a, decision) ==
  LET reviews == Decided(c, a, decision)
  IN  [c EXCEPT !.reviews = reviews,
                !.status = IF Cardinality(Approvers(reviews)) >= c.required THEN "approved"
                           ELSE IF decision = "reject" THEN "rejected" ELSE "draft"]

\* A candidate after one more decision: the decision made last may reject it, or let it
\* be approved although somebody else's rejection stands.
Reviewed(c, a, decision) ==
  LET reviews == Decided(c, a, decision)
  IN  [c EXCEPT !.reviews = reviews,
                !.status = IF decision = "reject" THEN "rejected"
                           ELSE IF Cardinality(Approvers(reviews)) >= c.required THEN "approved"
                           ELSE "draft"]

\* A torn candidate cannot be found any more.
Candidate == [status : {"draft", "approved", "rejected", "published", "torn"},
              preview : Rules, required : Required, reviews : Reviews]

\* found is history: what the rule file held when the version was written over it.
Version == [content : Rules, previous : Rules, parent : 0..MaxVersions,
            candidate : 0..MaxCandidates, found : Rules \cup {Torn}]

NoCopy == [status |-> "torn"]
Idle == [at |-> "idle"]
ASSUME CircumstanceAssumption ==
  \A c \in Circumstances :
    /\ c.processes \subseteq Processes /\ c.deaths \in BOOLEAN
    /\ c.source \in Rules /\ c.bound \in [Actors -> Roles \cup {Nobody}]
    /\ c.binds \in Nat /\ c.room \in 0..MaxCandidates /\ c.publications \in 0..MaxVersions
\* k: the candidate under work (0 in a rollback); copy: as it was read; v: the version.
Command ==
  {Idle}
  \cup [at : {"review"}, k : 1..MaxCandidates, new : Candidate, decision : {"approve", "reject"}]
  \cup [at : {"file", "version", "active", "candidate"}, k : 0..MaxCandidates,
        copy : Candidate \cup {NoCopy}, content : Rules, previous : Rules,
        found : Rules \cup {Torn}, v : 0..MaxVersions]
Quiet == \A p \in Processes : command[p] = Idle
Free(p) == p \in circumstance.processes /\ command[p] = Idle
\* Is there one command at a time?
Serial == \A p, q \in circumstance.processes : p = q

Init ==
  /\ circumstance \in Circumstances
  /\ file = circumstance.source
  /\ candidates = <<>>
  /\ versions = <<>>
  /\ active = 0
  /\ bindings = circumstance.bound
  /\ binds = 0
  /\ command = [p \in Processes |-> Idle]
  /\ lastWord = <<>>
  /\ skipped = FALSE

Become(p, c) == command' = [command EXCEPT ![p] = c]

-----------------------------------------------------------------------------
\* bind_rule_permission: the list is read, changed and written whole.
Bind(p) ==
  /\ Free(p) /\ binds < circumstance.binds
  /\ \E by \in Actors, a \in Actors, role \in Roles :
       /\ Allowed(by, "bind_permission")
       /\ bindings' = [bindings EXCEPT ![a] = role]
  /\ binds' = binds + 1
  /\ UNCHANGED <<circumstance, file, candidates, versions, active, command, history>>

\* save_rule_change_candidate: the patched rules have to validate; the candidate keeps
\* them whole, in a new file.
Propose(p) ==
  /\ Free(p) /\ Len(candidates) < circumstance.room
  /\ \E a \in Actors : Allowed(a, "propose")
  /\ Readable
  /\ \E patch \in Patches, n \in Required :
       /\ Valid(Merge(Current, patch))
       /\ candidates' = Append(candidates,
            [status |-> "draft", preview |-> Merge(Current, patch), required |-> n,
             reviews |-> [a \in {} |-> "reject"]])
  /\ lastWord' = Append(lastWord, "none")
  /\ UNCHANGED <<circumstance, file, versions, active, bindings, binds, command, skipped>>

\* approve_rule_change_candidate: read, decide, and write the whole candidate.
ReviewRead(p) ==
  /\ Free(p)
  /\ \E a \in Actors, k \in DOMAIN candidates, decision \in {"approve", "reject"} :
       /\ Allowed(a, "approve")
       /\ candidates[k].status \in {"draft", "approved", "rejected"}
       /\ Become(p, [at |-> "review", k |-> k, new |-> Reviewed(candidates[k], a, decision),
                     decision |-> decision])
  /\ UNCHANGED <<circumstance, file, candidates, versions, active, bindings, binds, history>>

ReviewWrite(p) ==
  /\ command[p].at = "review"
  /\ candidates' = [candidates EXCEPT ![command[p].k] = command[p].new]
  /\ lastWord' = [lastWord EXCEPT ![command[p].k] = command[p].decision]
  /\ Become(p, Idle)
  /\ UNCHANGED <<circumstance, file, versions, active, bindings, binds, skipped>>

\* publish_rule_change_candidate: what the candidate previewed becomes the rule file.
PublishRead(p) ==
  /\ Free(p) /\ Len(versions) < circumstance.publications
  /\ \E a \in Actors, k \in DOMAIN candidates :
       /\ Allowed(a, "publish")
       /\ candidates[k].status = "approved"
       /\ Readable /\ Valid(candidates[k].preview)
       /\ Become(p, [at |-> "file", k |-> k, copy |-> candidates[k],
                     content |-> candidates[k].preview, previous |-> Current, found |-> Torn, v |-> 0])
  /\ UNCHANGED <<circumstance, file, candidates, versions, active, bindings, binds, history>>

\* Mutant: the new version remembers what it wrote, not what it replaced.
RollbackForgetful(p) ==
  /\ Free(p) /\ Len(versions) < circumstance.publications
  /\ \E a \in Actors, v \in DOMAIN versions :
       /\ Allowed(a, "rollback")
       /\ versions[v].previous # Empty /\ Valid(versions[v].previous)
       /\ Become(p, [at |-> "file", k |-> 0, copy |-> NoCopy, content |-> versions[v].previous,
                     previous |-> versions[v].previous, found |-> Torn, v |-> 0])
       /\ skipped' = (skipped \/ v # active)
  /\ UNCHANGED <<circumstance, file, candidates, versions, active, bindings, binds, lastWord>>

\* rollback_rule_version, of any version: what it replaced becomes the rule file; the
\* rule file itself is not read.
RollbackRead(p) ==
  /\ Free(p) /\ Len(versions) < circumstance.publications
  /\ \E a \in Actors, v \in DOMAIN versions :
       /\ Allowed(a, "rollback")
       /\ versions[v].previous # Empty /\ Valid(versions[v].previous)
       /\ Become(p, [at |-> "file", k |-> 0, copy |-> NoCopy, content |-> versions[v].previous,
                     previous |-> versions[v].content, found |-> Torn, v |-> 0])
       /\ skipped' = (skipped \/ v # active)
  /\ UNCHANGED <<circumstance, file, candidates, versions, active, bindings, binds, lastWord>>

\* The rule file is written first,
WriteFile(p) ==
  /\ command[p].at = "file"
  /\ file' = command[p].content
  /\ Become(p, [command[p] EXCEPT !.at = "version", !.found = file])
  /\ UNCHANGED <<circumstance, candidates, versions, active, bindings, binds, history>>

\* then the version, which names the active version as its predecessor,
WriteVersion(p) ==
  LET c == command[p] IN
  /\ c.at = "version" /\ Len(versions) < circumstance.publications
  /\ versions' = Append(versions,
       [content |-> c.content, previous |-> c.previous, parent |-> active,
        candidate |-> c.k, found |-> c.found])
  /\ Become(p, [c EXCEPT !.at = "active", !.v = Len(versions) + 1])
  /\ UNCHANGED <<circumstance, file, candidates, active, bindings, binds, history>>

\* then the active version,
WriteActive(p) ==
  LET c == command[p] IN
  /\ c.at = "active"
  /\ active' = c.v
  /\ Become(p, IF c.k = 0 THEN Idle ELSE [c EXCEPT !.at = "candidate"])
  /\ UNCHANGED <<circumstance, file, candidates, versions, bindings, binds, history>>

\* and the candidate as it was read, but for its status.
WriteCandidate(p) ==
  LET c == command[p] IN
  /\ c.at = "candidate"
  /\ candidates' = [candidates EXCEPT ![c.k] = [c.copy EXCEPT !.status = "published"]]
  /\ Become(p, Idle)
  /\ UNCHANGED <<circumstance, file, versions, active, bindings, binds, history>>

\* The process dies before a write, or in the middle of it: a file is emptied first.  A
\* torn version cannot be found, a torn list of permissions reads as no list at all.
Crash(p) ==
  /\ circumstance.deaths
  /\ command[p] # Idle
  /\ \/ UNCHANGED <<file, candidates, versions, active>>
     \/ /\ command[p].at = "file" /\ file' = Torn
        /\ UNCHANGED <<candidates, versions, active>>
     \/ /\ command[p].at = "active" /\ active' = 0
        /\ UNCHANGED <<file, candidates, versions>>
     \/ /\ command[p].at \in {"review", "candidate"}
        /\ candidates' = [candidates EXCEPT ![command[p].k].status = "torn"]
        /\ UNCHANGED <<file, versions, active>>
  /\ Become(p, Idle)
  /\ UNCHANGED <<circumstance, bindings, binds, history>>

BindDies(p) ==
  /\ circumstance.deaths
  /\ Free(p) /\ binds < circumstance.binds
  /\ \E by \in Actors : Allowed(by, "bind_permission")
  /\ bindings' = [a \in Actors |-> Nobody]
  /\ binds' = binds + 1
  /\ UNCHANGED <<circumstance, file, candidates, versions, active, command, history>>

Next ==
  \E p \in Processes :
    \/ Bind(p) \/ BindDies(p) \/ Propose(p)
    \/ ReviewRead(p) \/ ReviewWrite(p)
    \/ PublishRead(p) \/ RollbackRead(p)
    \/ WriteFile(p) \/ WriteVersion(p) \/ WriteActive(p) \/ WriteCandidate(p)
    \/ Crash(p)

Spec == Init /\ [][Next]_vars

-----------------------------------------------------------------------------
(* Properties.                                                             *)

Orderly == Serial /\ ~circumstance.deaths

\* The files hold what they are to hold.
TypeOK ==
  /\ circumstance \in Circumstances
  /\ file \in Rules \cup {Torn}
  /\ candidates \in Seq(Candidate) /\ Len(candidates) <= MaxCandidates
  /\ versions \in Seq(Version) /\ Len(versions) <= MaxVersions
  /\ active \in 0..MaxVersions
  /\ bindings \in [Actors -> Roles \cup {Nobody}]
  /\ binds \in 0..circumstance.binds
  /\ command \in [Processes -> Command]
  /\ lastWord \in Seq({"none", "approve", "reject"}) /\ Len(lastWord) = Len(candidates)
  /\ skipped \in BOOLEAN

\* However commands overlap, and wherever one dies: a candidate that counts as approved,
\* or was published, has the approvals it asked for, of as many people, among the
\* decisions it keeps.
ApprovedMeansApprovals ==
  \A k \in DOMAIN candidates :
    candidates[k].status \in {"approved", "published"} =>
      Cardinality(Approvers(candidates[k].reviews)) >= candidates[k].required

\* One command at a time: nothing is published whose last review rejected it, even if
\* commands die on the way.
LastWordDecides ==
  [][ (Serial /\ versions' # versions)
        => LET k == versions'[Len(versions')].candidate
           IN  k # 0 => lastWord[k] = "approve" ]_vars

\* One command at a time, and none dies: between commands the rule file is what the active
\* version says.
FileMatchesActive ==
  (Orderly /\ Quiet /\ active # 0) => file = versions[active].content

\* One command at a time, and none dies: as long as nothing but the active version is ever
\* rolled back, rolling it back gives the rules that were in force before it.
UndoRestores ==
  (Orderly /\ Quiet /\ active # 0 /\ ~skipped) =>
    versions[active].previous = IF versions[active].found = Empty THEN Defaults
                                ELSE versions[active].found

\* One command at a time, and none dies: a candidate is published once.
PublishedOnce ==
  (Orderly /\ Quiet) =>
    \A v, w \in DOMAIN versions :
      (versions[v].candidate = versions[w].candidate /\ versions[v].candidate # 0) => v = w

\* However commands overlap, and wherever one dies: once the rule file validates, a later
\* file validates, unless a death left it torn.
OnceValidAlwaysValid ==
  [][ (file # Torn /\ Valid(file)) => (file' = Torn \/ Valid(file')) ]_vars

\* What is published has its approvals, was not rejected last, and is published once
\* (review_candidate, publish_candidate).
PublishedAsReviewed == [](ApprovedMeansApprovals /\ PublishedOnce) /\ LastWordDecides

\* The rule file is what the active version says, rolling it back restores what it
\* replaced, and a valid file is followed by valid ones (publish_candidate,
\* rollback_version).
FilesFollowVersions == [](FileMatchesActive /\ UndoRestores) /\ OnceValidAlwaysValid
=============================================================================
