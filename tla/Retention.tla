------------------------------- MODULE Retention -------------------------------
(***************************************************************************)
(* What clears the runtime directory: RuntimeLifecycleService.cleanup over *)
(* the children of its categories, enforce_evidence_retention over the     *)
(* files below tasks/, apply_retention over the analysis snapshots, which  *)
(* are children of a category too.  Each makes a plan and then deletes one *)
(* entry after the other, while runs write and snapshots are made.         *)
(*                                                                         *)
(* A scan is one step, and so is the removal of a tree.  Time is in days.  *)
(* The directory of a task has the time of its creation: a run writes      *)
(* further down.  Nothing is locked, and a command may die between steps.  *)
(***************************************************************************)
EXTENDS Integers, Sequences, FiniteSets
LOCAL INSTANCE SequencesExt
LOCAL INSTANCE FiniteSetsExt
LOCAL INSTANCE Functions
LOCAL INSTANCE TLC

CONSTANTS
  Processes,      \* commands running at the same time
  Paths,          \* files that may be there
  Place,          \* of each: its category, the child of the category it is in or is, the
                  \* directories below that, and whether its name ends like a trace
  DefaultRules,   \* of each kind of evidence
  Circumstances   \* who runs, may one die, what is written and asked for, how often, the
                  \* configured rules and the last day

Kinds == {"report", "logs", "monitoring", "artifacts", "trace", "temp"}
Unlimited == -1
Rule == [days : Nat \cup {Unlimited}, cap : Nat \cup {Unlimited}, protected : BOOLEAN]
\* _DEFAULT_FALLBACK.
Fallback == [days |-> Unlimited, cap |-> Unlimited, protected |-> TRUE]
PROTECTED_FILES == {"webhooks.json", "sessions.json", "actors.json"}
KeptNames == PROTECTED_FILES \cup {"latest"}
Child(p) == [category |-> Place[p].category, name |-> Place[p].child]
Children == {Child(p) : p \in Paths}
SnapshotIds(c) == 1..c.snapshots
Filter == [kind : {"any", "review", "replay"}, count : Nat \cup {Unlimited},
           days : Nat \cup {Unlimited}]

ConstantsOK ==
  /\ \A p \in Paths : Place[p].trace \in BOOLEAN /\ Place[p].inside \in Seq(STRING)
  /\ DefaultRules \in [Kinds -> Rule]
  /\ \A c \in Circumstances :
       /\ c.processes \subseteq Processes /\ c.deaths \in BOOLEAN /\ c.written \subseteq Paths
       /\ {c.writes, c.snapshots, c.sweeps, c.days} \subseteq Nat
       /\ \A f \in c.filters : f \in Filter /\ {f.count, f.days} # {Unlimited}

VARIABLES
  circumstance,  \* the same throughout
  now,           \* the day
  files,         \* what is there, its size and the day it was written
  folders,       \* children of categories that are directories, and when they were made
  snapshots,     \* analysis_snapshots: kind, day, and how much of it is written
  command,       \* what each process is doing
  left,          \* writes and commands still to come
  since          \* the plan whose sweep is all that has happened since (history)

vars == <<circumstance, now, files, folders, snapshots, command, left, since>>

-----------------------------------------------------------------------------
(* EvidenceRetentionPolicy.                                                *)

\* classify: a trace by its name, anything else by the innermost directory that says.
Classify(p) ==
  LET parts == <<Place[p].category, Place[p].child>> \o Place[p].inside
      i == SelectLastInSeq(parts, LAMBDA part : part \in Kinds \ {"trace"})
  IN CASE Place[p].trace -> "trace" [] i > 0 /\ ~Place[p].trace -> parts[i]
       [] OTHER -> "unknown"

\* from_mapping, rule_for: what is configured over the default of the kind, or over that of
\* all kinds without one.
RuleFor(kind) ==
  LET given == circumstance.rules
      fallback == IF "default" \in DOMAIN given THEN given["default"] @@ Fallback ELSE Fallback
      base == IF kind \in Kinds THEN DefaultRules[kind]
              ELSE IF kind \in DOMAIN given
                   THEN [days |-> Unlimited, cap |-> Unlimited, protected |-> FALSE]
                   ELSE fallback
  IN IF kind \in DOMAIN given THEN given[kind] @@ base ELSE base

\* _is_protected_path: at any depth.
IsProtectedPath(p) ==
  ({Place[p].category, Place[p].child} \cup Range(Place[p].inside)) \cap KeptNames # {}

\* The files a sweep of the evidence looks at.
Scanned(there) == {p \in DOMAIN there : Place[p].category = "tasks" /\ ~IsProtectedPath(p)}
OfKind(there, kind) == {p \in Scanned(there) : Classify(p) = kind}
Total(there, ps) == MapThenSumSet(LAMBDA p : there[p].size, ps)

\* The first round: what is older than its rule allows.
Expired(p) ==
  LET rule == RuleFor(Classify(p))
  IN ~rule.protected /\ rule.days # Unlimited /\ now - files[p].at > rule.days

\* The second: of what is left of a kind, the oldest until the rest fits.
Evicted(order, kind) ==
  LET rule == RuleFor(kind)
      rest == SelectSeq(order, LAMBDA p : Classify(p) = kind /\ ~Expired(p))
      from(n) == Range(SubSeq(rest, n + 1, Len(rest)))
  IN IF rule.protected \/ rule.cap = Unlimited THEN {}
     ELSE Range(SubSeq(rest, 1, Min({n \in 0..Len(rest) : Total(files, from(n)) <= rule.cap})))

\* Mutant: the files are taken as the scan met them.
OrdersAsScanned == SetToSeqs(Scanned(files))

\* Sorted by the time of writing; what has the same time, as the scan met it.
Orders == {o \in SetToSeqs(Scanned(files)) :
             \A i, j \in DOMAIN o : i < j => files[o[i]].at <= files[o[j]].at}
Candidates(order) ==
  [path : {p \in Scanned(files) : Expired(p)}, at : {0}, reason : {"age"}]
  \cup {[path |-> p, at |-> files[p].at, reason |-> "size_cap"] :
          p \in UNION {Evicted(order, k) : k \in Kinds \cup {"unknown"}}}
\* The order of deletion: what is too old first, and of each kind the oldest.
Before(c, d) ==
  \/ c.reason = "age" /\ d.reason = "size_cap"
  \/ c.reason = d.reason /\ Classify(c.path) = Classify(d.path) /\ c.at < d.at

-----------------------------------------------------------------------------
(* Runs and snapshots.                                                     *)

Idle == [at |-> "idle"]
Free(p) == p \in circumstance.processes /\ command[p] = Idle
Quiet == \A p \in Processes : command[p] = Idle
Become(p, c) == command' = [command EXCEPT ![p] = c]
Disturbed == [what |-> "nothing"]

Init ==
  /\ circumstance \in Circumstances
  /\ now = 0
  /\ files = <<>> /\ folders = <<>> /\ snapshots = <<>>
  /\ command = [p \in Processes |-> Idle]
  /\ left = [writes |-> circumstance.writes, sweeps |-> circumstance.sweeps]
  /\ since = Disturbed

Day ==
  /\ now < circumstance.days
  /\ now' = now + 1 /\ since' = Disturbed
  /\ UNCHANGED <<circumstance, files, folders, snapshots, command, left>>

\* A run, or whoever the file belongs to, writes it.
Write ==
  /\ left.writes > 0
  /\ \E p \in circumstance.written, n \in 1..2 :
       /\ files' = (p :> [size |-> n, at |-> now]) @@ files
       /\ folders' = IF Place[p].inside = <<>> \/ Child(p) \in DOMAIN folders THEN folders
                     ELSE (Child(p) :> now) @@ folders
  /\ left' = [left EXCEPT !.writes = @ - 1]
  /\ since' = Disturbed
  /\ UNCHANGED <<circumstance, now, snapshots, command>>

\* _write_snapshot: the directory, the empty file, its content (the summary follows).
MakeSnapshot(p) ==
  /\ Free(p) /\ \E k \in {"review", "replay"} :
       LET id == Cardinality(DOMAIN snapshots) + 1
       IN /\ id \in SnapshotIds(circumstance) /\ id \notin DOMAIN snapshots
          /\ snapshots' = (id :> [kind |-> k, at |-> now, part |-> "directory"]) @@ snapshots
          /\ Become(p, [at |-> "create", id |-> id])
  /\ since' = Disturbed
  /\ UNCHANGED <<circumstance, now, files, folders, left>>

WriteSnapshot(p) ==
  /\ command[p].at = "create"
  /\ LET id == command[p].id
         part == snapshots[id].part
     IN /\ IF part = "gone" THEN UNCHANGED snapshots ELSE
           snapshots' = [snapshots EXCEPT ![id].part =
                           IF part = "directory" THEN "torn" ELSE "written"]
        /\ IF part = "directory" THEN UNCHANGED command ELSE Become(p, Idle)
  /\ since' = Disturbed
  /\ UNCHANGED <<circumstance, now, files, folders, left>>

-----------------------------------------------------------------------------
(* The sweeps.                                                             *)

Plan(p, c) ==
  /\ Free(p) /\ left.sweeps > 0
  /\ Become(p, c)
  /\ left' = [left EXCEPT !.sweeps = @ - 1]
  /\ UNCHANGED <<circumstance, now, files, folders, snapshots>>
\* Does another sweep run?  Then neither is alone.
Alone(p, what, filter) ==
  since' = IF \A q \in Processes \ {p} : command[q] = Idle
           THEN [what |-> what, files |-> files, snapshots |-> snapshots, filter |-> filter]
           ELSE Disturbed
AnyFilter == [kind |-> "any", count |-> Unlimited, days |-> Unlimited]

\* enforce_evidence_retention.
SweepEvidence(p) ==
  /\ "evidence" \in circumstance.asked
  /\ \E order \in Orders : Plan(p, [at |-> "evidence", todo |-> Candidates(order)])
  /\ Alone(p, "evidence", AnyFilter)

\* _older_than: by the time of the child itself.
OlderThan(child, days) ==
  now - days > (IF child \in DOMAIN folders THEN folders[child]
                ELSE files[CHOOSE f \in DOMAIN files : Child(f) = child].at)

\* cleanup of all categories: children that are old and not kept for their name.
Cleanup(p) ==
  /\ "cleanup" \in circumstance.asked
  /\ Plan(p, [at |-> "cleanup",
              todo |-> {c \in {Child(f) : f \in DOMAIN files} \cup DOMAIN folders :
                          c.name \notin KeptNames /\ OlderThan(c, circumstance.old)},
              ids |-> {s \in DOMAIN snapshots :
                         snapshots[s].part # "gone" /\ now - circumstance.old > snapshots[s].at}])
  /\ since' = Disturbed

\* list_snapshots: the whole ones that match; one that is not whole stops it.
Listed(filter) ==
  {s \in DOMAIN snapshots : /\ snapshots[s].part = "written"
                            /\ filter.kind \in {"any", snapshots[s].kind}}
Unreadable == \E s \in DOMAIN snapshots : snapshots[s].part = "torn"

\* plan_retention: of the list, newest first, what is beyond the count or too old.
Surplus(filter) ==
  {s \in Listed(filter) :
     \/ /\ filter.count # Unlimited
        /\ Cardinality({t \in Listed(filter) : t > s}) >= filter.count
     \/ filter.days # Unlimited /\ snapshots[s].at < now - filter.days}
SweepSnapshots(p) ==
  /\ "snapshots" \in circumstance.asked /\ ~Unreadable
  /\ \E f \in circumstance.filters :
       /\ Plan(p, [at |-> "snapshots", todo |-> Surplus(f)])
       /\ Alone(p, "snapshots", f)

\* _delete_path: whatever is there now, if anything is.
DeleteEvidence(p) ==
  /\ command[p].at = "evidence"
  /\ \E c \in command[p].todo :
       /\ \A d \in command[p].todo : ~Before(d, c)
       /\ files' = Restrict(files, DOMAIN files \ {c.path})
       /\ Become(p, [command[p] EXCEPT !.todo = @ \ {c}])
  /\ UNCHANGED <<circumstance, now, folders, snapshots, left, since>>
DeleteChild(p) ==
  /\ command[p].at = "cleanup"
  /\ \/ \E c \in command[p].todo :
          /\ files' = Restrict(files, {f \in DOMAIN files : Child(f) # c})
          /\ folders' = Restrict(folders, DOMAIN folders \ {c})
          /\ Become(p, [command[p] EXCEPT !.todo = @ \ {c}])
          /\ UNCHANGED snapshots
     \/ \E s \in command[p].ids :
          /\ snapshots' = [snapshots EXCEPT ![s].part = "gone"]
          /\ Become(p, [command[p] EXCEPT !.ids = @ \ {s}])
          /\ UNCHANGED <<files, folders>>
  /\ since' = Disturbed
  /\ UNCHANGED <<circumstance, now, left>>
\* delete_snapshot: one that is no longer there ends the command.
DeleteSnapshot(p) ==
  /\ command[p].at = "snapshots" /\ command[p].todo # {}
  /\ LET s == Max(command[p].todo)
     IN IF snapshots[s].part = "written"
        THEN /\ snapshots' = [snapshots EXCEPT ![s].part = "gone"]
             /\ Become(p, [command[p] EXCEPT !.todo = @ \ {s}])
             /\ UNCHANGED since
        ELSE Become(p, Idle) /\ since' = Disturbed /\ UNCHANGED snapshots
  /\ UNCHANGED <<circumstance, now, files, folders, left>>

Finish(p) ==
  /\ command[p].at \in {"evidence", "cleanup", "snapshots"} /\ command[p].todo = {}
  /\ command[p].at = "cleanup" => command[p].ids = {}
  /\ Become(p, Idle)
  /\ UNCHANGED <<circumstance, now, files, folders, snapshots, left, since>>

Crash(p) ==
  /\ circumstance.deaths /\ command[p] # Idle
  /\ Become(p, Idle) /\ since' = Disturbed
  /\ UNCHANGED <<circumstance, now, files, folders, snapshots, left>>

Next ==
  \/ Day \/ Write
  \/ \E p \in Processes :
       \/ MakeSnapshot(p) \/ WriteSnapshot(p)
       \/ SweepEvidence(p) \/ Cleanup(p) \/ SweepSnapshots(p)
       \/ DeleteEvidence(p) \/ DeleteChild(p) \/ DeleteSnapshot(p) \/ Finish(p) \/ Crash(p)

Spec == Init /\ [][Next]_vars

-----------------------------------------------------------------------------
\* Types, and what the constants are.
TypeOK ==
  /\ ConstantsOK
  /\ circumstance \in Circumstances /\ now \in 0..circumstance.days
  /\ \A p \in DOMAIN files : p \in Paths /\ files[p] \in [size : 1..2, at : 0..now]
  /\ \A c \in DOMAIN folders : c \in Children /\ folders[c] \in 0..now
  /\ \A s \in DOMAIN snapshots :
       /\ s \in SnapshotIds(circumstance)
       /\ snapshots[s] \in [kind : {"review", "replay"}, at : 0..now,
                            part : {"directory", "torn", "written", "gone"}]
  /\ \A p \in Processes : command[p].at \in {"idle", "create", "evidence", "cleanup", "snapshots"}
  /\ left \in [writes : 0..circumstance.writes, sweeps : 0..circumstance.sweeps]
  /\ since.what \in {"nothing", "evidence", "snapshots"}

Swept(what) == since.what = what /\ Quiet
\* What the sweep removed of a kind though it was not too old.
Dropped(kind) ==
  {p \in OfKind(since.files, kind) \ DOMAIN files :
     RuleFor(kind).days = Unlimited \/ now - since.files[p].at <= RuleFor(kind).days}

\* After a sweep of the evidence that nothing came between, every kind with a
\* limit that may be cleared is within it: the total the second round counts
\* down is that of the files that stay.
SweepFits ==
  Swept("evidence") =>
    \A k \in Kinds \cup {"unknown"} :
      RuleFor(k).protected \/ RuleFor(k).cap = Unlimited
        \/ Total(files, OfKind(files, k)) <= RuleFor(k).cap

\* At every point of a sweep, dead or alive, what it dropped for the size of a
\* kind is no newer than what is left of it; and at the end it has dropped no
\* more than was needed.
EvictsOldest ==
  since.what = "evidence" =>
    \A k \in Kinds \cup {"unknown"} :
      /\ \A p \in Dropped(k), q \in OfKind(files, k) : since.files[p].at <= files[q].at
      /\ Quiet /\ Dropped(k) # {} =>
           \E p \in Dropped(k) :
             Total(files, OfKind(files, k)) + since.files[p].size > RuleFor(k).cap

\* After a retention of the snapshots that nothing came between, those that match
\* are as many as allowed and none is too old; none newer than one that stays has
\* gone, and none that does not match.
RetentionKeepsNewest ==
  Swept("snapshots") =>
    LET f == since.filter
        gone == {s \in DOMAIN snapshots : snapshots[s] # since.snapshots[s]}
    IN /\ f.count # Unlimited => Cardinality(Listed(f)) <= f.count
       /\ \A s \in Listed(f) : /\ f.days # Unlimited => now - snapshots[s].at <= f.days
                               /\ \A g \in gone : g < s
       /\ \A g \in gone : f.kind \in {"any", since.snapshots[g].kind}
       /\ f.days = Unlimited /\ gone # {} => Cardinality(Listed(f)) = f.count

\* What is kept for its name at the top of a category is never removed.  A report,
\* a file below a latest, and a file nobody can classify go only with the old child
\* of the category that a cleanup removes, never by a sweep of the evidence.
ProtectedStaysPut ==
  [][\A p \in DOMAIN files \ DOMAIN files' :
       /\ Place[p].child \notin KeptNames
       /\ Range(Place[p].inside) \cap (KeptNames \cup {"report"}) # {} \/ Place[p].inside = <<>> =>
            Place[p].trace \/ \E i \in Processes : command[i].at = "cleanup" /\ command'[i] # command[i]]_vars

\* cleanup lists only what is older than the days asked for: nothing below an entry
\* of its plan was written within them.
CleanupTakesOnlyOld ==
  [][\A i \in Processes :
       command[i] = Idle /\ command'[i].at = "cleanup" =>
         \A f \in DOMAIN files :
           Child(f) \in command'[i].todo => now - files[f].at > circumstance.old]_vars

\* A sweep leaves no more than its rules allow and takes the oldest, the snapshots that
\* are kept are the newest, and what is protected is never taken
\* (enforce_evidence_retention, SnapshotRetentionService).
RetentionSafe == [](SweepFits /\ EvictsOldest /\ RetentionKeepsNewest) /\ ProtectedStaysPut
=============================================================================
