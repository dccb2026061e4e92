------------------------ MODULE IntegrationOutboxProofs ------------------------
(***************************************************************************)
(* Proofs about IntegrationOutbox, for any events, webhooks, processes,    *)
(* delays and thresholds.  In any order of the operations, with copies     *)
(* that overwrite each other, half-written files and crashes: types are    *)
(* right, what the file says of an entry is true, and the attempts of an   *)
(* entry are bounded by the dead-letter threshold and the replays.  When   *)
(* one operation works on the file at a time (Overlap = FALSE): no event   *)
(* is lost, no receiver gets again what it took, and every write keeps the *)
(* promises of OutboxPromise.                                              *)
(***************************************************************************)
EXTENDS IntegrationOutbox, FiniteSetTheorems, SequenceTheorems, TLAPS

-----------------------------------------------------------------------------
(* Types.  The strengthening says that a worker serves a webhook.          *)

HookServed ==
  \A p \in Procs :
    /\ Len(Hooks) > 0 => hook[p] <= Len(Hooks)
    /\ pc[p] \in {"load", "scan"} => Len(Hooks) > 0
TInv == TypeOK /\ HookServed

\* A failure waits for a time that is a number, whatever the number of doublings.
LEMMA BackoffType ==
  ASSUME NEW n \in Nat \ {0}
  PROVE  Backoff(n) \in Nat
<1>1. 2 ^ (n - 1) \in Int
  OBVIOUS
<1>2. RetryDelay * 2 ^ (n - 1) \in Int
  BY <1>1, NumberAssumption
<1> QED BY <1>2, NumberAssumption DEF Backoff

LEMMA CapType == \A t \in Nat : Cap(t) \in 0..MaxTime
BY NumberAssumption DEF Cap

\* The registered webhooks, by their place.
LEMMA HooksType == Hooks \in Seq(Webhooks) /\ \A h \in 1..Len(Hooks) : Hooks[h] \in Webhooks
BY OutboxAssumption

\* New, delivered, failed and replayed entries are entries.
LEMMA NewEntryType ==
  ASSUME NEW e \in Events, NEW k \in Kinds
  PROVE  NewEntry(e, k) \in Entries
BY NumberAssumption DEF NewEntry, Entries, Statuses

LEMMA AfterPostType ==
  ASSUME NEW x \in Entries, NEW w \in Webhooks, NEW answer, NEW t \in 0..MaxTime
  PROVE  /\ AfterPost(x, w, answer, t) \in Entries
         /\ [AfterPost(x, w, answer, t) EXCEPT !.alerted = TRUE] \in Entries
         /\ Id(AfterPost(x, w, answer, t)) = Id(x)
         /\ AfterPost(x, w, answer, t).alerted = x.alerted
<1>1. Cap(t + Backoff(x.attempts + 1)) \in 0..MaxTime
  BY BackoffType, CapType, NumberAssumption DEF Entries
<1>2. x.attempts + 1 \in Nat /\ 0 \in 0..MaxTime
  BY NumberAssumption DEF Entries
<1>3. LET y == Delivered(x, w) IN y \in Entries /\ Id(y) = Id(x) /\ y.alerted = x.alerted
  BY <1>2 DEF Delivered, Entries, Statuses, Id
<1>4. LET y == Failed(x, answer, t) IN y \in Entries /\ Id(y) = Id(x) /\ y.alerted = x.alerted
  <2> DEFINE due == Cap(t + Backoff(x.attempts + 1))
  <2>1. due \in 0..MaxTime
    BY <1>1
  <2> HIDE DEF due
  <2>2. Failed(x, answer, t) \in
          {[x EXCEPT !.status = "retry_pending", !.attempts = x.attempts + 1, !.retryAt = due],
           [x EXCEPT !.status = "dead_letter", !.attempts = x.attempts + 1, !.retryAt = 0]}
    BY DEF Failed, due
  <2> QED BY <1>2, <2>1, <2>2 DEF Entries, Statuses, Id
<1>5. \A y \in Entries : [y EXCEPT !.alerted = TRUE] \in Entries
  BY DEF Entries
<1> QED BY <1>3, <1>4, <1>5, Zenon DEF AfterPost

LEMMA ReplayedType ==
  ASSUME NEW x \in Entries, NEW t \in 0..MaxTime
  PROVE  Replayed(x, t) \in Entries
BY DEF Replayed, Entries, Statuses

\* The list an operator writes back.
ReplayedList(p) ==
  [i \in 1..Len(registry) |->
     IF registry[i].status = "dead_letter" /\ Selects(chosen[p], registry[i])
     THEN Replayed(registry[i], now) ELSE registry[i]]

LEMMA ReplayedListType ==
  ASSUME TypeOK, NEW p \in Procs
  PROVE  ReplayedList(p) \in Seq(Entries) /\ Len(ReplayedList(p)) = Len(registry)
<1>1. Len(registry) \in Nat /\ \A i \in 1..Len(registry) : registry[i] \in Entries
  BY DEF TypeOK
<1>2. \A i \in 1..Len(registry) :
        (IF registry[i].status = "dead_letter" /\ Selects(chosen[p], registry[i])
         THEN Replayed(registry[i], now) ELSE registry[i]) \in Entries
  BY <1>1, ReplayedType DEF TypeOK
<1> QED BY <1>1, <1>2 DEF ReplayedList

\* An operation that reads the file keeps the types of all it does not choose.
LEMMA ReadsType ==
  ASSUME TypeOK, NEW p \in Procs, NEW copy \in Seq(Entries), Reads(p, copy)
  PROVE  /\ now' \in 0..MaxTime /\ registry' \in Seq(Entries)
         /\ buf' \in [Procs -> Seq(Entries)]
         /\ accepted' \subseteq Webhooks \X Items
         /\ reached' \in [Webhooks \X Items -> Nat]
BY DEF Reads, received, TypeOK

\* Publishing keeps the types.
LEMMA PublishType ==
  ASSUME TInv, NEW p \in Procs, PublishLoad(p)
  PROVE  TInv'
<1> USE DEF TInv, TypeOK, HookServed
<1>1. PICK e \in Events : /\ chosen' = [chosen EXCEPT ![p] = {<<e, KindOf[e]>>}]
                          /\ Reads(p, Append(registry, NewEntry(e, KindOf[e])))
  BY DEF PublishLoad
<1>2. KindOf[e] \in Kinds
  BY OutboxAssumption
<1>3. Append(registry, NewEntry(e, KindOf[e])) \in Seq(Entries)
  BY <1>2, NewEntryType
<1>4. chosen' \in [Procs -> SUBSET Items]
  BY <1>1, <1>2 DEF Items
<1>5. pc' = [pc EXCEPT ![p] = "save"] /\ pc' \in [Procs -> Pcs]
  BY DEF PublishLoad, Goto, Pcs
<1> QED BY <1>1, <1>3, <1>4, <1>5, ReadsType DEF PublishLoad, round

\* A worker's read keeps the types.
LEMMA DeliverLoadType ==
  ASSUME TInv, NEW p \in Procs, DeliverLoad(p)
  PROVE  TInv'
<1> USE DEF TInv, TypeOK, HookServed
<1>1. pc' = [pc EXCEPT ![p] = "scan"] /\ pc' \in [Procs -> Pcs]
  BY DEF DeliverLoad, Goto, Pcs
<1>2. Len(Hooks) > 0
  BY HooksType, EmptySeq DEF DeliverLoad
<1>3. Reads(p, registry)
  BY DEF DeliverLoad
<1> QED BY <1>1, <1>2, <1>3, ReadsType DEF DeliverLoad, request

\* An operator's choice and read keep the types.
LEMMA OperatorType ==
  ASSUME TInv, NEW p \in Procs, OperatorStep(p)
  PROVE  TInv'
<1> USE DEF TInv, TypeOK, HookServed
<1>1. CASE ReplaySelect(p)
  <2>1. PICK F \in Filters : chosen' = [chosen EXCEPT ![p] = DeadIn(registry) \cap F]
    BY <1>1 DEF ReplaySelect
  <2>2. DeadIn(registry) \cap F \in SUBSET Items
    BY OutboxAssumption
  <2>3. pc' = [pc EXCEPT ![p] = "selected"] /\ pc' \in [Procs -> Pcs]
    BY <1>1 DEF ReplaySelect, Goto, Pcs
  <2>4. replays' \in 0..MaxReplays
    BY <1>1, NumberAssumption DEF ReplaySelect
  <2> QED BY <1>1, <2>1, <2>2, <2>3, <2>4 DEF ReplaySelect, round, received
<1>2. CASE ReplayLoad(p)
  <2>1. pc' = [pc EXCEPT ![p] = "save"] /\ pc' \in [Procs -> Pcs]
    BY <1>2 DEF ReplayLoad, Goto, Pcs
  <2>2. Reads(p, ReplayedList(p))
    BY <1>2 DEF ReplayLoad, ReplayedList
  <2> QED BY <1>2, <2>1, <2>2, ReplayedListType, ReadsType DEF ReplayLoad, round, request
<1> QED BY <1>1, <1>2 DEF OperatorStep

\* What a receiver remembers keeps its types.
LEMMA ReceiveType ==
  ASSUME accepted \subseteq Webhooks \X Items, reached \in [Webhooks \X Items -> Nat],
         NEW w \in Webhooks, NEW x \in Entries, NEW answer, Receive(w, x, answer)
  PROVE  accepted' \subseteq Webhooks \X Items /\ reached' \in [Webhooks \X Items -> Nat]
<1>1. <<w, Id(x)>> \in Webhooks \X Items
  BY DEF Id, Items, Entries
<1>2. PICK r \in Webhooks \X Items : r = <<w, Id(x)>>
  BY <1>1
<1>3. accepted' \subseteq Webhooks \X Items
  BY <1>1 DEF Receive
<1>4. reached' \in {reached, [reached EXCEPT ![r] = @ + 1]}
  BY <1>2 DEF Receive
<1>5. reached[r] + 1 \in Nat
  BY <1>2
<1>6. reached' \in [Webhooks \X Items -> Nat]
  BY <1>4, <1>5
<1> QED BY <1>3, <1>6

\* Whatever a post comes to, the types stay.
LEMMA PostType ==
  ASSUME TInv, NEW p \in Procs, Post(p)
  PROVE  TInv'
<1> USE DEF TInv, TypeOK, HookServed
<1> DEFINE w == Hooks[hook[p]]
           x(i) == buf[p][i]
           y(i, answer) == AfterPost(buf[p][i], w, answer, clock[p])
<1>1. w \in Webhooks
  BY HooksType DEF Post
<1>2. PICK i \in DueFor(p), answer \in Answers :
        /\ Receive(w, x(i), answer)
        /\ buf' \in {[buf EXCEPT ![p][i] = z] :
                       z \in {y(i, answer), [y(i, answer) EXCEPT !.alerted = TRUE]}}
        /\ emitted' \in {emitted,
                         [emitted EXCEPT ![p] = Append(@, NewEntry(y(i, answer).event, Alert))]}
        /\ idx' = [idx EXCEPT ![p] = i + 1]
  BY ZenonT(30) DEF Post
<1>3. i \in 1..Len(buf[p]) /\ i \in Nat \ {0} /\ x(i) \in Entries
  BY DEF DueFor
<1>4. /\ y(i, answer) \in Entries /\ [y(i, answer) EXCEPT !.alerted = TRUE] \in Entries
      /\ y(i, answer).event \in Events
  <2>1. clock[p] \in 0..MaxTime
    OBVIOUS
  <2>2. y(i, answer) \in Entries /\ [y(i, answer) EXCEPT !.alerted = TRUE] \in Entries
    BY <1>1, <1>3, <2>1, AfterPostType
  <2> HIDE DEF y
  <2> QED BY <2>2 DEF Entries
<1> HIDE DEF x, y, w
<1>5. buf' \in [Procs -> Seq(Entries)]
  <2>1. PICK z \in Entries : buf' = [buf EXCEPT ![p][i] = z]
    BY <1>2, <1>4
  <2>2. [buf[p] EXCEPT ![i] = z] \in Seq(Entries)
    BY <1>3
  <2> QED BY <2>1, <2>2
<1>6. emitted' \in [Procs -> Seq(Entries)]
  <2>1. NewEntry(y(i, answer).event, Alert) \in Entries
    BY <1>4, NewEntryType, OutboxAssumption
  <2>2. Append(emitted[p], NewEntry(y(i, answer).event, Alert)) \in Seq(Entries)
    BY <2>1
  <2>3. PICK z \in Seq(Entries) : emitted' \in {emitted, [emitted EXCEPT ![p] = z]}
    BY <1>2, <2>2
  <2> QED BY <2>3
<1>7. accepted' \subseteq Webhooks \X Items /\ reached' \in [Webhooks \X Items -> Nat]
  BY <1>1, <1>2, <1>3, ReceiveType
<1>8. idx' \in [Procs -> Nat \ {0}] /\ tried' \in [Procs -> Nat]
  <2>1. i + 1 \in Nat \ {0} /\ tried' = [tried EXCEPT ![p] = @ + 1]
    BY SMTT(20), <1>3 DEF Post
  <2> QED BY <1>2, <2>1
<1> QED BY <1>5, <1>6, <1>7, <1>8 DEF Post, request

\* Forgetting keeps the types.
LEMMA ForgetType ==
  ASSUME TInv, NEW p \in Procs, Forget(p)
  PROVE  /\ buf' \in [Procs -> Seq(Entries)] /\ emitted' \in [Procs -> Seq(Entries)]
         /\ idx' \in [Procs -> Nat \ {0}] /\ tried' \in [Procs -> Nat]
         /\ chosen' \in [Procs -> SUBSET Items]
BY DEF TInv, TypeOK, Forget

\* So does returning.
LEMMA ReturnType ==
  ASSUME TInv, NEW p \in Procs, Return(p)
  PROVE  /\ pc' \in [Procs -> Pcs] /\ hook' \in [Procs -> Nat \ {0}]
         /\ clock' \in [Procs -> 0..MaxTime] /\ HookServed'
<1>1. 0 \in 0..MaxTime /\ Len(Hooks) \in Nat
  BY NumberAssumption, OutboxAssumption
<1>2. \A q \in Procs \ {p} : pc'[q] = pc[q] /\ hook'[q] = hook[q]
  BY DEF TInv, TypeOK, Return, Goto
<1>3. pc'[p] = "idle" /\ hook'[p] = 1
  BY DEF TInv, TypeOK, Return, Goto
<1> QED BY SMTT(20), <1>1, <1>2, <1>3 DEF TInv, TypeOK, HookServed, Return, Goto, Pcs

\* Writing the file keeps the types.
LEMMA WriteBackType ==
  ASSUME TInv, NEW p \in Procs, WriteBack(p)
  PROVE  TInv'
<1> USE DEF TInv, TypeOK
<1>1. CASE Truncate(p)
  BY SMTT(20), <1>1 DEF Truncate, Goto, Pcs, HookServed, round, request, received
<1>2. CASE Save(p)
  <2>1. registry' \in Seq(Entries)
    BY <1>2 DEF Save
  <2>2. published' \subseteq Events
    <3>1. {item[1] : item \in chosen[p]} \subseteq Events
      BY DEF Items
    <3> QED BY <1>2, <3>1 DEF Save
  <2>3. Forget(p)
    BY <1>2 DEF Save
  <2>4. /\ pc' \in [Procs -> Pcs] /\ hook' \in [Procs -> Nat \ {0}]
        /\ clock' \in [Procs -> 0..MaxTime] /\ HookServed'
    <3>1. CASE Return(p)
      BY <3>1, ReturnType
    <3>2. CASE ~Return(p)
      <4>1. /\ hook[p] < Len(Hooks) /\ hook' = [hook EXCEPT ![p] = @ + 1]
            /\ pc' = [pc EXCEPT ![p] = "load"] /\ clock' = clock
        BY <1>2, <3>2 DEF Save, Goto
      <4> QED BY SMTT(20), <4>1, OutboxAssumption DEF HookServed, Pcs
    <3> QED BY <3>1, <3>2
  <2> QED BY <1>2, <2>1, <2>2, <2>3, <2>4, ForgetType DEF Save, received
<1> QED BY <1>1, <1>2 DEF WriteBack

LEMMA CrashType ==
  ASSUME TInv, NEW p \in Procs, Crash(p)
  PROVE  TInv'
<1>1. crashes' \in 0..MaxCrashes
  BY NumberAssumption DEF TInv, TypeOK, Crash
<1> QED BY <1>1, ForgetType, ReturnType DEF TInv, TypeOK, Crash, received

LEMMA TypeInit == Init => TInv
<1> SUFFICES ASSUME Init PROVE TInv
  OBVIOUS
<1>1. TypeOK
  BY NumberAssumption DEF Init, TypeOK, Pcs
<1>2. HookServed
  BY OutboxAssumption DEF Init, HookServed
<1> QED BY <1>1, <1>2 DEF TInv

LEMMA TypeStep == TInv /\ [Next]_vars => TInv'
<1> SUFFICES ASSUME TInv, [Next]_vars PROVE TInv'
  OBVIOUS
<1>1. CASE Tick
  BY <1>1, NumberAssumption DEF Tick, TInv, TypeOK, HookServed, round, request, received
<1>2. CASE UNCHANGED vars
  BY <1>2 DEF vars, TInv, TypeOK, HookServed, round, request, received
<1> QED BY <1>1, <1>2, PublishType, DeliverLoadType, OperatorType, PostType, WriteBackType,
           CrashType DEF Next, WorkerStep, Procs

\* The file, the copies and the histories have the types of the code's records
\* (IntegrationOutboxService, DeliveryAttempt payloads).
THEOREM TypeCorrect == Spec => []TypeOK
<1>1. TInv => TypeOK
  BY DEF TInv
<1> QED BY <1>1, TypeInit, TypeStep, PTL DEF Spec

-----------------------------------------------------------------------------
(* What every list says.  An operation's own list is what it would write:  *)
(* its copy and the alerts it has yet to append.  Whatever overwrites what, *)
(* each list is consistent by itself, since an operation changes a whole    *)
(* list at a time.                                                          *)

Draft(p) == buf[p] \o emitted[p]

\* The lists there are: the file's and each operation's own.
Lists == {registry} \cup {Draft(p) : p \in Procs}

\* What an entry says of posts and alerts.
Troubled(x) ==
  /\ x.kind # Alert
  /\ \/ x.status = "dead_letter"
     \/ x.status = "retry_pending" /\ x.attempts >= AlertThreshold

Truthful(x) ==
  /\ \A w \in x.receipts : <<w, Id(x)>> \in accepted
  /\ x.status = "delivered" => x.receipts # {}
  /\ Troubled(x) => x.alerted

\* What a list is: no item twice, and an alert for exactly the entries that say so.
Kinded(list) == \A i \in 1..Len(list) : list[i].kind \in {Alert, KindOf[list[i].event]}
Unique(list) == \A i, j \in 1..Len(list) : Id(list[i]) = Id(list[j]) => i = j
Paired(list) ==
  \A i \in 1..Len(list) : list[i].kind # Alert =>
    (list[i].alerted <=> \E j \in 1..Len(list) : Id(list[j]) = <<list[i].event, Alert>>)
Consistent(list) == Kinded(list) /\ Unique(list) /\ Paired(list)

\* An event comes into the file by its publisher alone, and an operation that has not
\* read the file has nothing to append.
PublishedFirst ==
  /\ \A i \in 1..Len(registry) : registry[i].event \in published
  /\ \A p \in Procs : \A i \in 1..Len(Draft(p)) :
       \/ Draft(p)[i].event \in published
       \/ p \in Publishers /\ \E item \in chosen[p] : item[1] = Draft(p)[i].event
EmptyHanded == \A p \in Procs : pc[p] \in {"idle", "load", "selected"} => emitted[p] = <<>>

Sound(list) == Consistent(list) /\ \A i \in 1..Len(list) : Truthful(list[i])

FileInv ==
  /\ TInv /\ EmptyHanded /\ PublishedFirst
  /\ \A list \in Lists : Sound(list)

\* The lists are sequences of entries.
LEMMA DraftType ==
  ASSUME TInv, NEW p \in Procs
  PROVE  /\ Draft(p) \in Seq(Entries) /\ Len(Draft(p)) = Len(buf[p]) + Len(emitted[p])
         /\ \A i \in 1..Len(buf[p]) : Draft(p)[i] = buf[p][i]
         /\ \A i \in 1..Len(emitted[p]) : Draft(p)[Len(buf[p]) + i] = emitted[p][i]
BY DEF TInv, TypeOK, Draft

LEMMA ListsType == TInv => Lists \subseteq Seq(Entries)
BY DraftType DEF Lists, TInv, TypeOK

\* Reading the file makes the copy the operation's list.
LEMMA ReadsDraft ==
  ASSUME TInv, EmptyHanded, NEW p \in Procs, pc[p] \in {"idle", "load", "selected"},
         NEW copy \in Seq(Entries), Reads(p, copy), emitted' = emitted
  PROVE  /\ registry' = registry /\ received' = received
         /\ Draft(p)' = copy /\ \A q \in Procs \ {p} : Draft(q)' = Draft(q)
<1>1. emitted[p] = <<>> /\ buf' = [buf EXCEPT ![p] = copy]
  BY DEF EmptyHanded, Reads
<1>2. Draft(p)' = copy
  BY <1>1, ConcatEmptySeq DEF Draft, TInv, TypeOK
<1> QED BY <1>1, <1>2 DEF Draft, Reads, TInv, TypeOK

\* Forgetting empties it.
LEMMA ForgetDraft ==
  ASSUME TInv, NEW p \in Procs, Forget(p)
  PROVE  /\ Draft(p)' = <<>> /\ emitted'[p] = <<>>
         /\ \A q \in Procs \ {p} : Draft(q)' = Draft(q) /\ emitted'[q] = emitted[q]
<1>1. buf'[p] = <<>> /\ emitted'[p] = <<>>
  BY DEF Forget, TInv, TypeOK
<1>2. Draft(p)' = <<>>
  BY <1>1 DEF Draft
<1> QED BY <1>1, <1>2 DEF Draft, Forget, TInv, TypeOK

\* Steps that neither post, publish nor replay rearrange the lists there are.
LEMMA QuietLists ==
  ASSUME TInv, EmptyHanded, NEW p \in Procs,
         DeliverLoad(p) \/ ReplaySelect(p) \/ WriteBack(p) \/ Crash(p)
  PROVE  Lists' \subseteq Lists \cup {<<>>} /\ received' = received
<1>1. CASE DeliverLoad(p)
  <2>1. pc[p] \in {"idle", "load", "selected"} /\ Reads(p, registry) /\ emitted' = emitted
    BY <1>1 DEF DeliverLoad
  <2>2. registry \in Seq(Entries)
    BY DEF TInv, TypeOK
  <2>3. /\ registry' = registry /\ received' = received
        /\ Draft(p)' = registry /\ \A q \in Procs \ {p} : Draft(q)' = Draft(q)
    BY <2>1, <2>2, ReadsDraft
  <2> QED BY <2>3 DEF Lists
<1>2. CASE Save(p)
  <2>1. registry' = Draft(p) /\ received' = received /\ Forget(p)
    BY <1>2 DEF Save, Draft
  <2> QED BY <2>1, ForgetDraft DEF Lists
<1>3. CASE Crash(p)
  <2>1. registry' = registry /\ received' = received /\ Forget(p)
    BY <1>3 DEF Crash
  <2> QED BY <2>1, ForgetDraft DEF Lists
<1>4. CASE Truncate(p)
  BY <1>4 DEF Truncate, Lists, Draft, round
<1>5. CASE ReplaySelect(p)
  BY <1>5 DEF ReplaySelect, Lists, Draft, round
<1> QED BY <1>1, <1>2, <1>3, <1>4, <1>5 DEF WriteBack

\* Time and stuttering leave them.
LEMMA IdleLists ==
  ASSUME Tick \/ UNCHANGED vars
  PROVE  /\ Lists' = Lists /\ registry' = registry /\ \A p \in Procs : Draft(p)' = Draft(p)
         /\ <<received, pc, emitted, chosen, published, replays, crashes>>'
              = <<received, pc, emitted, chosen, published, replays, crashes>>
BY DEF Tick, vars, Lists, Draft, round, request

\* A publisher's list is the file's and one entry.
LEMMA PublishLists ==
  ASSUME TInv, EmptyHanded, NEW p \in Procs, PublishLoad(p)
  PROVE  \E e \in Events \ published :
           /\ chosen' = [chosen EXCEPT ![p] = {<<e, KindOf[e]>>}]
           /\ registry' = registry /\ received' = received
           /\ Draft(p)' = Append(registry, NewEntry(e, KindOf[e]))
           /\ \A q \in Procs \ {p} : Draft(q)' = Draft(q)
<1>1. PICK e \in Events \ published :
        /\ chosen' = [chosen EXCEPT ![p] = {<<e, KindOf[e]>>}]
        /\ Reads(p, Append(registry, NewEntry(e, KindOf[e])))
  BY DEF PublishLoad
<1>2. Append(registry, NewEntry(e, KindOf[e])) \in Seq(Entries)
  BY OutboxAssumption, NewEntryType DEF TInv, TypeOK
<1>3. pc[p] = "idle" /\ emitted' = emitted
  BY DEF PublishLoad, round
<1> QED BY <1>1, <1>2, <1>3, ReadsDraft

\* An operator's list is the file's, dead entries replayed.
LEMMA ReplayLists ==
  ASSUME TInv, EmptyHanded, NEW p \in Procs, ReplayLoad(p)
  PROVE  /\ registry' = registry /\ received' = received
         /\ Draft(p)' = ReplayedList(p)
         /\ \A q \in Procs \ {p} : Draft(q)' = Draft(q)
<1>1. Reads(p, ReplayedList(p)) /\ pc[p] = "selected" /\ emitted' = emitted
  BY DEF ReplayLoad, ReplayedList, round
<1> QED BY <1>1, ReplayedListType, ReadsDraft DEF TInv

\* What a post does to the worker's list: one entry is settled or put off, and an alert
\* may come after the last.
Raises(y, answer) == answer # "ok" /\ NeedsAlert(y)
Posts(p, i, answer) ==
  LET w == Hooks[hook[p]]
      x == buf[p][i]
      y == AfterPost(x, w, answer, clock[p])
  IN  /\ w \in Webhooks /\ x \in Entries /\ x = Draft(p)[i] /\ y \in Entries
      /\ x.status \in {"pending", "retry_pending"} /\ Id(y) = Id(x) /\ y.alerted = x.alerted
      /\ Receive(w, x, answer)
      /\ Draft(p)'[i] = IF Raises(y, answer) THEN [y EXCEPT !.alerted = TRUE] ELSE y
      /\ \A j \in 1..Len(Draft(p)) : j # i => Draft(p)'[j] = Draft(p)[j]
      /\ IF Raises(y, answer)
         THEN /\ Len(Draft(p)') = Len(Draft(p)) + 1
              /\ Draft(p)'[Len(Draft(p)) + 1] = NewEntry(x.event, Alert)
         ELSE Len(Draft(p)') = Len(Draft(p))

\* Replacing an entry of the first part of a list.
LEMMA ReplacedInConcat ==
  ASSUME NEW b \in Seq(Entries), NEW e \in Seq(Entries), NEW i \in 1..Len(b), NEW z \in Entries
  PROVE  /\ i \in 1..Len(b \o e) /\ (b \o e)[i] = b[i] /\ b \o e \in Seq(Entries)
         /\ [b EXCEPT ![i] = z] \o e = [b \o e EXCEPT ![i] = z]
<1> DEFINE c == [b EXCEPT ![i] = z]
           d == b \o e
<1>1. /\ c \in Seq(Entries) /\ Len(c) = Len(b) /\ c[i] = z
      /\ \A j \in 1..Len(b) : j # i => c[j] = b[j]
  OBVIOUS
<1>2. d \in Seq(Entries) /\ Len(d) = Len(b) + Len(e) /\ i \in 1..Len(d) /\ d[i] = b[i]
  OBVIOUS
<1> HIDE DEF c, d
<1>3. /\ [d EXCEPT ![i] = z] \in Seq(Entries) /\ Len([d EXCEPT ![i] = z]) = Len(d)
      /\ \A j \in 1..Len(d) : [d EXCEPT ![i] = z][j] = IF j = i THEN z ELSE d[j]
  BY <1>2, ExceptSeq
<1>4. c \o e \in Seq(Entries) /\ Len(c \o e) = Len(d)
  <2>1. c \o e \in Seq(Entries) /\ Len(c \o e) = Len(c) + Len(e)
    BY <1>1, ConcatProperties
  <2> QED BY <1>1, <1>2, <2>1
<1>5. \A j \in 1..Len(d) : (c \o e)[j] = [d EXCEPT ![i] = z][j]
  BY <1>1, <1>2, <1>3, ConcatProperties DEF d
<1>6. c \o e = [d EXCEPT ![i] = z]
  BY <1>3, <1>4, <1>5, SeqEqual
<1> QED BY <1>2, <1>6 DEF c, d

\* Appending to the second part of a list.
LEMMA AppendedInConcat ==
  ASSUME NEW c \in Seq(Entries), NEW e \in Seq(Entries), NEW n \in Entries
  PROVE  c \o Append(e, n) = Append(c \o e, n)
<1>1. Append(e, n) = e \o <<n>> /\ <<n>> \in Seq(Entries)
  BY AppendIsConcat
<1>2. c \o e \in Seq(Entries)
  BY ConcatProperties
<1>3. Append(c \o e, n) = (c \o e) \o <<n>>
  BY <1>2, AppendIsConcat
<1> QED BY <1>1, <1>3, ConcatAssociative

LEMMA PostLists ==
  ASSUME TInv, NEW p \in Procs, Post(p)
  PROVE  /\ \E i \in DueFor(p) \cap 1..Len(buf[p]), answer \in Answers :
              Posts(p, i, answer) /\ i \in 1..Len(Draft(p)) /\ idx' = [idx EXCEPT ![p] = i + 1]
         /\ registry' = registry
         /\ \A q \in Procs \ {p} : Draft(q)' = Draft(q)
<1> DEFINE w == Hooks[hook[p]]
           x(i) == buf[p][i]
           y(i, answer) == AfterPost(buf[p][i], w, answer, clock[p])
           z(i, answer) == IF Raises(y(i, answer), answer)
                           THEN [y(i, answer) EXCEPT !.alerted = TRUE] ELSE y(i, answer)
<1>1. w \in Webhooks
  BY HooksType DEF Post, TInv, TypeOK, HookServed
<1>2. PICK i \in DueFor(p), answer \in Answers :
        /\ Receive(w, x(i), answer)
        /\ buf' = [buf EXCEPT ![p][i] = z(i, answer)]
        /\ emitted' = IF Raises(y(i, answer), answer)
                      THEN [emitted EXCEPT ![p] = Append(@, NewEntry(y(i, answer).event, Alert))]
                      ELSE emitted
        /\ idx' = [idx EXCEPT ![p] = i + 1]
  BY Zenon DEF Post, Raises
<1>3. i \in 1..Len(buf[p]) /\ x(i) \in Entries /\ x(i).status \in {"pending", "retry_pending"}
  BY DEF DueFor, IsDue, TInv, TypeOK
<1>4. /\ y(i, answer) \in Entries /\ z(i, answer) \in Entries
      /\ Id(y(i, answer)) = Id(x(i)) /\ y(i, answer).alerted = x(i).alerted
      /\ y(i, answer).event = x(i).event
  BY <1>1, <1>3, AfterPostType DEF TInv, TypeOK, Id
<1> DEFINE n == NewEntry(x(i).event, Alert)
<1>5. n \in Entries
  BY <1>3, NewEntryType, OutboxAssumption DEF Entries
<1> HIDE DEF w, x, y, z, n
<1>6. /\ buf'[p] = [buf[p] EXCEPT ![i] = z(i, answer)]
      /\ emitted'[p] = IF Raises(y(i, answer), answer) THEN Append(emitted[p], n) ELSE emitted[p]
  BY <1>2, <1>4 DEF n, TInv, TypeOK
<1>7. \A q \in Procs \ {p} : Draft(q)' = Draft(q)
  BY <1>2 DEF Draft, TInv, TypeOK
<1>8. buf[p] \in Seq(Entries) /\ emitted[p] \in Seq(Entries)
  BY DEF TInv, TypeOK
<1>9. /\ i \in 1..Len(Draft(p)) /\ Draft(p)[i] = x(i) /\ Draft(p) \in Seq(Entries)
      /\ [buf[p] EXCEPT ![i] = z(i, answer)] \o emitted[p] = [Draft(p) EXCEPT ![i] = z(i, answer)]
  <2>1. /\ i \in 1..Len(buf[p] \o emitted[p]) /\ (buf[p] \o emitted[p])[i] = buf[p][i]
        /\ buf[p] \o emitted[p] \in Seq(Entries)
        /\ [buf[p] EXCEPT ![i] = z(i, answer)] \o emitted[p]
             = [buf[p] \o emitted[p] EXCEPT ![i] = z(i, answer)]
    <3> DEFINE b == buf[p]
               e == emitted[p]
               u == z(i, answer)
    <3>1. b \in Seq(Entries) /\ e \in Seq(Entries) /\ i \in 1..Len(b) /\ u \in Entries
      BY <1>3, <1>4, <1>8
    <3> HIDE DEF b, e, u
    <3>2. /\ i \in 1..Len(b \o e) /\ (b \o e)[i] = b[i] /\ b \o e \in Seq(Entries)
          /\ [b EXCEPT ![i] = u] \o e = [b \o e EXCEPT ![i] = u]
      BY <3>1, ReplacedInConcat
    <3> QED BY <3>2, Zenon DEF b, e, u
  <2> QED BY <2>1, Zenon DEF Draft, x
<1>10. Draft(p)' = IF Raises(y(i, answer), answer)
                   THEN Append([Draft(p) EXCEPT ![i] = z(i, answer)], n)
                   ELSE [Draft(p) EXCEPT ![i] = z(i, answer)]
  <2>1. [buf[p] EXCEPT ![i] = z(i, answer)] \in Seq(Entries)
    BY <1>3, <1>4, <1>8, ExceptSeq
  <2>2. [buf[p] EXCEPT ![i] = z(i, answer)] \o Append(emitted[p], n)
          = Append([buf[p] EXCEPT ![i] = z(i, answer)] \o emitted[p], n)
    BY <1>5, <1>8, <2>1, AppendedInConcat
  <2>3. Draft(p)' = buf'[p] \o emitted'[p]
    BY DEF Draft
  <2> QED BY <1>6, <1>9, <2>2, <2>3
<1>11. Posts(p, i, answer)
  <2> DEFINE d == Draft(p)
             g == [d EXCEPT ![i] = z(i, answer)]
  <2>1. /\ d \in Seq(Entries) /\ i \in 1..Len(d) /\ z(i, answer) \in Entries
    BY <1>4, <1>9
  <2> HIDE DEF d
  <2>2. /\ g \in Seq(Entries) /\ Len(g) = Len(d) /\ g[i] = z(i, answer)
        /\ \A j \in 1..Len(d) : j # i => g[j] = d[j]
    BY <2>1
  <2> HIDE DEF g
  <2>3. /\ Len(Append(g, n)) = Len(d) + 1 /\ Append(g, n)[i] = z(i, answer)
        /\ \A j \in 1..Len(d) : j # i => Append(g, n)[j] = d[j]
        /\ Append(g, n)[Len(d) + 1] = n
    BY <1>5, <2>1, <2>2
  <2>4. Draft(p)' = IF Raises(y(i, answer), answer) THEN Append(g, n) ELSE g
    BY <1>10, Zenon DEF g, d
  <2>5. /\ Draft(p)'[i] = z(i, answer)
        /\ \A j \in 1..Len(d) : j # i => Draft(p)'[j] = d[j]
        /\ IF Raises(y(i, answer), answer)
           THEN Len(Draft(p)') = Len(d) + 1 /\ Draft(p)'[Len(d) + 1] = n
           ELSE Len(Draft(p)') = Len(d)
    BY <2>2, <2>3, <2>4, Zenon
  <2> QED BY <1>1, <1>2, <1>3, <1>4, <1>9, <2>5, Zenon DEF Posts, w, x, y, z, n, d
<1>12. registry' = registry
  BY DEF Post
<1> QED BY <1>2, <1>3, <1>7, <1>9, <1>11, <1>12

-----------------------------------------------------------------------------
(* Consistent lists.                                                       *)

LEMMA EmptyConsistent == Consistent(<<>>)
BY DEF Consistent, Kinded, Unique, Paired

\* Items and alert marks decide whether a list is consistent.
LEMMA SameConsistent ==
  ASSUME NEW list \in Seq(Entries), Consistent(list), NEW after, Len(after) = Len(list),
         \A i \in 1..Len(list) : /\ Id(after[i]) = Id(list[i])
                                 /\ after[i].alerted = list[i].alerted
  PROVE  Consistent(after)
<1>1. \A i \in 1..Len(list) : /\ after[i].event = list[i].event /\ after[i].kind = list[i].kind
                              /\ Id(after[i]) = Id(list[i])
                              /\ after[i].alerted = list[i].alerted
  BY DEF Id
<1>2. Kinded(after)
  BY <1>1 DEF Consistent, Kinded
<1>3. Unique(after)
  BY <1>1 DEF Consistent, Unique
<1>4. Paired(after)
  <2> SUFFICES ASSUME NEW i \in 1..Len(after), after[i].kind # Alert
               PROVE  after[i].alerted <=>
                        \E j \in 1..Len(after) : Id(after[j]) = <<after[i].event, Alert>>
    BY DEF Paired
  <2>1. list[i].alerted <=> \E j \in 1..Len(list) : Id(list[j]) = <<list[i].event, Alert>>
    BY <1>1 DEF Consistent, Paired
  <2> QED BY <1>1, <2>1
<1> QED BY <1>2, <1>3, <1>4 DEF Consistent

\* An event that is not in the list may be appended to it.
LEMMA NewConsistent ==
  ASSUME NEW list \in Seq(Entries), Consistent(list), NEW e \in Events,
         \A i \in 1..Len(list) : list[i].event # e
  PROVE  Consistent(Append(list, NewEntry(e, KindOf[e])))
<1> DEFINE n == NewEntry(e, KindOf[e])
           after == Append(list, n)
<1>1. n.event = e /\ n.kind = KindOf[e] /\ n.kind # Alert /\ ~n.alerted /\ Id(n) = <<e, KindOf[e]>>
  BY OutboxAssumption DEF NewEntry, Id
<1>2. n \in Entries
  BY NewEntryType, OutboxAssumption
<1> HIDE DEF n
<1>3. /\ Len(after) = Len(list) + 1 /\ Len(list) \in Nat
      /\ after[Len(list) + 1] = n /\ \A i \in 1..Len(list) : after[i] = list[i]
  BY <1>2
<1> HIDE DEF after
<1>4. \A i \in 1..Len(after) : i \in 1..Len(list) \/ i = Len(list) + 1
  BY <1>3
<1>5. \A i \in 1..Len(list) : Id(list[i])[1] # e /\ list[i].event # e
  BY DEF Id
<1>6. Kinded(after)
  BY <1>1, <1>3, <1>4 DEF Consistent, Kinded
<1>7. Unique(after)
  BY <1>1, <1>3, <1>4, <1>5 DEF Consistent, Unique
<1>8. Paired(after)
  <2> SUFFICES ASSUME NEW i \in 1..Len(after), after[i].kind # Alert
               PROVE  after[i].alerted <=>
                        \E j \in 1..Len(after) : Id(after[j]) = <<after[i].event, Alert>>
    BY DEF Paired
  <2>1. CASE i = Len(list) + 1
    BY <1>1, <1>3, <1>4, <1>5, <2>1
  <2>2. CASE i \in 1..Len(list)
    <3>1. 1..Len(list) \subseteq 1..Len(after)
      BY <1>3
    <3>2. after[i] = list[i] /\ list[i].event # e
      BY <1>3, <1>5, <2>2
    <3>3. list[i].alerted <=> \E j \in 1..Len(list) : Id(list[j]) = <<list[i].event, Alert>>
      BY <2>2, <3>2 DEF Consistent, Paired
    <3>4. Id(n) # <<list[i].event, Alert>>
      BY <1>1, <3>2
    <3> QED BY <1>3, <1>4, <3>1, <3>2, <3>3, <3>4
  <2> QED BY <1>4, <2>1, <2>2
<1> QED BY <1>6, <1>7, <1>8 DEF Consistent, after, n

\* So may the first alert of an entry, which is marked for it.
LEMMA AlertConsistent ==
  ASSUME NEW list \in Seq(Entries), Consistent(list), NEW i \in 1..Len(list), NEW after,
         Len(after) = Len(list) + 1,
         list[i].kind # Alert, ~list[i].alerted, list[i].event \in Events,
         Id(after[i]) = Id(list[i]), after[i].alerted,
         \A j \in 1..Len(list) : j # i => after[j] = list[j],
         after[Len(list) + 1] = NewEntry(list[i].event, Alert)
  PROVE  Consistent(after)
<1> DEFINE e == list[i].event
           n == after[Len(list) + 1]
<1>1. n.event = e /\ n.kind = Alert /\ Id(n) = <<e, Alert>>
  BY DEF NewEntry, Id
<1>2. \A j \in 1..Len(list) : /\ Id(after[j]) = Id(list[j])
                              /\ after[j].event = list[j].event /\ after[j].kind = list[j].kind
                              /\ j # i => after[j].alerted = list[j].alerted
  BY DEF Id
<1>3. \A j \in 1..Len(after) : j \in 1..Len(list) \/ j = Len(list) + 1
  OBVIOUS
<1>4. \A j \in 1..Len(list) : Id(list[j]) # <<e, Alert>>
  BY DEF Consistent, Paired
<1>5. \A j \in 1..Len(list) : list[j].kind # Alert /\ list[j].event = e => j = i
  BY DEF Consistent, Kinded, Unique, Id
<1>6. 1..Len(list) \subseteq 1..Len(after) /\ Len(list) + 1 \in 1..Len(after)
  OBVIOUS
<1> HIDE DEF n, e
<1>7. Kinded(after)
  BY <1>1, <1>2, <1>3 DEF Consistent, Kinded, n
<1>8. Unique(after)
  BY <1>1, <1>2, <1>3, <1>4 DEF Consistent, Unique, n
<1>9. Paired(after)
  <2> SUFFICES ASSUME NEW j \in 1..Len(after), after[j].kind # Alert
               PROVE  after[j].alerted <=>
                        \E k \in 1..Len(after) : Id(after[k]) = <<after[j].event, Alert>>
    BY DEF Paired
  <2>1. j \in 1..Len(list)
    BY <1>1, <1>3 DEF n
  <2>2. CASE j = i
    BY <1>1, <1>6, <2>2 DEF n, e, Id
  <2>3. CASE j # i
    <3>1. list[j].event # e
      BY <1>2, <1>5, <2>1, <2>3
    <3>2. list[j].alerted <=> \E k \in 1..Len(list) : Id(list[k]) = <<list[j].event, Alert>>
      BY <1>2, <2>1 DEF Consistent, Paired
    <3>3. Id(n) # <<list[j].event, Alert>>
      BY <1>1, <3>1
    <3> QED BY SMTT(20), <1>2, <1>3, <1>6, <2>1, <2>3, <3>2, <3>3 DEF n
  <2> QED BY <2>2, <2>3
<1> QED BY <1>7, <1>8, <1>9 DEF Consistent

-----------------------------------------------------------------------------
(* The invariant of the lists.                                             *)

\* What has reached a webhook stays so.
LEMMA TruthKept ==
  ASSUME NEW x, Truthful(x), accepted \subseteq accepted'
  PROVE  Truthful(x)'
BY DEF Truthful

\* An operation without a copy appends nothing.
LEMMA EmptyHandedStep ==
  ASSUME TInv, EmptyHanded, [Next]_vars
  PROVE  EmptyHanded'
<1> USE DEF EmptyHanded
<1>1. ASSUME NEW p \in Procs, NEW to, Goto(p, to), to \in {"save", "scan", "write"},
             emitted' = emitted
      PROVE  EmptyHanded'
  BY <1>1 DEF Goto, TInv, TypeOK
<1>2. ASSUME NEW p \in Procs, Forget(p), \A q \in Procs \ {p} : pc'[q] = pc[q]
      PROVE  EmptyHanded'
  BY <1>2, ForgetDraft
<1>3. ASSUME NEW p \in Procs, PublishLoad(p) \/ DeliverLoad(p) \/ ReplayLoad(p) \/ Truncate(p)
      PROVE  EmptyHanded'
  BY <1>1, <1>3 DEF PublishLoad, DeliverLoad, ReplayLoad, Truncate, round
<1>4. ASSUME NEW p \in Procs, ReplaySelect(p) PROVE EmptyHanded'
  BY <1>4 DEF ReplaySelect, Goto, round, TInv, TypeOK
<1>5. ASSUME NEW p \in Procs, Post(p) PROVE EmptyHanded'
  <2>1. pc' = pc /\ pc[p] = "scan" /\ \A q \in Procs \ {p} : emitted'[q] = emitted[q]
    BY <1>5 DEF Post, TInv, TypeOK
  <2> QED BY <2>1
<1>6. ASSUME NEW p \in Procs, Save(p) \/ Crash(p) PROVE EmptyHanded'
  <2>1. Forget(p) /\ \A q \in Procs \ {p} : pc'[q] = pc[q]
    BY <1>6 DEF Save, Crash, Return, Goto, TInv, TypeOK
  <2> QED BY <1>2, <2>1
<1>7. CASE Tick \/ UNCHANGED vars
  BY <1>7, IdleLists
<1> QED BY <1>3, <1>4, <1>5, <1>6, <1>7 DEF Next, WorkerStep, OperatorStep, WriteBack, Procs

\* Nothing is in a list that nobody has published or is publishing.
LEMMA PublishedFirstStep ==
  ASSUME FileInv, [Next]_vars
  PROVE  PublishedFirst'
<1> USE DEF FileInv
<1>1. ASSUME NEW p \in Procs, registry' = registry, published' = published,
             \A q \in Procs \ {p} : Draft(q)' = Draft(q) /\ chosen'[q] = chosen[q],
             \A i \in 1..Len(Draft(p)') :
               \/ Draft(p)'[i].event \in published
               \/ p \in Publishers /\ \E item \in chosen'[p] : item[1] = Draft(p)'[i].event
      PROVE  PublishedFirst'
  <2>1. \A i \in 1..Len(registry') : registry'[i].event \in published'
    BY <1>1 DEF PublishedFirst
  <2>2. ASSUME NEW q \in Procs, NEW i \in 1..Len(Draft(q)')
        PROVE  \/ Draft(q)'[i].event \in published'
               \/ q \in Publishers /\ \E item \in chosen'[q] : item[1] = Draft(q)'[i].event
    BY <1>1 DEF PublishedFirst
  <2> QED BY <2>1, <2>2 DEF PublishedFirst
<1>2. ASSUME NEW p \in Procs, DeliverLoad(p) PROVE PublishedFirst'
  <2>1. pc[p] \in {"idle", "load", "selected"} /\ Reads(p, registry) /\ emitted' = emitted
    BY <1>2 DEF DeliverLoad
  <2>2. registry \in Seq(Entries)
    BY DEF TInv, TypeOK
  <2>3. published' = published /\ chosen' = chosen
    BY <1>2 DEF DeliverLoad, request
  <2>4. registry' = registry /\ Draft(p)' = registry /\ \A q \in Procs \ {p} : Draft(q)' = Draft(q)
    BY <2>1, <2>2, ReadsDraft
  <2> QED BY <1>1, <2>3, <2>4 DEF PublishedFirst
<1>3. ASSUME NEW p \in Publishers, PublishLoad(p) PROVE PublishedFirst'
  <2>0. p \in Procs
    BY DEF Procs
  <2>1. PICK e \in Events :
           /\ chosen' = [chosen EXCEPT ![p] = {<<e, KindOf[e]>>}]
           /\ registry' = registry
           /\ Draft(p)' = Append(registry, NewEntry(e, KindOf[e]))
           /\ \A q \in Procs \ {p} : Draft(q)' = Draft(q)
    BY <1>3, <2>0, PublishLists
  <2>2. published' = published /\ chosen'[p] = {<<e, KindOf[e]>>}
    BY <1>3, <2>0, <2>1 DEF PublishLoad, TInv, TypeOK
  <2>3. \A q \in Procs \ {p} : chosen'[q] = chosen[q]
    BY <2>1 DEF TInv, TypeOK
  <2>4. NewEntry(e, KindOf[e]) \in Entries /\ NewEntry(e, KindOf[e]).event = e
    BY NewEntryType, OutboxAssumption DEF NewEntry
  <2>5. ASSUME NEW i \in 1..Len(Draft(p)')
        PROVE  Draft(p)'[i].event \in published \/ Draft(p)'[i].event = e
    <3>1. registry \in Seq(Entries)
      BY DEF TInv, TypeOK
    <3>2. \/ i \in 1..Len(registry) /\ Draft(p)'[i] = registry[i]
          \/ Draft(p)'[i] = NewEntry(e, KindOf[e])
      BY <2>1, <2>4, <3>1
    <3> QED BY <2>4, <3>2 DEF PublishedFirst
  <2>6. \E item \in chosen'[p] : item[1] = e
    BY <2>2
  <2> QED BY <1>1, <2>0, <2>1, <2>2, <2>3, <2>5, <2>6
<1>4. ASSUME NEW p \in Procs, ReplaySelect(p), p \notin Publishers PROVE PublishedFirst'
  <2>1. registry' = registry /\ published' = published /\ \A q \in Procs : Draft(q)' = Draft(q)
    BY <1>4 DEF ReplaySelect, Draft, round
  <2>2. \A q \in Procs \ {p} : chosen'[q] = chosen[q]
    BY <1>4 DEF ReplaySelect, TInv, TypeOK
  <2> QED BY <1>1, <1>4, <2>1, <2>2 DEF PublishedFirst
<1>5. ASSUME NEW p \in Procs, ReplayLoad(p) PROVE PublishedFirst'
  <2>1. published' = published /\ chosen' = chosen
    BY <1>5 DEF ReplayLoad, request
  <2>2. /\ registry' = registry /\ Draft(p)' = ReplayedList(p)
        /\ \A q \in Procs \ {p} : Draft(q)' = Draft(q)
    BY <1>5, ReplayLists
  <2>3. ASSUME NEW i \in 1..Len(ReplayedList(p)) PROVE ReplayedList(p)[i].event \in published
    <3>0. TypeOK
      BY DEF TInv
    <3>1. i \in 1..Len(registry) /\ registry[i] \in Entries
      BY SMTT(20), <3>0, ReplayedListType DEF TypeOK
    <3>2. ReplayedList(p)[i].event = registry[i].event
      BY <3>1 DEF ReplayedList, Replayed, Entries
    <3> QED BY <3>1, <3>2 DEF PublishedFirst
  <2> QED BY <1>1, <2>1, <2>2, <2>3
<1>6. ASSUME NEW p \in Procs, Post(p) PROVE PublishedFirst'
  <2>1. PICK i \in 1..Len(Draft(p)), answer \in Answers : Posts(p, i, answer)
    BY <1>6, PostLists
  <2>2. /\ registry' = registry /\ published' = published /\ chosen' = chosen
        /\ \A q \in Procs \ {p} : Draft(q)' = Draft(q)
    BY <1>6, PostLists DEF Post, request
  <2>3. Draft(p)'[i].event = Draft(p)[i].event
    BY <2>1 DEF Posts, Id, Entries
  <2>4. ASSUME NEW j \in 1..Len(Draft(p)')
        PROVE  \E k \in 1..Len(Draft(p)) : Draft(p)'[j].event = Draft(p)[k].event
    <3>1. Len(Draft(p)) \in Nat
      BY DraftType
    <3>2. j \in 1..Len(Draft(p)) \/ j = Len(Draft(p)) + 1
      BY <2>1, <3>1 DEF Posts
    <3>3. CASE j \in 1..Len(Draft(p))
      BY <2>1, <2>3, <3>3 DEF Posts
    <3>4. CASE j = Len(Draft(p)) + 1
      BY <2>1, <3>1, <3>4 DEF Posts, NewEntry
    <3> QED BY <3>2, <3>3, <3>4
  <2> QED BY <1>1, <2>2, <2>4 DEF PublishedFirst
<1>7. ASSUME NEW p \in Procs, Truncate(p) PROVE PublishedFirst'
  <2>1. /\ registry' = <<>> /\ published' = published /\ chosen' = chosen
        /\ \A q \in Procs : Draft(q)' = Draft(q)
    BY <1>7 DEF Truncate, Draft, round, request
  <2> QED BY <2>1 DEF PublishedFirst
<1>8. ASSUME NEW p \in Procs, Crash(p) PROVE PublishedFirst'
  <2>1. Forget(p) /\ registry' = registry /\ published' = published
    BY <1>8 DEF Crash
  <2>2. \A q \in Procs \ {p} : chosen'[q] = chosen[q]
    BY <2>1 DEF Forget, TInv, TypeOK
  <2> QED BY <1>1, <2>1, <2>2, ForgetDraft
<1>9. ASSUME NEW p \in Procs, Save(p) PROVE PublishedFirst'
  <2>1. /\ Forget(p) /\ registry' = Draft(p)
        /\ published' = IF p \in Publishers
                        THEN published \cup {item[1] : item \in chosen[p]} ELSE published
    BY <1>9 DEF Save, Draft
  <2>2. \A q \in Procs \ {p} : chosen'[q] = chosen[q]
    BY <2>1 DEF Forget, TInv, TypeOK
  <2>3. Draft(p)' = <<>> /\ \A q \in Procs \ {p} : Draft(q)' = Draft(q)
    BY <2>1, ForgetDraft
  <2> QED BY <2>1, <2>2, <2>3 DEF PublishedFirst
<1>10. CASE Tick \/ UNCHANGED vars
  BY <1>10, IdleLists DEF PublishedFirst
<1>11. Workers \cup Operators \subseteq Procs \ Publishers /\ Publishers \subseteq Procs
  BY RoleAssumption DEF Procs
<1> QED BY <1>2, <1>3, <1>4, <1>5, <1>6, <1>7, <1>8, <1>9, <1>10, <1>11
        DEF Next, WorkerStep, OperatorStep, WriteBack

\* A new entry says nothing that could be false.
LEMMA NewTruthful ==
  ASSUME NEW e \in Events, NEW k \in Kinds
  PROVE  Truthful(NewEntry(e, k))
BY DEF Truthful, NewEntry, Troubled

\* Nor does a replayed one: it keeps its receipts and its alert.
LEMMA ReplayedTruthful ==
  ASSUME NEW x \in Entries, NEW t, Truthful(x)
  PROVE  Truthful(Replayed(x, t))
<1>1. /\ Replayed(x, t).receipts = x.receipts /\ Replayed(x, t).status = "pending"
      /\ Id(Replayed(x, t)) = Id(x)
  BY DEF Replayed, Entries, Id
<1> QED BY <1>1 DEF Truthful, Troubled

\* A posted entry has a receipt only from who took it, and an alert when in trouble.
LEMMA PostedTruthful ==
  ASSUME NEW p \in Procs, NEW i, NEW answer, Posts(p, i, answer), Truthful(buf[p][i]),
         NEW z, z = Draft(p)'[i]
  PROVE  Truthful(z)'
<1> DEFINE w == Hooks[hook[p]]
           x == buf[p][i]
           y == AfterPost(x, w, answer, clock[p])
<1>1. /\ x \in Entries /\ y \in Entries /\ Id(y) = Id(x) /\ y.alerted = x.alerted
      /\ accepted' = IF answer = "ok" THEN accepted \cup {<<w, Id(x)>>} ELSE accepted
      /\ z = IF Raises(y, answer) THEN [y EXCEPT !.alerted = TRUE] ELSE y
  BY Zenon DEF Posts, Receive
<1>1a. \A v \in x.receipts : <<v, Id(x)>> \in accepted
  BY DEF Truthful
<1>2. /\ z.status = y.status /\ z.receipts = y.receipts /\ z.kind = y.kind
      /\ z.attempts = y.attempts /\ Id(z) = Id(x)
      /\ z.alerted = (y.alerted \/ Raises(y, answer))
  <2> HIDE DEF y, x
  <2> QED BY <1>1 DEF Id, Entries
<1>3. CASE answer = "ok"
  <2>1. y.status = "delivered" /\ y.receipts = x.receipts \cup {w}
    BY <1>1, <1>3 DEF AfterPost, Delivered, Entries
  <2> HIDE DEF y, x, w
  <2>2. \A v \in z.receipts : <<v, Id(z)>> \in accepted'
    BY <1>1, <1>1a, <1>2, <1>3, <2>1
  <2>3. z.receipts # {} /\ ~Troubled(z)
    BY <1>2, <2>1 DEF Troubled
  <2> QED BY <2>2, <2>3 DEF Truthful, Troubled
<1>4. CASE answer # "ok"
  <2>1. y.status # "delivered" /\ y.receipts = x.receipts
    BY <1>1, <1>4 DEF AfterPost, Failed, Entries
  <2> HIDE DEF y, x, w
  <2>2. Troubled(z) => z.alerted
    BY <1>2, <1>4 DEF Troubled, Raises, NeedsAlert
  <2>3. \A v \in z.receipts : <<v, Id(z)>> \in accepted'
    BY <1>1, <1>1a, <1>2, <2>1
  <2> QED BY <1>2, <2>1, <2>2, <2>3 DEF Truthful, Troubled
<1> QED BY <1>3, <1>4

\* Every list stays consistent, and true of the posts made so far.
LEMMA SoundStep ==
  ASSUME FileInv, [Next]_vars
  PROVE  (\A list \in Lists : Sound(list))'
<1> USE DEF FileInv
<1>1. accepted \subseteq accepted'
  BY ZenonT(30) DEF Next, PublishLoad, WorkerStep, DeliverLoad, Post, Receive, OperatorStep, ReplaySelect,
         ReplayLoad, Reads, WriteBack, Truncate, Save, Crash, Tick, vars, received
<1>2. ASSUME NEW list, Sound(list) PROVE Sound(list)'
  BY <1>1, <1>2, TruthKept DEF Sound
<1>3. Sound(<<>>)'
  BY EmptyConsistent DEF Sound
<1>4. ASSUME NEW p \in Procs, registry' = registry, \A q \in Procs \ {p} : Draft(q)' = Draft(q),
             NEW list, list = Draft(p)', Sound(list)'
      PROVE  (\A l \in Lists : Sound(l))'
  <2> SUFFICES ASSUME NEW l \in Lists' PROVE Sound(l)'
    OBVIOUS
  <2>1. l = list \/ l \in Lists
    BY <1>4 DEF Lists
  <2> QED BY <1>2, <1>4, <2>1
<1>5. ASSUME Lists' \subseteq Lists \cup {<<>>} PROVE (\A list \in Lists : Sound(list))'
  BY <1>2, <1>3, <1>5
<1>6. ASSUME NEW p \in Publishers, PublishLoad(p) PROVE (\A list \in Lists : Sound(list))'
  <2>0. p \in Procs /\ registry \in Seq(Entries) /\ registry \in Lists
    BY DEF Procs, TInv, TypeOK, Lists
  <2>1. PICK e \in Events \ published :
           /\ registry' = registry
           /\ Draft(p)' = Append(registry, NewEntry(e, KindOf[e]))
           /\ \A q \in Procs \ {p} : Draft(q)' = Draft(q)
    BY <1>6, <2>0, PublishLists
  <2> DEFINE n == NewEntry(e, KindOf[e])
             list == Append(registry, n)
  <2>2. Consistent(list)
    BY <2>0, NewConsistent DEF PublishedFirst, Sound
  <2>3. n \in Entries /\ Truthful(n)
    BY NewEntryType, NewTruthful, OutboxAssumption
  <2> HIDE DEF n
  <2>4. \A i \in 1..Len(list) : list[i] = n \/ (i \in 1..Len(registry) /\ list[i] = registry[i])
    BY <2>0, <2>3
  <2> HIDE DEF list
  <2>5. Sound(list)
    BY <2>0, <2>2, <2>3, <2>4 DEF Sound
  <2> QED BY <1>2, <1>4, <2>0, <2>1, <2>5 DEF list, n
<1>7. ASSUME NEW p \in Procs, ReplayLoad(p) PROVE (\A list \in Lists : Sound(list))'
  <2> DEFINE list == ReplayedList(p)
  <2>0. TypeOK /\ registry \in Seq(Entries) /\ registry \in Lists
    BY DEF TInv, TypeOK, Lists
  <2>1. /\ registry' = registry /\ Draft(p)' = list
        /\ \A q \in Procs \ {p} : Draft(q)' = Draft(q)
    BY <1>7, ReplayLists
  <2>2. list \in Seq(Entries) /\ Len(list) = Len(registry)
    BY <2>0, ReplayedListType
  <2>3. \A i \in 1..Len(registry) :
          /\ registry[i] \in Entries
          /\ list[i] \in {registry[i], Replayed(registry[i], now)}
    BY <2>0 DEF ReplayedList
  <2>4. \A x \in Entries : LET y == Replayed(x, now) IN Id(y) = Id(x) /\ y.alerted = x.alerted
    BY DEF Replayed, Id, Entries
  <2> HIDE DEF list
  <2>5. Consistent(list)
    BY <2>0, <2>2, <2>3, <2>4, SameConsistent DEF Sound
  <2>6. Sound(list)
    BY <2>0, <2>2, <2>3, <2>5, ReplayedTruthful DEF Sound
  <2> QED BY <1>2, <1>4, <2>1, <2>6
<1>8. ASSUME NEW p \in Procs, Post(p) PROVE (\A list \in Lists : Sound(list))'
  <2> DEFINE list == Draft(p)
  <2>1. PICK i \in DueFor(p), answer \in Answers : Posts(p, i, answer) /\ i \in 1..Len(list)
    BY <1>8, PostLists
  <2>2. registry' = registry /\ \A q \in Procs \ {p} : Draft(q)' = Draft(q)
    BY <1>8, PostLists
  <2>3. list \in Seq(Entries) /\ Sound(list)
    BY DraftType DEF Lists
  <2> DEFINE x == buf[p][i]
             y == AfterPost(x, Hooks[hook[p]], answer, clock[p])
  <2>4. PICK after : after = Draft(p)'
    OBVIOUS
  <2>5. /\ x \in Entries /\ x = list[i] /\ y \in Entries /\ Id(y) = Id(x) /\ y.alerted = x.alerted
        /\ after[i] = IF Raises(y, answer) THEN [y EXCEPT !.alerted = TRUE] ELSE y
        /\ \A j \in 1..Len(list) : j # i => after[j] = list[j]
        /\ IF Raises(y, answer)
           THEN Len(after) = Len(list) + 1 /\ after[Len(list) + 1] = NewEntry(x.event, Alert)
           ELSE Len(after) = Len(list)
    BY <2>1, <2>4, Zenon DEF Posts
  <2> HIDE DEF x, y
  <2>6. Id(after[i]) = Id(list[i]) /\ Len(list) \in Nat
    BY <2>3, <2>5 DEF Id, Entries
  <2> HIDE DEF list
  <2>7. Consistent(after)
    <3>1. CASE Raises(y, answer)
      <4>1. list[i].kind # Alert /\ ~list[i].alerted /\ list[i].event \in Events
        BY <2>5, <3>1 DEF Raises, NeedsAlert, Id, Entries
      <4>2. after[i].alerted
        BY <2>5, <3>1 DEF Entries
      <4> QED BY <2>1, <2>3, <2>5, <2>6, <3>1, <4>1, <4>2, AlertConsistent DEF Sound
    <3>2. CASE ~Raises(y, answer)
      <4>1. after[i].alerted = list[i].alerted
        BY <2>5, <3>2
      <4> QED BY <2>3, <2>5, <2>6, <3>2, <4>1, SameConsistent DEF Sound
    <3> QED BY <3>1, <3>2
  <2>8. ASSUME NEW j \in 1..Len(after) PROVE Truthful(after[j])'
    <3>1. CASE j = i
      <4>1. Truthful(buf[p][i])
        BY <2>1, <2>3, <2>5 DEF Sound, x
      <4> QED BY <2>1, <2>4, <3>1, <4>1, PostedTruthful
    <3>2. CASE j # i /\ j \in 1..Len(list)
      BY <1>1, <2>3, <2>5, <3>2, TruthKept DEF Sound
    <3>3. CASE j \notin 1..Len(list)
      <4>1. Raises(y, answer) /\ j = Len(list) + 1 /\ x.event \in Events
        BY <2>5, <2>6, <3>3 DEF Entries
      <4>2. Truthful(NewEntry(x.event, Alert))
        BY <4>1, NewTruthful, OutboxAssumption
      <4> QED BY <1>1, <2>5, <4>1, <4>2, TruthKept
    <3> QED BY <3>1, <3>2, <3>3
  <2>9. Sound(after)'
    BY <2>7, <2>8 DEF Sound
  <2> QED BY <1>4, <2>2, <2>4, <2>9
<1>9. ASSUME NEW p \in Procs,
             DeliverLoad(p) \/ ReplaySelect(p) \/ WriteBack(p) \/ Crash(p)
      PROVE  (\A list \in Lists : Sound(list))'
  BY <1>5, <1>9, QuietLists
<1>10. CASE Tick \/ UNCHANGED vars
  BY <1>5, <1>10, IdleLists
<1> QED BY <1>6, <1>7, <1>8, <1>9, <1>10 DEF Next, WorkerStep, OperatorStep, Procs

LEMMA FileInit == Init => FileInv
<1> SUFFICES ASSUME Init PROVE FileInv
  OBVIOUS
<1>1. TInv
  BY TypeInit
<1>2. registry = <<>> /\ \A p \in Procs : emitted[p] = <<>> /\ Draft(p) = <<>>
  BY DEF Init, Draft
<1>3. EmptyHanded /\ PublishedFirst
  BY <1>2 DEF EmptyHanded, PublishedFirst
<1>4. \A list \in Lists : Sound(list)
  BY <1>2, EmptyConsistent DEF Lists, Sound
<1> QED BY <1>1, <1>3, <1>4 DEF FileInv

LEMMA FileStep ==
  ASSUME FileInv, [Next]_vars
  PROVE  FileInv'
BY TypeStep, EmptyHandedStep, PublishedFirstStep, SoundStep DEF FileInv

\* What the file says was delivered was accepted by somebody whose receipt the entry has,
\* and an entry in trouble has its one alert (deliver_pending_events, _failed_delivery_event,
\* _maybe_emit_retry_alert), for any operations that overwrite each other's copies, die or
\* read a half-written file.
THEOREM FileIsTrue == Spec => []FileTellsTruth
<1>1. Init => FileInv
  BY FileInit
<1>2. FileInv /\ [Next]_vars => FileInv'
  BY FileStep
<1>3. FileInv => FileTellsTruth
  <2> SUFFICES ASSUME FileInv PROVE FileTellsTruth
    OBVIOUS
  <2>1. Sound(registry) /\ \A i \in 1..Len(registry) : registry[i] \in Entries
    BY DEF FileInv, Lists, TInv, TypeOK
  <2>2. DeliveredWasAccepted
    BY <2>1 DEF DeliveredWasAccepted, Entry, Sound, Truthful
  <2>3. AlertedOnce
    <3> SUFFICES ASSUME NEW x \in Entry, x.kind # Alert
                 PROVE  /\ Troubled(x) => x.alerted
                        /\ LET alerts == {j \in 1..Len(registry) : Id(registry[j]) = <<x.event, Alert>>}
                           IN  IF x.alerted THEN \E j \in alerts : alerts = {j} ELSE alerts = {}
      BY DEF AlertedOnce, Troubled
    <3>0. PICK i \in 1..Len(registry) : x = registry[i]
      BY DEF Entry
    <3> DEFINE alerts == {j \in 1..Len(registry) : Id(registry[j]) = <<registry[i].event, Alert>>}
    <3>1. Troubled(registry[i]) => registry[i].alerted
      BY <2>1 DEF Sound, Truthful
    <3>2. registry[i].alerted <=> alerts # {}
      BY <2>1, <3>0 DEF Sound, Consistent, Paired
    <3>3. \A j, k \in alerts : j = k
      BY <2>1 DEF Sound, Consistent, Unique
    <3>4. alerts # {} => \E j \in alerts : alerts = {j}
      BY <3>3
    <3> HIDE DEF alerts
    <3>5. IF registry[i].alerted THEN \E j \in alerts : alerts = {j} ELSE alerts = {}
      BY <3>2, <3>4
    <3> QED BY <3>0, <3>1, <3>5 DEF alerts
  <2> QED BY <2>2, <2>3 DEF FileTellsTruth
<1> QED BY <1>1, <1>2, <1>3, PTL DEF Spec

-----------------------------------------------------------------------------
(* The budget of attempts.  A replay grants an attempt to the entries it   *)
(* revives.  It does so when it reads the file, and is counted before, so  *)
(* the replays that were chosen and have not read are not in the budget.   *)

\* The operators that have chosen and not read: their replays are still to be spent.
Selected == {p \in Procs : pc[p] = "selected"}
Budget == DeadThreshold + replays - Cardinality(Selected)

InBudget(x) ==
  x.attempts + (IF x.status \in {"pending", "retry_pending"} THEN 1 ELSE 0) <= Budget

Within(list) == \A i \in 1..Len(list) : InBudget(list[i])

BudgetInv ==
  /\ TInv /\ EmptyHanded
  /\ IsFiniteSet(Selected) /\ Cardinality(Selected) <= replays
  /\ \A list \in Lists : Within(list)

\* The budget never shrinks, and reading the file for a replay adds one.
LEMMA BudgetGrows ==
  ASSUME TInv, IsFiniteSet(Selected), Cardinality(Selected) <= replays, [Next]_vars
  PROVE  /\ IsFiniteSet(Selected') /\ Cardinality(Selected') <= replays'
         /\ Budget \in Nat /\ Budget' \in Nat /\ Budget <= Budget' /\ DeadThreshold <= Budget
         /\ (\E p \in Procs : ReplayLoad(p)) => Budget + 1 <= Budget'
<1>1. Cardinality(Selected) \in Nat /\ replays \in Nat /\ DeadThreshold \in Nat
  BY FS_CardinalityType, NumberAssumption DEF TInv, TypeOK
<1>2. CASE Selected' = Selected /\ replays' = replays /\ ~(\E p \in Procs : ReplayLoad(p))
  BY <1>1, <1>2 DEF Budget
<1>3. ASSUME NEW p \in Procs, Selected' = Selected \ {p}, replays' = replays, p \in Selected
      PROVE  /\ IsFiniteSet(Selected') /\ Cardinality(Selected') = Cardinality(Selected) - 1
             /\ Cardinality(Selected') \in Nat
  BY <1>3, FS_RemoveElement, FS_CardinalityType
<1>4. ASSUME NEW p \in Procs, ReplaySelect(p)
      PROVE  /\ IsFiniteSet(Selected') /\ Cardinality(Selected') = Cardinality(Selected) + 1
             /\ replays' = replays + 1 /\ ~(\E q \in Procs : ReplayLoad(q))
  <2>1. Selected' = Selected \cup {p} /\ p \notin Selected
    BY <1>4 DEF ReplaySelect, Goto, Selected, TInv, TypeOK
  <2>2. replays' = replays + 1
    BY <1>4 DEF ReplaySelect
  <2>3. ASSUME NEW q \in Procs, ReplayLoad(q) PROVE FALSE
    <3>1. replays' = replays
      BY <2>3 DEF ReplayLoad, request
    <3> QED BY <1>1, <2>2, <3>1
  <2> QED BY <2>1, <2>2, <2>3, FS_AddElement
<1>5. ASSUME NEW p \in Procs, pc[p] = "selected", pc'[p] # "selected", replays' = replays,
             \A q \in Procs \ {p} : pc'[q] = pc[q]
      PROVE  Selected' = Selected \ {p} /\ p \in Selected
  BY <1>5 DEF Selected
<1>6. ASSUME NEW p \in Procs, pc[p] # "selected", pc'[p] # "selected", replays' = replays,
             \A q \in Procs \ {p} : pc'[q] = pc[q]
      PROVE  Selected' = Selected
  BY <1>6 DEF Selected
<1>7. ASSUME NEW p \in Procs,
             PublishLoad(p) \/ DeliverLoad(p) \/ Post(p) \/ WriteBack(p) \/ Crash(p)
      PROVE  ~(\E q \in Procs : ReplayLoad(q)) /\ replays' = replays /\ pc'[p] # "selected"
             /\ \A q \in Procs \ {p} : pc'[q] = pc[q]
  <2>1. CASE PublishLoad(p)
    BY <2>1 DEF PublishLoad, ReplayLoad, Goto, TInv, TypeOK, request
  <2>2. CASE DeliverLoad(p)
    BY <2>2 DEF DeliverLoad, ReplayLoad, Goto, TInv, TypeOK, request
  <2>3. CASE Post(p)
    BY <2>3 DEF Post, ReplayLoad, Goto, TInv, TypeOK, request
  <2>4. CASE WriteBack(p)
    BY <2>4 DEF WriteBack, Truncate, Save, CopyReady, Return, ReplayLoad, Goto, TInv, TypeOK, request
  <2>5. CASE Crash(p)
    BY <2>5 DEF Crash, Return, ReplayLoad, Goto, TInv, TypeOK
  <2> QED BY <1>7, <2>1, <2>2, <2>3, <2>4, <2>5
<1>8. CASE \E p \in Procs :
             PublishLoad(p) \/ DeliverLoad(p) \/ Post(p) \/ WriteBack(p) \/ Crash(p)
  <2>1. PICK p \in Procs :
          PublishLoad(p) \/ DeliverLoad(p) \/ Post(p) \/ WriteBack(p) \/ Crash(p)
    BY <1>8
  <2>2. CASE pc[p] = "selected"
    <3>1. Selected' = Selected \ {p} /\ p \in Selected /\ replays' = replays
      BY <1>5, <1>7, <2>1, <2>2
    <3>2. /\ IsFiniteSet(Selected') /\ Cardinality(Selected') = Cardinality(Selected) - 1
          /\ Cardinality(Selected') \in Nat
      BY <1>3, <3>1
    <3> QED BY <1>1, <1>7, <2>1, <3>1, <3>2 DEF Budget
  <2>3. CASE pc[p] # "selected"
    BY <1>2, <1>6, <1>7, <2>1, <2>3
  <2> QED BY <2>2, <2>3
<1>9. ASSUME NEW p \in Procs, ReplayLoad(p)
      PROVE  /\ IsFiniteSet(Selected') /\ Cardinality(Selected') = Cardinality(Selected) - 1
             /\ Cardinality(Selected') \in Nat /\ replays' = replays
  <2>1. /\ pc[p] = "selected" /\ pc'[p] # "selected" /\ replays' = replays
        /\ \A q \in Procs \ {p} : pc'[q] = pc[q]
    BY <1>9 DEF ReplayLoad, Goto, TInv, TypeOK, request
  <2> QED BY <1>3, <1>5, <2>1
<1>10. CASE \E p \in Procs : ReplayLoad(p)
  BY <1>1, <1>9, <1>10 DEF Budget
<1>11. CASE \E p \in Procs : ReplaySelect(p)
  BY <1>1, <1>4, <1>11 DEF Budget
<1>12. CASE Tick \/ UNCHANGED vars
  <2>1. Selected' = Selected /\ replays' = replays
    BY <1>12, IdleLists DEF Selected
  <2>2. ~(\E p \in Procs : ReplayLoad(p))
    BY <1>12 DEF Tick, vars, ReplayLoad, Goto, TInv, TypeOK
  <2> QED BY <1>2, <2>1, <2>2
<1> QED BY <1>8, <1>10, <1>11, <1>12 DEF Next, WorkerStep, OperatorStep, Procs

\* No step puts an entry beyond the budget of the next state.
LEMMA BudgetStep ==
  ASSUME BudgetInv, [Next]_vars
  PROVE  BudgetInv'
<1>0. TInv' /\ EmptyHanded' /\ IsFiniteSet(Selected') /\ Cardinality(Selected') <= replays'
  BY TypeStep, EmptyHandedStep, BudgetGrows DEF BudgetInv
<1>0a. /\ TInv /\ TypeOK /\ registry \in Seq(Entries) /\ EmptyHanded
       /\ \A list \in Lists : list \in Seq(Entries) /\ Within(list)
  BY ListsType DEF BudgetInv, TInv, TypeOK
<1>0b. /\ Budget \in Nat /\ Budget' \in Nat /\ Budget <= Budget' /\ DeadThreshold <= Budget
       /\ DeadThreshold \in Nat \ {0}
       /\ (\E p \in Procs : ReplayLoad(p)) => Budget + 1 <= Budget'
  BY BudgetGrows, NumberAssumption DEF BudgetInv
<1>0c. \A x \in Entries : InBudget(x) => InBudget(x)'
  BY <1>0b DEF InBudget, Entries
<1>1. ASSUME NEW list \in Seq(Entries), Within(list) PROVE Within(list)'
  <2> SUFFICES ASSUME NEW i \in 1..Len(list) PROVE InBudget(list[i])'
    BY DEF Within
  <2>1. list[i] \in Entries /\ InBudget(list[i])
    BY <1>1 DEF Within
  <2> QED BY <1>0c, <2>1
<1>2. Within(<<>>)'
  BY DEF Within
<1>3. ASSUME NEW p \in Procs, registry' = registry, \A q \in Procs \ {p} : Draft(q)' = Draft(q),
             NEW list, list = Draft(p)', Within(list)'
      PROVE  (\A l \in Lists : Within(l))'
  <2> SUFFICES ASSUME NEW l \in Lists' PROVE Within(l)'
    OBVIOUS
  <2>1. l = list \/ l \in Lists
    BY <1>3 DEF Lists
  <2> QED BY <1>0a, <1>1, <1>3, <2>1
<1>4. ASSUME Lists' \subseteq Lists \cup {<<>>} PROVE (\A list \in Lists : Within(list))'
  BY <1>0a, <1>1, <1>2, <1>4
<1>5. Within(registry) /\ \A i \in 1..Len(registry) : registry[i] \in Entries /\ InBudget(registry[i])
  BY <1>0a DEF Lists, Within
<1>6. \A e \in Events, k \in Kinds : InBudget(NewEntry(e, k))'
  BY <1>0b DEF InBudget, NewEntry
<1>7. ASSUME NEW p \in Publishers, PublishLoad(p) PROVE (\A list \in Lists : Within(list))'
  <2>0. p \in Procs
    BY DEF Procs
  <2>1. PICK e \in Events \ published :
           /\ registry' = registry
           /\ Draft(p)' = Append(registry, NewEntry(e, KindOf[e]))
           /\ \A q \in Procs \ {p} : Draft(q)' = Draft(q)
    BY <1>0a, <1>7, <2>0, PublishLists
  <2> DEFINE n == NewEntry(e, KindOf[e])
             list == Append(registry, n)
  <2>2. n \in Entries /\ InBudget(n)'
    BY <1>6, NewEntryType, OutboxAssumption
  <2> HIDE DEF n
  <2>3. \A i \in 1..Len(list) : list[i] = n \/ (i \in 1..Len(registry) /\ list[i] = registry[i])
    BY <1>0a, <2>2
  <2>3a. PICK l : l = list
    OBVIOUS
  <2> HIDE DEF list
  <2>4. \A i \in 1..Len(l) : InBudget(l[i])'
    BY <1>0c, <1>5, <2>2, <2>3, <2>3a
  <2>5. Within(l)'
    BY <2>4 DEF Within
  <2> QED BY <1>3, <2>0, <2>1, <2>3a, <2>5 DEF list, n
<1>8. ASSUME NEW p \in Procs, ReplayLoad(p) PROVE (\A list \in Lists : Within(list))'
  <2>1. /\ registry' = registry /\ Draft(p)' = ReplayedList(p)
        /\ \A q \in Procs \ {p} : Draft(q)' = Draft(q)
    BY <1>0a, <1>8, ReplayLists
  <2>2. PICK list : list = ReplayedList(p)
    OBVIOUS
  <2>3. Len(list) = Len(registry)
    BY <1>0a, <2>2, ReplayedListType
  <2>4. \A i \in 1..Len(registry) :
          \/ list[i] = registry[i]
          \/ registry[i].status = "dead_letter" /\ list[i] = Replayed(registry[i], now)
    BY <1>0a, <2>2 DEF ReplayedList
  <2>5. ASSUME NEW x \in Entries, x.status = "dead_letter", InBudget(x),
               NEW y, y = Replayed(x, now)
        PROVE  InBudget(y)'
    <3>1. x.attempts \in Nat /\ x.attempts <= Budget
      BY <1>0b, <2>5 DEF InBudget, Entries
    <3>2. y.attempts = x.attempts /\ y.status = "pending"
      BY <2>5 DEF Replayed, Entries
    <3>3. y.attempts + 1 <= Budget'
      BY <1>0b, <1>8, <3>1, <3>2
    <3> QED BY <3>2, <3>3 DEF InBudget
  <2>6. \A i \in 1..Len(list) : InBudget(list[i])'
    BY <1>0c, <1>5, <2>3, <2>4, <2>5
  <2>7. Within(list)'
    BY <2>6 DEF Within
  <2> QED BY <1>3, <2>1, <2>2, <2>7
<1>9. ASSUME NEW p \in Procs, Post(p) PROVE (\A list \in Lists : Within(list))'
  <2>1. PICK i \in DueFor(p), answer \in Answers : Posts(p, i, answer) /\ i \in 1..Len(Draft(p))
    BY <1>0a, <1>9, PostLists DEF TInv
  <2>2. registry' = registry /\ \A q \in Procs \ {p} : Draft(q)' = Draft(q)
    BY <1>0a, <1>9, PostLists
  <2>2a. PICK list, x, y : list = Draft(p) /\ x = buf[p][i]
                           /\ y = AfterPost(x, Hooks[hook[p]], answer, clock[p])
    OBVIOUS
  <2>3. list \in Seq(Entries) /\ Within(list)
    BY <1>0a, <2>2a DEF Lists
  <2>4. PICK after : after = Draft(p)'
    OBVIOUS
  <2>5. /\ x \in Entries /\ x = list[i] /\ y \in Entries
        /\ after[i] = IF Raises(y, answer) THEN [y EXCEPT !.alerted = TRUE] ELSE y
        /\ \A j \in 1..Len(list) : j # i => after[j] = list[j]
        /\ IF Raises(y, answer)
           THEN Len(after) = Len(list) + 1 /\ after[Len(list) + 1] = NewEntry(x.event, Alert)
           ELSE Len(after) = Len(list)
    BY <2>1, <2>2a, <2>4, Zenon DEF Posts
  <2>6. x.status \in {"pending", "retry_pending"}
    BY <2>1, <2>2a DEF DueFor, IsDue
  <2>7. InBudget(y)'
    <3>1. x.attempts \in Nat /\ x.attempts + 1 <= Budget
      BY <2>1, <2>2a, <2>3, <2>5, <2>6, <1>0b DEF InBudget, Within, Entries
    <3>2. CASE answer = "ok"
      <4>1. y.attempts = x.attempts + 1 /\ y.status = "delivered"
        BY <2>2a, <2>5, <3>2 DEF AfterPost, Delivered, Entries
      <4> QED BY <1>0b, <3>1, <4>1 DEF InBudget
    <3>3. CASE answer # "ok" /\ answer # "reject" /\ x.attempts + 1 < DeadThreshold
      <4>1. y.attempts = x.attempts + 1 /\ y.status = "retry_pending"
        BY <2>2a, <2>5, <3>3 DEF AfterPost, Failed, Entries
      <4>2. y.attempts + 1 <= Budget'
        BY <1>0b, <3>1, <3>3, <4>1
      <4> QED BY <4>1, <4>2 DEF InBudget
    <3>4. CASE answer # "ok" /\ ~(answer # "reject" /\ x.attempts + 1 < DeadThreshold)
      <4>1. y.attempts = x.attempts + 1 /\ y.status = "dead_letter"
        BY <2>2a, <2>5, <3>4 DEF AfterPost, Failed, Entries
      <4> QED BY <1>0b, <3>1, <4>1 DEF InBudget
    <3> QED BY <3>2, <3>3, <3>4
  <2>8. ASSUME NEW j \in 1..Len(after) PROVE InBudget(after[j])'
    <3>1. CASE j = i
      <4>1. after[i].attempts = y.attempts /\ after[i].status = y.status
        BY <2>5 DEF Entries
      <4> QED BY <2>7, <3>1, <4>1 DEF InBudget
    <3>2. CASE j # i /\ j \in 1..Len(list)
      <4>1. after[j] = list[j] /\ list[j] \in Entries /\ InBudget(list[j])
        BY <2>3, <2>5, <3>2 DEF Within
      <4> QED BY <1>0c, <4>1
    <3>3. CASE j \notin 1..Len(list)
      <4>1. j = Len(list) + 1 /\ after[j] = NewEntry(x.event, Alert)
        BY <2>3, <2>5, <3>3
      <4>2. x.event \in Events /\ Alert \in Kinds
        BY <2>5, OutboxAssumption DEF Entries
      <4> QED BY <1>6, <4>1, <4>2
    <3> QED BY <3>1, <3>2, <3>3
  <2>9. Within(after)'
    BY <2>8 DEF Within
  <2> QED BY <1>3, <2>2, <2>4, <2>9
<1>10. ASSUME NEW p \in Procs,
              DeliverLoad(p) \/ ReplaySelect(p) \/ WriteBack(p) \/ Crash(p)
       PROVE  (\A list \in Lists : Within(list))'
  BY <1>0a, <1>4, <1>10, QuietLists
<1>11. ASSUME Tick \/ UNCHANGED vars PROVE (\A list \in Lists : Within(list))'
  <2>1. Lists' \subseteq Lists \cup {<<>>}
    BY <1>11, IdleLists
  <2> QED BY <1>4, <2>1
<1>12. (\A list \in Lists : Within(list))'
  BY <1>7, <1>8, <1>9, <1>10, <1>11 DEF Next, WorkerStep, OperatorStep, Procs
<1> QED BY <1>0, <1>12 DEF BudgetInv

\* The budget is kept.
LEMMA BudgetInvariant == Spec => []BudgetInv
<1>1. Init => BudgetInv
  <2> SUFFICES ASSUME Init PROVE BudgetInv
    OBVIOUS
  <2>1. TInv
    BY TypeInit
  <2>2. registry = <<>> /\ \A p \in Procs : emitted[p] = <<>> /\ Draft(p) = <<>>
    BY DEF Init, Draft
  <2>3. EmptyHanded
    BY <2>2 DEF EmptyHanded
  <2>4. Selected = {}
    BY DEF Init, Selected
  <2>5. IsFiniteSet(Selected) /\ Cardinality(Selected) <= replays
    BY <2>4, FS_EmptySet DEF Init
  <2>6. \A list \in Lists : Within(list)
    BY <2>2 DEF Lists, Within
  <2> QED BY <2>1, <2>3, <2>5, <2>6 DEF BudgetInv
<1>2. BudgetInv /\ [Next]_vars => BudgetInv'
  BY BudgetStep
<1> QED BY <1>1, <1>2, PTL DEF Spec

\* An entry within its budget, in whatever list.
LEMMA BudgetBound ==
  ASSUME BudgetInv, NEW list \in Lists, NEW i \in 1..Len(list)
  PROVE  list[i].attempts \in Nat /\ list[i].attempts <= DeadThreshold + replays
<1>1. list \in Seq(Entries) /\ list[i] \in Entries
  BY ListsType DEF BudgetInv
<1>2. InBudget(list[i]) /\ list[i].attempts \in Nat
  BY <1>1 DEF BudgetInv, Within, Entries
<1>3. Cardinality(Selected) \in Nat /\ replays \in Nat /\ DeadThreshold \in Nat
  BY FS_CardinalityType, NumberAssumption DEF BudgetInv, TInv, TypeOK
<1> QED BY <1>2, <1>3 DEF BudgetInv, InBudget, Budget

\* No entry of the file is tried more often than the threshold and the replays allow
\* (_failed_delivery_event, replay_dead_lettered_events), for any operations that overwrite each
\* other's copies, die or read a half-written file.
THEOREM AttemptsBounded == Spec => []AttemptBudget
<1>1. BudgetInv => AttemptBudget
  BY BudgetBound DEF AttemptBudget, Entry, Lists
<1> QED BY <1>1, BudgetInvariant, PTL

-----------------------------------------------------------------------------
(* One operation at a time.                                                *)

Queued == {"pending", "retry_pending"}
Holds(list, item) == \E i \in 1..Len(list) : Id(list[i]) = item

\* An operation's list is a later version of the file: entries stay at their place, move
\* on from pending or back from the dead, and those that are new are pending.
Moves(x, y) ==
  /\ Id(y) = Id(x)
  /\ \/ y.status = x.status \/ x.status \in Queued
     \/ x.status = "dead_letter" /\ y.status \in Queued

\* The entry a new alert is about has not been delivered.
Grounded(list, x, limit) ==
  \E j \in 1..Len(list) : /\ j < limit /\ Id(list[j]) = <<x.event, KindOf[x.event]>>
                          /\ list[j].status # "delivered"

Evolved(old, new) ==
  /\ Len(old) <= Len(new)
  /\ \A i \in 1..Len(old) : Moves(old[i], new[i])
  /\ \A i \in 1..Len(new) : i > Len(old) =>
       /\ new[i].status = "pending"
       /\ new[i].kind = Alert => Grounded(new, new[i], Len(old) + 1)

\* During a round nothing comes back from the dead, and alerts are about entries the
\* worker has passed.
Scanned(old, new, next) ==
  /\ \A i \in 1..Len(old) : new[i].status = old[i].status \/ old[i].status \in Queued
  /\ \A i \in 1..Len(new) : i > Len(old) => new[i].kind = Alert /\ Grounded(new, new[i], next)

OneHolder == \A p, q \in Procs : HasCopy(p) /\ HasCopy(q) => p = q

LaterVersion ==
  \A p \in Procs :
    /\ pc[p] \in {"save", "scan"} => Evolved(registry, Draft(p))
    /\ pc[p] = "scan" => Scanned(registry, Draft(p), idx[p]) /\ Len(buf[p]) = Len(registry)

\* What a publisher was given is in its list, what it has published in the file.
PublisherHolds ==
  \A p \in Publishers : \A item \in chosen[p] :
    item = <<item[1], KindOf[item[1]]>> /\ Holds(Draft(p), item)
Kept == \A e \in published : Holds(Contents, <<e, KindOf[e]>>)

SerialInv == FileInv /\ OneHolder /\ LaterVersion /\ PublisherHolds /\ Kept

\* Posts that were answered have their receipts in the list that is worked on.
Recorded(list) ==
  \A post \in accepted : \E i \in 1..Len(list) : Id(list[i]) = post[2] /\ post[1] \in list[i].receipts
ReceiptsKept ==
  crashes = 0 =>
    /\ (\A p \in Procs : ~HasCopy(p)) => Recorded(registry)
    /\ \A p \in Procs : HasCopy(p) => Recorded(Draft(p))

-----------------------------------------------------------------------------
(* Later versions of a list.                                               *)

LEMMA HeldLater ==
  ASSUME NEW old \in Seq(Entries), NEW new \in Seq(Entries), Evolved(old, new),
         NEW item, Holds(old, item)
  PROVE  Holds(new, item)
BY DEF Evolved, Holds, Moves

\* A copy of the file, with a new event at its end or without.
LEMMA CopyEvolves ==
  ASSUME NEW old \in Seq(Entries), NEW next
  PROVE  /\ Evolved(old, old) /\ Scanned(old, old, next)
         /\ \A n \in Entries : n.status = "pending" /\ n.kind # Alert => Evolved(old, Append(old, n))
<1>1. Evolved(old, old) /\ Scanned(old, old, next)
  BY DEF Evolved, Scanned, Moves
<1>2. ASSUME NEW n \in Entries, n.status = "pending", n.kind # Alert
      PROVE  Evolved(old, Append(old, n))
  <2> DEFINE new == Append(old, n)
  <2>1. /\ Len(old) \in Nat /\ Len(new) = Len(old) + 1 /\ new[Len(old) + 1] = n
        /\ \A i \in 1..Len(old) : new[i] = old[i]
    OBVIOUS
  <2> HIDE DEF new
  <2>2. \A i \in 1..Len(old) : Moves(old[i], new[i])
    BY <2>1 DEF Moves
  <2>3. \A i \in 1..Len(new) : i > Len(old) => new[i] = n
    BY <2>1
  <2>4. Evolved(old, new)
    BY <1>2, <2>1, <2>2, <2>3 DEF Evolved
  <2> QED BY <2>4 DEF new
<1> QED BY <1>1, <1>2

\* A replayed copy.
LEMMA ReplayEvolves ==
  ASSUME TypeOK, NEW p \in Procs
  PROVE  Evolved(registry, ReplayedList(p))
<1>1. /\ registry \in Seq(Entries) /\ ReplayedList(p) \in Seq(Entries)
      /\ Len(ReplayedList(p)) = Len(registry)
  BY ReplayedListType DEF TypeOK
<1>2. ASSUME NEW i \in 1..Len(registry) PROVE Moves(registry[i], ReplayedList(p)[i])
  <2>1. registry[i] \in Entries
    BY <1>1
  <2>2. CASE ReplayedList(p)[i] = registry[i]
    BY <2>2 DEF Moves
  <2>3. CASE registry[i].status = "dead_letter" /\ ReplayedList(p)[i] = Replayed(registry[i], now)
    BY <2>1, <2>3 DEF Moves, Replayed, Id, Entries, Queued
  <2> QED BY <1>1, <2>2, <2>3 DEF ReplayedList
<1> QED BY <1>1, <1>2 DEF Evolved

\* A post settles an entry that was pending, or puts it off and may raise an alert.
LEMMA PostEvolves ==
  ASSUME NEW old \in Seq(Entries), NEW list \in Seq(Entries), NEW after,
         NEW i \in 1..Len(old), NEW next \in Nat, next <= i,
         Evolved(old, list), Scanned(old, list, next), list[i].status \in Queued,
         Id(after[i]) = Id(list[i]), \A j \in 1..Len(list) : j # i => after[j] = list[j],
         \/ Len(after) = Len(list)
         \/ /\ Len(after) = Len(list) + 1 /\ after[Len(list) + 1] = NewEntry(list[i].event, Alert)
            /\ Id(list[i]) = <<list[i].event, KindOf[list[i].event]>>
            /\ after[i].status # "delivered"
  PROVE  Evolved(old, after) /\ Scanned(old, after, i + 1)
<1>1. Len(old) \in Nat /\ Len(list) \in Nat /\ Len(old) <= Len(list) /\ Len(list) <= Len(after)
  BY DEF Evolved
<1>2. old[i].status \in Queued
  BY DEF Scanned
<1>3. ASSUME NEW j \in 1..Len(old)
      PROVE  Moves(old[j], after[j]) /\ (after[j].status = old[j].status \/ old[j].status \in Queued)
  <2>1. CASE j = i
    BY <1>2, <2>1 DEF Moves, Evolved
  <2>2. CASE j # i
    BY <1>1, <2>2 DEF Moves, Evolved, Scanned
  <2> QED BY <2>1, <2>2
<1>4. ASSUME NEW j \in 1..Len(after), j > Len(old)
      PROVE  after[j].status = "pending" /\ after[j].kind = Alert /\ Grounded(after, after[j], i + 1)
  <2>1. CASE j <= Len(list)
    <3>1. after[j] = list[j] /\ j \in 1..Len(list)
      BY <1>1, <1>4, <2>1
    <3>2. list[j].status = "pending" /\ list[j].kind = Alert /\ Grounded(list, list[j], next)
      BY <1>4, <3>1 DEF Evolved, Scanned
    <3>3. PICK k \in 1..Len(list) : /\ k < next /\ Id(list[k]) = <<list[j].event, KindOf[list[j].event]>>
                                    /\ list[k].status # "delivered"
      BY <3>2 DEF Grounded
    <3>4. after[k] = list[k] /\ k \in 1..Len(after) /\ k < i + 1
      BY <1>1, <3>3
    <3> QED BY <3>1, <3>2, <3>3, <3>4 DEF Grounded
  <2>2. CASE j > Len(list)
    <3>1. /\ j = Len(list) + 1 /\ Len(after) = Len(list) + 1 /\ after[j] = NewEntry(list[i].event, Alert)
          /\ Id(list[i]) = <<list[i].event, KindOf[list[i].event]>> /\ after[i].status # "delivered"
      BY <1>1, <2>2
    <3>2. after[j].status = "pending" /\ after[j].kind = Alert /\ after[j].event = list[i].event
      BY <3>1 DEF NewEntry
    <3>3. i \in 1..Len(after) /\ i < i + 1
      BY <1>1, <3>1
    <3> QED BY <3>1, <3>2, <3>3 DEF Grounded
  <2> QED BY <1>1, <2>1, <2>2
<1>5. ASSUME NEW x, Grounded(after, x, i + 1) PROVE Grounded(after, x, Len(old) + 1)
  BY <1>1, <1>5 DEF Grounded
<1>6. Evolved(old, after)
  BY <1>1, <1>3, <1>4, <1>5 DEF Evolved
<1>7. Scanned(old, after, i + 1)
  BY <1>3, <1>4 DEF Scanned
<1> QED BY <1>6, <1>7

-----------------------------------------------------------------------------
(* The steps, one holder at a time.                                        *)

Loads(p) ==
  \/ p \in Publishers /\ PublishLoad(p)
  \/ DeliverLoad(p)
  \/ ReplayLoad(p)
Acts(p) == Loads(p) \/ Post(p) \/ Truncate(p) \/ Save(p) \/ Crash(p) \/ ReplaySelect(p)

LEMMA StepsAre ==
  ASSUME [Next]_vars
  PROVE  (\E p \in Procs : Acts(p)) \/ Tick \/ UNCHANGED vars
BY DEF Next, WorkerStep, OperatorStep, WriteBack, Acts, Loads, Procs

\* A step is one process's own.
LEMMA OthersStay ==
  ASSUME TInv, EmptyHanded, NEW p \in Procs, Acts(p), NEW q \in Procs \ {p}
  PROVE  /\ pc'[q] = pc[q] /\ Draft(q)' = Draft(q) /\ chosen'[q] = chosen[q]
         /\ idx'[q] = idx[q] /\ buf'[q] = buf[q]
<1> USE DEF TInv, TypeOK
<1>1. CASE Loads(p)
  BY <1>1 DEF Loads, PublishLoad, DeliverLoad, ReplayLoad, Reads, Goto, round, request, Draft
<1>2. CASE Post(p)
  <2>1. Draft(q)' = Draft(q)
    BY <1>2, PostLists
  <2> QED BY <1>2, <2>1 DEF Post, request
<1>3. CASE Truncate(p)
  BY <1>3 DEF Truncate, Goto, round, request, Draft
<1>4. CASE Save(p)
  <2>1. pc'[q] = pc[q]
    BY <1>4 DEF Save, Return, Goto
  <2> QED BY <1>4, <2>1 DEF Save, Forget, Draft
<1>5. CASE Crash(p)
  BY <1>5 DEF Crash, Return, Forget, Goto, Draft
<1>6. CASE ReplaySelect(p)
  BY <1>6 DEF ReplaySelect, Goto, round, Draft
<1> QED BY <1>1, <1>2, <1>3, <1>4, <1>5, <1>6 DEF Acts

\* An operation reads the file when nobody works on it.
LEMMA LoadStep ==
  ASSUME ~Overlap, TInv, EmptyHanded, NEW p \in Procs, Loads(p)
  PROVE  /\ \A q \in Procs : ~HasCopy(q)
         /\ registry' = registry /\ received' = received /\ published' = published /\ crashes' = crashes
         /\ pc'[p] \in {"save", "scan"}
         /\ Evolved(registry, Draft(p)')
         /\ pc'[p] = "scan" => Scanned(registry, Draft(p)', idx'[p]) /\ Len(buf'[p]) = Len(registry)
<1> USE DEF TInv
<1>0. registry \in Seq(Entries)
  BY DEF TypeOK
<1>1. CASE p \in Publishers /\ PublishLoad(p)
  <2>1. PICK e \in Events \ published :
          /\ registry' = registry /\ received' = received
          /\ Draft(p)' = Append(registry, NewEntry(e, KindOf[e]))
    BY <1>1, PublishLists
  <2>2. /\ NewEntry(e, KindOf[e]) \in Entries /\ NewEntry(e, KindOf[e]).status = "pending"
        /\ NewEntry(e, KindOf[e]).kind # Alert
    BY NewEntryType, OutboxAssumption DEF NewEntry
  <2>3. Evolved(registry, Append(registry, NewEntry(e, KindOf[e])))
    BY <1>0, <2>2, CopyEvolves
  <2>4. (\A q \in Procs : ~HasCopy(q)) /\ pc'[p] = "save"
    BY <1>1 DEF PublishLoad, Reads, HasCopy, Goto, TypeOK
  <2> QED BY <1>1, <2>1, <2>3, <2>4 DEF PublishLoad
<1>2. CASE DeliverLoad(p)
  <2>1. pc[p] \in {"idle", "load", "selected"} /\ Reads(p, registry) /\ emitted' = emitted
    BY <1>2 DEF DeliverLoad
  <2>2. registry' = registry /\ received' = received /\ Draft(p)' = registry
    BY <1>0, <2>1, ReadsDraft
  <2>3. (\A q \in Procs : ~HasCopy(q)) /\ pc'[p] = "scan" /\ buf'[p] = registry
    BY <1>2, <2>1 DEF DeliverLoad, Reads, HasCopy, Goto, TypeOK
  <2>4. Evolved(registry, registry) /\ Scanned(registry, registry, idx'[p])
    BY <1>0, CopyEvolves
  <2> QED BY <1>2, <2>2, <2>3, <2>4 DEF DeliverLoad, request
<1>3. CASE ReplayLoad(p)
  <2>1. registry' = registry /\ received' = received /\ Draft(p)' = ReplayedList(p)
    BY <1>3, ReplayLists
  <2>2. (\A q \in Procs : ~HasCopy(q)) /\ pc'[p] = "save"
    BY <1>3 DEF ReplayLoad, Reads, HasCopy, Goto, TypeOK
  <2> QED BY <1>3, <2>1, <2>2, ReplayEvolves DEF ReplayLoad, request
<1> QED BY <1>1, <1>2, <1>3 DEF Loads

\* Only a holder posts and writes, and one that stops holds no more.
LEMMA HolderStep ==
  ASSUME TInv, NEW p \in Procs
  PROVE  /\ Post(p) => pc[p] = "scan" /\ pc'[p] = "scan"
         /\ Truncate(p) => pc[p] \in {"save", "scan"} /\ pc'[p] = "write" /\ TornFile
         /\ Save(p) => /\ pc[p] = "write" \/ (pc[p] \in {"save", "scan"} /\ ~TornFile)
                       /\ pc'[p] \in {"idle", "load"}
         /\ Crash(p) => pc[p] # "write" /\ pc'[p] = "idle"
         /\ ReplaySelect(p) => pc[p] = "idle" /\ pc'[p] = "selected"
<1> USE DEF TInv, TypeOK
<1>1. Post(p) => pc[p] = "scan" /\ pc'[p] = "scan"
  BY DEF Post
<1>2. Truncate(p) => pc[p] \in {"save", "scan"} /\ pc'[p] = "write" /\ TornFile
  BY DEF Truncate, CopyReady, Goto
<1>3. Save(p) => /\ pc[p] = "write" \/ (pc[p] \in {"save", "scan"} /\ ~TornFile)
                 /\ pc'[p] \in {"idle", "load"}
  BY DEF Save, CopyReady, Return, Goto
<1>4. Crash(p) => pc[p] # "write" /\ pc'[p] = "idle"
  BY DEF Crash, Return, Goto
<1>5. ReplaySelect(p) => pc[p] = "idle" /\ pc'[p] = "selected"
  BY DEF ReplaySelect, Goto
<1> QED BY <1>1, <1>2, <1>3, <1>4, <1>5

LEMMA OneHolderStep ==
  ASSUME ~Overlap, TInv, EmptyHanded, OneHolder, [Next]_vars
  PROVE  OneHolder'
<1>1. ASSUME NEW p \in Procs, Acts(p) PROVE OneHolder'
  <2>1. ASSUME NEW q \in Procs \ {p} PROVE HasCopy(q)' <=> HasCopy(q)
    BY <1>1, <2>1, OthersStay DEF HasCopy
  <2>2. HasCopy(p)' => \A q \in Procs \ {p} : ~HasCopy(q)
    BY <1>1, LoadStep, HolderStep DEF Acts, HasCopy, OneHolder
  <2> QED BY <2>1, <2>2 DEF OneHolder
<1>2. ASSUME Tick \/ UNCHANGED vars PROVE OneHolder'
  BY <1>2, IdleLists DEF OneHolder, HasCopy
<1> QED BY <1>1, <1>2, StepsAre

LEMMA LaterVersionStep ==
  ASSUME ~Overlap, FileInv, OneHolder, LaterVersion, [Next]_vars
  PROVE  LaterVersion'
<1> DEFINE Later(p) ==
             /\ pc[p] \in {"save", "scan"} => Evolved(registry, Draft(p))
             /\ pc[p] = "scan" => Scanned(registry, Draft(p), idx[p]) /\ Len(buf[p]) = Len(registry)
<1>0. TInv /\ EmptyHanded /\ \A p \in Procs : Later(p)
  BY DEF FileInv, LaterVersion
<1>1. ASSUME NEW p \in Procs, Acts(p) PROVE \A q \in Procs : Later(q)'
  <2>1. ASSUME NEW q \in Procs \ {p} PROVE Later(q)'
    <3>1. pc'[q] = pc[q] /\ Draft(q)' = Draft(q) /\ idx'[q] = idx[q] /\ buf'[q] = buf[q]
      BY <1>0, <1>1, OthersStay
    <3>2. CASE registry' = registry
      BY <1>0, <3>1, <3>2
    <3>3. CASE ~HasCopy(q)
      BY <3>1, <3>3 DEF HasCopy
    <3>4. HasCopy(p) => ~HasCopy(q)
      BY DEF OneHolder
    <3>5. Truncate(p) \/ Save(p) => HasCopy(p)
      BY <1>0, HolderStep DEF HasCopy
    <3>6. ~(Truncate(p) \/ Save(p)) => registry' = registry
      BY <1>1 DEF Acts, Loads, PublishLoad, DeliverLoad, ReplayLoad, Reads, Post, Crash, ReplaySelect
    <3> QED BY <3>2, <3>3, <3>4, <3>5, <3>6
  <2>2. Later(p)'
    <3>1. CASE Loads(p)
      BY <1>0, <3>1, LoadStep
    <3>2. CASE Post(p)
      <4>1. PICK i \in DueFor(p) \cap 1..Len(buf[p]), answer \in Answers :
              Posts(p, i, answer) /\ i \in 1..Len(Draft(p)) /\ idx' = [idx EXCEPT ![p] = i + 1]
        BY <1>0, <3>2, PostLists
      <4>2. pc[p] = "scan" /\ pc'[p] = "scan" /\ registry' = registry
        BY <1>0, <3>2, HolderStep, PostLists
      <4>3. idx[p] \in Nat /\ idx[p] <= i /\ i \in 1..Len(registry) /\ idx'[p] = i + 1
        BY <1>0, <4>1, <4>2 DEF DueFor, TInv, TypeOK
      <4>4. Len(buf'[p]) = Len(registry)
        BY <1>0, <3>2, <4>2 DEF Post, TInv, TypeOK
      <4>5. PICK list, after, x, y :
              /\ list = Draft(p) /\ after = Draft(p)' /\ x = buf[p][i]
              /\ y = AfterPost(x, Hooks[hook[p]], answer, clock[p])
        OBVIOUS
      <4>6. /\ x \in Entries /\ x = list[i] /\ y \in Entries /\ x.status \in Queued /\ Id(y) = Id(x)
            /\ after[i] = IF Raises(y, answer) THEN [y EXCEPT !.alerted = TRUE] ELSE y
            /\ \A j \in 1..Len(list) : j # i => after[j] = list[j]
            /\ IF Raises(y, answer)
               THEN Len(after) = Len(list) + 1 /\ after[Len(list) + 1] = NewEntry(x.event, Alert)
               ELSE Len(after) = Len(list)
        BY <4>1, <4>5, Zenon DEF Posts, Queued
      <4>7. list \in Seq(Entries) /\ registry \in Seq(Entries) /\ list \in Lists
        BY <1>0, <4>5, DraftType DEF TInv, TypeOK, Lists
      <4>8. Evolved(registry, list) /\ Scanned(registry, list, idx[p])
        BY <1>0, <4>2, <4>5
      <4>9. Id(after[i]) = Id(list[i]) /\ after[i].status = y.status
        BY <4>6 DEF Id, Entries
      <4>10. Raises(y, answer) => /\ Id(x) = <<x.event, KindOf[x.event]>>
                                  /\ after[i].status # "delivered"
        <5> SUFFICES ASSUME Raises(y, answer)
                     PROVE  Id(x) = <<x.event, KindOf[x.event]>> /\ after[i].status # "delivered"
          OBVIOUS
        <5>1. answer # "ok" /\ y.kind # Alert
          BY DEF Raises, NeedsAlert
        <5>2. y.status # "delivered"
          BY <4>5, <4>6, <5>1 DEF AfterPost, Failed, Entries
        <5>3. x.kind # Alert
          BY <4>6, <5>1 DEF Id
        <5>4. x.kind \in {Alert, KindOf[x.event]}
          BY <4>1, <4>5, <4>6, <4>7 DEF FileInv, Sound, Consistent, Kinded
        <5> QED BY <4>9, <5>2, <5>3, <5>4 DEF Id
      <4>11. Evolved(registry, after) /\ Scanned(registry, after, i + 1)
        BY <4>3, <4>6, <4>7, <4>8, <4>9, <4>10, PostEvolves
      <4> QED BY <4>2, <4>3, <4>4, <4>5, <4>11
    <3>3. CASE Truncate(p) \/ Save(p) \/ Crash(p) \/ ReplaySelect(p)
      BY <1>0, <3>3, HolderStep
    <3> QED BY <1>1, <3>1, <3>2, <3>3 DEF Acts
  <2> QED BY <2>1, <2>2
<1>2. ASSUME Tick \/ UNCHANGED vars PROVE \A q \in Procs : Later(q)'
  <2>1. /\ registry' = registry /\ pc' = pc /\ idx' = idx /\ buf' = buf
        /\ \A q \in Procs : Draft(q)' = Draft(q)
    BY <1>2, IdleLists DEF Tick, vars, round
  <2> QED BY <1>0, <2>1
<1>3. \A q \in Procs : Later(q)'
  BY <1>1, <1>2, StepsAre
<1> QED BY <1>3 DEF LaterVersion

-----------------------------------------------------------------------------
(* The contents of the file change by whole lists.                         *)

ContentsByWriter ==
  /\ \A p \in Procs : pc[p] = "write" => Contents = Draft(p)
  /\ (\A p \in Procs : pc[p] # "write") => Contents = registry

LEMMA ContentsAre == OneHolder => ContentsByWriter
<1> SUFFICES ASSUME OneHolder PROVE ContentsByWriter
  OBVIOUS
<1>1. ASSUME NEW p \in Procs, pc[p] = "write" PROVE Contents = Draft(p)
  <2> DEFINE w == CHOOSE q \in Procs : pc[q] = "write"
  <2>1. w \in Procs /\ pc[w] = "write"
    BY <1>1
  <2>2. w = p
    BY <1>1, <2>1 DEF OneHolder, HasCopy
  <2> HIDE DEF w
  <2>3. Writing
    BY <1>1 DEF Writing
  <2>4. Contents = buf[w] \o emitted[w]
    BY <2>3 DEF Contents, w
  <2> QED BY <2>2, <2>4 DEF Draft
<1>2. (\A p \in Procs : pc[p] # "write") => Contents = registry
  BY DEF Contents, Writing
<1> QED BY <1>1, <1>2 DEF ContentsByWriter

LEMMA ContentsAreNext == OneHolder' => ContentsByWriter'
BY ContentsAre, PTL

\* Two contents in a row are the same, or the later version an operation has made of the
\* earlier one; what is published by the step is in that operation's list.
LEMMA ContentsStep ==
  ASSUME ~Overlap, TInv, EmptyHanded, OneHolder, [Next]_vars
  PROVE  /\ \/ Contents' = Contents
            \/ \E p \in Procs : pc[p] \in {"save", "scan"} /\ Contents = registry /\ Contents' = Draft(p)
         /\ \/ published' = published
            \/ \E p \in Publishers : /\ Contents' = Draft(p)
                                     /\ published' = published \cup {item[1] : item \in chosen[p]}
<1>0. OneHolder'
  BY OneHolderStep
<1>0a. /\ \A p \in Procs : pc'[p] = "write" => Contents' = Draft(p)'
       /\ (\A p \in Procs : pc'[p] # "write") => Contents' = registry'
  BY <1>0, ContentsAreNext DEF ContentsByWriter
<1>0b. ContentsByWriter
  BY ContentsAre
<1> USE DEF ContentsByWriter
<1>1. ASSUME NEW p \in Procs, Loads(p) PROVE Contents' = Contents /\ published' = published
  <2>1. \A q \in Procs : pc[q] # "write" /\ pc'[q] # "write"
    BY <1>1, LoadStep, OthersStay DEF Acts, HasCopy
  <2> QED BY <1>0a, <1>1, <2>1, LoadStep, <1>0b
<1>2. ASSUME NEW p \in Procs, Post(p) PROVE Contents' = Contents /\ published' = published
  <2>1. \A q \in Procs : pc[q] # "write"
    BY <1>2, HolderStep DEF OneHolder, HasCopy
  <2>2. pc' = pc /\ registry' = registry /\ published' = published
    BY <1>2 DEF Post
  <2> QED BY <1>0a, <2>1, <2>2, <1>0b
<1>3. ASSUME NEW p \in Procs, Truncate(p)
      PROVE  /\ pc[p] \in {"save", "scan"} /\ Contents = registry /\ Contents' = Draft(p)
             /\ published' = published
  <2>1. pc[p] \in {"save", "scan"} /\ pc'[p] = "write"
    BY <1>3, HolderStep
  <2>2. \A q \in Procs : pc[q] # "write"
    BY <2>1 DEF OneHolder, HasCopy
  <2>3. Draft(p)' = Draft(p) /\ published' = published
    BY <1>3 DEF Truncate, Draft, round
  <2> QED BY <1>0a, <2>1, <2>2, <2>3, <1>0b
<1>4. ASSUME NEW p \in Procs, Save(p)
      PROVE  /\ Contents' = Draft(p)
             /\ Contents = Draft(p) \/ (pc[p] \in {"save", "scan"} /\ Contents = registry)
             /\ published' = IF p \in Publishers
                             THEN published \cup {item[1] : item \in chosen[p]} ELSE published
  <2>1. /\ pc[p] = "write" \/ pc[p] \in {"save", "scan"}
        /\ pc'[p] \in {"idle", "load"} /\ registry' = Draft(p)
    BY <1>4, HolderStep DEF Save, Draft
  <2>2. \A q \in Procs \ {p} : pc[q] # "write" /\ pc'[q] = pc[q]
    BY <1>4, <2>1, OthersStay DEF OneHolder, HasCopy, Acts
  <2>3. Contents' = Draft(p)
    BY <1>0a, <2>1, <2>2
  <2>4. Contents = Draft(p) \/ (pc[p] \in {"save", "scan"} /\ Contents = registry)
    BY <2>1, <2>2, <1>0b
  <2> QED BY <1>4, <2>3, <2>4 DEF Save
<1>5. ASSUME NEW p \in Procs, Crash(p) \/ ReplaySelect(p)
      PROVE  Contents' = Contents /\ published' = published
  <2>1. /\ pc[p] # "write" /\ pc'[p] # "write"
        /\ \A q \in Procs \ {p} : pc'[q] = pc[q] /\ Draft(q)' = Draft(q)
    BY <1>5, HolderStep, OthersStay DEF Acts
  <2>2. registry' = registry /\ published' = published
    BY <1>5 DEF Crash, ReplaySelect
  <2>3. ASSUME NEW q \in Procs, pc[q] = "write" PROVE Contents' = Contents
    <3>1. pc'[q] = "write" /\ Draft(q)' = Draft(q)
      BY <2>1, <2>3
    <3> QED BY <1>0a, <1>0b, <2>3, <3>1
  <2>4. CASE \A q \in Procs : pc[q] # "write"
    BY <1>0a, <2>1, <2>2, <2>4, <1>0b
  <2> QED BY <2>2, <2>3, <2>4
<1>6. ASSUME Tick \/ UNCHANGED vars PROVE Contents' = Contents /\ published' = published
  <2>1. pc' = pc /\ registry' = registry /\ published' = published /\ buf' = buf /\ emitted' = emitted
    BY <1>6 DEF Tick, vars, round
  <2> QED BY <2>1 DEF Contents, Writing
<1>7. ASSUME NEW p \in Procs, Acts(p)
      PROVE  /\ \/ Contents' = Contents
                \/ pc[p] \in {"save", "scan"} /\ Contents = registry /\ Contents' = Draft(p)
             /\ \/ published' = published
                \/ /\ p \in Publishers /\ Contents' = Draft(p)
                   /\ published' = published \cup {item[1] : item \in chosen[p]}
  <2>1. CASE Loads(p) \/ Post(p) \/ Crash(p) \/ ReplaySelect(p)
    BY <1>1, <1>2, <1>5, <2>1
  <2>2. CASE Truncate(p)
    BY <1>3, <2>2
  <2>3. CASE Save(p)
    BY <1>4, <2>3
  <2> QED BY <1>7, <2>1, <2>2, <2>3 DEF Acts
<1> QED BY <1>6, <1>7, StepsAre

LEMMA PublisherHoldsStep ==
  ASSUME ~Overlap, FileInv, PublisherHolds, [Next]_vars
  PROVE  PublisherHolds'
<1> DEFINE Given(p) == \A item \in chosen[p] :
                         item = <<item[1], KindOf[item[1]]>> /\ Holds(Draft(p), item)
<1>0. TInv /\ EmptyHanded /\ TypeOK /\ Publishers \subseteq Procs
  BY DEF FileInv, TInv, Procs
<1>0a. \A p \in Publishers : Given(p)
  BY DEF PublisherHolds
<1>1. ASSUME NEW p \in Publishers, PublishLoad(p) PROVE Given(p)'
  <2>1. PICK e \in Events \ published :
          /\ chosen' = [chosen EXCEPT ![p] = {<<e, KindOf[e]>>}]
          /\ Draft(p)' = Append(registry, NewEntry(e, KindOf[e]))
    BY <1>0, <1>1, PublishLists
  <2>2. chosen'[p] = {<<e, KindOf[e]>>}
    BY <1>0, <2>1 DEF TypeOK
  <2> DEFINE n == NewEntry(e, KindOf[e])
             list == Append(registry, n)
  <2>3. n \in Entries /\ Id(n) = <<e, KindOf[e]>> /\ registry \in Seq(Entries)
    BY <1>0, NewEntryType, OutboxAssumption DEF NewEntry, Id, TypeOK
  <2> HIDE DEF n
  <2>4. Len(registry) + 1 \in 1..Len(list) /\ list[Len(registry) + 1] = n
    BY <2>3
  <2> HIDE DEF list
  <2>5. Holds(list, <<e, KindOf[e]>>)
    BY <2>3, <2>4 DEF Holds
  <2> QED BY <2>1, <2>2, <2>5 DEF list, n
<1>2. ASSUME NEW p \in Publishers, Truncate(p) PROVE Given(p)'
  <2>1. Draft(p)' = Draft(p) /\ chosen' = chosen
    BY <1>2 DEF Truncate, Draft, round, request
  <2> QED BY <1>0a, <2>1
<1>3. ASSUME NEW p \in Publishers, Save(p) \/ Crash(p) PROVE Given(p)'
  <2>1. chosen'[p] = {}
    BY <1>0, <1>3 DEF Save, Crash, Forget, TypeOK
  <2> QED BY <2>1
<1>4. ASSUME NEW p \in Procs, Acts(p), NEW q \in Publishers \ {p} PROVE Given(q)'
  <2>1. chosen'[q] = chosen[q] /\ Draft(q)' = Draft(q)
    BY <1>0, <1>4, OthersStay
  <2> QED BY <1>0a, <2>1
<1>5. ASSUME Tick \/ UNCHANGED vars, NEW p \in Publishers PROVE Given(p)'
  <2>1. chosen' = chosen /\ Draft(p)' = Draft(p)
    BY <1>0, <1>5, IdleLists
  <2> QED BY <1>0a, <2>1
<1>6. \/ \E p \in Publishers : PublishLoad(p) \/ Truncate(p) \/ Save(p) \/ Crash(p)
      \/ \E p \in Procs \ Publishers : Acts(p)
      \/ Tick \/ UNCHANGED vars
  BY RoleAssumption DEF Next, WorkerStep, OperatorStep, WriteBack, Acts, Loads, Procs
<1>7. ASSUME NEW p \in Publishers, PublishLoad(p) \/ Truncate(p) \/ Save(p) \/ Crash(p)
      PROVE  Acts(p)
  BY <1>7 DEF Acts, Loads
<1>8. \A p \in Publishers : Given(p)'
  BY <1>0, <1>1, <1>2, <1>3, <1>4, <1>5, <1>6, <1>7
<1> QED BY <1>8 DEF PublisherHolds

LEMMA SerialInit == Init => SerialInv
<1> SUFFICES ASSUME Init PROVE SerialInv
  OBVIOUS
<1>1. FileInv
  BY FileInit
<1>2. /\ \A p \in Procs : pc[p] = "idle" /\ chosen[p] = {}
      /\ published = {}
  BY DEF Init
<1> QED BY <1>1, <1>2 DEF SerialInv, OneHolder, HasCopy, LaterVersion, PublisherHolds, Kept, Procs

LEMMA SerialStep ==
  ASSUME ~Overlap, SerialInv, [Next]_vars
  PROVE  SerialInv'
<1>1. FileInv' /\ OneHolder' /\ LaterVersion' /\ PublisherHolds'
  BY FileStep, OneHolderStep, LaterVersionStep, PublisherHoldsStep DEF SerialInv, FileInv
<1>2. ASSUME NEW item, Holds(Contents, item) PROVE Holds(Contents', item)
  <2>1. CASE Contents' = Contents
    BY <1>2, <2>1
  <2>2. ASSUME NEW p \in Procs, pc[p] \in {"save", "scan"}, Contents = registry, Contents' = Draft(p)
        PROVE  Holds(Contents', item)
    <3>1. Evolved(registry, Draft(p)) /\ registry \in Seq(Entries) /\ Draft(p) \in Seq(Entries)
      BY <2>2, DraftType DEF SerialInv, LaterVersion, FileInv, TInv, TypeOK
    <3> QED BY <1>2, <2>2, <3>1, HeldLater
  <2> QED BY <2>1, <2>2, ContentsStep DEF SerialInv, FileInv
<1>3. ASSUME NEW e \in published' PROVE Holds(Contents', <<e, KindOf[e]>>)
  <2>1. CASE e \in published
    BY <1>2, <2>1 DEF SerialInv, Kept
  <2>2. CASE e \notin published
    <3>1. PICK p \in Publishers : /\ Contents' = Draft(p)
                                  /\ published' = published \cup {item[1] : item \in chosen[p]}
      BY <2>2, ContentsStep DEF SerialInv, FileInv
    <3>2. PICK item \in chosen[p] : e = item[1]
      BY <2>2, <3>1
    <3> QED BY <3>1, <3>2 DEF SerialInv, PublisherHolds
  <2> QED BY <2>1, <2>2
<1>4. Kept'
  BY <1>3 DEF Kept, Holds
<1> QED BY <1>1, <1>4 DEF SerialInv

\* With one operation at a time an event whose publish_event has returned is in the file
\* whenever nobody is writing it (publish_event, _save_registry), however often operations
\* die between reading and writing.
THEOREM NothingIsLost ==
  ASSUME ~Overlap
  PROVE  Spec => []NoEventLost
<1>1. Init => SerialInv
  BY SerialInit
<1>2. SerialInv /\ [Next]_vars => SerialInv'
  BY SerialStep
<1>3. SerialInv => NoEventLost
  BY DEF SerialInv, Kept, Holds, NoEventLost, Entry, Contents
<1> QED BY <1>1, <1>2, <1>3, PTL DEF Spec

-----------------------------------------------------------------------------
(* Receipts.                                                               *)

\* A later version keeps the receipts, and a list with the receipts of what was posted
\* keeps the worker from posting it again.
LEMMA RecordedLater ==
  ASSUME NEW old \in Seq(Entries), NEW new, Recorded(old), received' = received, Len(old) <= Len(new),
         \A i \in 1..Len(old) : Id(new[i]) = Id(old[i]) /\ old[i].receipts \subseteq new[i].receipts
  PROVE  Recorded(new)'
<1> SUFFICES ASSUME NEW post \in accepted
             PROVE  \E i \in 1..Len(new) : Id(new[i]) = post[2] /\ post[1] \in new[i].receipts
  BY DEF Recorded, received
<1>1. PICK i \in 1..Len(old) : Id(old[i]) = post[2] /\ post[1] \in old[i].receipts
  BY DEF Recorded
<1>2. i \in 1..Len(new)
  <2>1. Len(old) \in Nat
    OBVIOUS
  <2>2. CASE Len(new) \in Nat
    BY <2>1, <2>2
  <2> QED BY <2>1, <2>2
<1> QED BY <1>1, <1>2

\* Reading the file, whole or for a replay, keeps every receipt.
LEMMA LoadKeepsReceipts ==
  ASSUME ~Overlap, TInv, EmptyHanded, NEW p \in Procs, Loads(p)
  PROVE  /\ Draft(p)' \in Seq(Entries) /\ Len(registry) <= Len(Draft(p)')
         /\ \A i \in 1..Len(registry) : /\ Id(Draft(p)'[i]) = Id(registry[i])
                                        /\ registry[i].receipts \subseteq Draft(p)'[i].receipts
<1> USE DEF TInv
<1>0. registry \in Seq(Entries) /\ Len(registry) \in Nat /\ TypeOK
  BY DEF TypeOK
<1>1. CASE p \in Publishers /\ PublishLoad(p)
  <2>1. PICK e \in Events \ published : Draft(p)' = Append(registry, NewEntry(e, KindOf[e]))
    BY <1>1, PublishLists
  <2>2. NewEntry(e, KindOf[e]) \in Entries
    BY NewEntryType, OutboxAssumption
  <2> QED BY <1>0, <2>1, <2>2
<1>2. CASE DeliverLoad(p)
  <2>1. pc[p] \in {"idle", "load", "selected"} /\ Reads(p, registry) /\ emitted' = emitted
    BY <1>2 DEF DeliverLoad
  <2>2. Draft(p)' = registry
    BY <1>0, <2>1, ReadsDraft
  <2> QED BY <1>0, <2>2
<1>3. CASE ReplayLoad(p)
  <2>1. PICK list : list = ReplayedList(p) /\ list = Draft(p)'
    BY <1>3, ReplayLists
  <2>1a. ReplayedList(p) \in Seq(Entries) /\ Len(ReplayedList(p)) = Len(registry)
    BY <1>0, ReplayedListType
  <2>2. list \in Seq(Entries) /\ Len(list) = Len(registry)
    BY <2>1, <2>1a
  <2>3. ASSUME NEW i \in 1..Len(registry)
        PROVE  Id(list[i]) = Id(registry[i]) /\ list[i].receipts = registry[i].receipts
    <3>1. registry[i] \in Entries /\ list[i] \in {registry[i], Replayed(registry[i], now)}
      BY <1>0, <2>1 DEF ReplayedList
    <3> QED BY <3>1 DEF Replayed, Id, Entries
  <2> QED BY <1>0, <2>1, <2>2, <2>3
<1> QED BY <1>1, <1>2, <1>3 DEF Loads

\* A post that is taken leaves its receipt in the worker's list.
LEMMA PostKeepsReceipts ==
  ASSUME TInv, NEW p \in Procs, Post(p), Recorded(Draft(p))
  PROVE  Recorded(Draft(p))'
<1>1. PICK i \in DueFor(p) \cap 1..Len(buf[p]), answer \in Answers :
        Posts(p, i, answer) /\ i \in 1..Len(Draft(p))
  BY PostLists
<1>2. PICK list, after, w, x, y :
        /\ list = Draft(p) /\ after = Draft(p)' /\ w = Hooks[hook[p]] /\ x = buf[p][i]
        /\ y = AfterPost(x, w, answer, clock[p])
  OBVIOUS
<1>3. /\ x \in Entries /\ x = list[i] /\ y \in Entries /\ Id(y) = Id(x) /\ Receive(w, x, answer)
      /\ after[i] = IF Raises(y, answer) THEN [y EXCEPT !.alerted = TRUE] ELSE y
      /\ \A j \in 1..Len(list) : j # i => after[j] = list[j]
      /\ IF Raises(y, answer)
         THEN Len(after) = Len(list) + 1 /\ after[Len(list) + 1] = NewEntry(x.event, Alert)
         ELSE Len(after) = Len(list)
  BY <1>1, <1>2, Zenon DEF Posts
<1>4. list \in Seq(Entries) /\ Len(list) \in Nat /\ i \in 1..Len(list)
  <2>1. list \in Seq(Entries)
    BY <1>2, DraftType
  <2> QED BY <1>1, <1>2, <2>1
<1>5. Id(after[i]) = Id(x) /\ after[i].receipts = y.receipts
  BY <1>3 DEF Id, Entries
<1>6. /\ x.receipts \subseteq y.receipts
      /\ answer = "ok" => w \in y.receipts
  <2>1. CASE answer = "ok"
    <3>1. y.receipts = x.receipts \cup {w}
      BY <1>2, <1>3, <2>1 DEF AfterPost, Delivered, Entries
    <3> QED BY <3>1
  <2>2. CASE answer # "ok"
    <3>1. y.receipts = x.receipts
      BY <1>2, <1>3, <2>2 DEF AfterPost, Failed, Entries
    <3> QED BY <2>2, <3>1
  <2> QED BY <2>1, <2>2
<1>7. accepted' = accepted \/ (answer = "ok" /\ accepted' = accepted \cup {<<w, Id(x)>>})
  BY <1>3 DEF Receive
<1>8. \A j \in 1..Len(list) : /\ j \in 1..Len(after) /\ Id(after[j]) = Id(list[j])
                              /\ list[j].receipts \subseteq after[j].receipts
  <2> SUFFICES ASSUME NEW j \in 1..Len(list)
               PROVE  /\ j \in 1..Len(after) /\ Id(after[j]) = Id(list[j])
                      /\ list[j].receipts \subseteq after[j].receipts
    OBVIOUS
  <2>1. Len(after) = Len(list) \/ Len(after) = Len(list) + 1
    BY <1>3
  <2>2. j \in 1..Len(after)
    BY <1>4, <2>1
  <2>3. CASE j = i
    BY <1>3, <1>5, <1>6, <2>2, <2>3
  <2>4. CASE j # i
    BY <1>3, <2>2, <2>4
  <2> QED BY <2>3, <2>4
<1>9. ASSUME NEW post \in accepted'
      PROVE  \E j \in 1..Len(after) : Id(after[j]) = post[2] /\ post[1] \in after[j].receipts
  <2>1. CASE post \in accepted
    BY <1>2, <1>8, <2>1 DEF Recorded
  <2>2. CASE answer = "ok" /\ post = <<w, Id(x)>>
    BY <1>4, <1>5, <1>6, <1>8, <2>2
  <2> QED BY <1>7, <2>1, <2>2
<1> QED BY <1>2, <1>9 DEF Recorded

LEMMA ReceiptsStep ==
  ASSUME ~Overlap, TInv, EmptyHanded, OneHolder, ReceiptsKept, [Next]_vars
  PROVE  ReceiptsKept'
<1> SUFFICES ASSUME crashes' = 0
             PROVE  /\ (\A p \in Procs : ~HasCopy(p)') => Recorded(registry)'
                    /\ \A p \in Procs : HasCopy(p)' => Recorded(Draft(p))'
  BY DEF ReceiptsKept
<1>0. OneHolder'
  BY OneHolderStep
<1>1. ASSUME NEW p \in Procs, Crash(p) PROVE FALSE
  BY <1>1 DEF Crash, TInv, TypeOK
<1>2. CASE \E p \in Procs : Crash(p)
  BY <1>1, <1>2
<1>3. ASSUME crashes' = crashes
      PROVE  /\ (\A p \in Procs : ~HasCopy(p)) => Recorded(registry)
             /\ \A p \in Procs : HasCopy(p) => Recorded(Draft(p))
  BY <1>3 DEF ReceiptsKept
<1>4. ASSUME NEW p \in Procs, Loads(p) \/ Post(p) \/ Truncate(p), HasCopy(p)', Recorded(Draft(p))'
      PROVE  /\ (\A q \in Procs : ~HasCopy(q)') => Recorded(registry)'
             /\ \A q \in Procs : HasCopy(q)' => Recorded(Draft(q))'
  BY <1>0, <1>4 DEF OneHolder
<1>5. ASSUME NEW p \in Procs, Loads(p) PROVE HasCopy(p)' /\ Recorded(Draft(p))'
  <2>1. Recorded(registry) /\ received' = received /\ HasCopy(p)'
    BY <1>3, <1>5, LoadStep DEF HasCopy
  <2>2. PICK new : new = Draft(p)'
    OBVIOUS
  <2>3. registry \in Seq(Entries)
    BY DEF TInv, TypeOK
  <2>4. Recorded(new)'
    BY <1>5, <2>1, <2>2, <2>3, LoadKeepsReceipts, RecordedLater
  <2> QED BY <2>1, <2>2, <2>4
<1>6. ASSUME NEW p \in Procs, Post(p) PROVE HasCopy(p)' /\ Recorded(Draft(p))'
  <2>1. crashes' = crashes /\ HasCopy(p) /\ HasCopy(p)'
    BY <1>6, HolderStep DEF Post, request, HasCopy
  <2> QED BY <1>3, <1>6, <2>1, PostKeepsReceipts
<1>7. ASSUME NEW p \in Procs, Truncate(p) PROVE HasCopy(p)' /\ Recorded(Draft(p))'
  <2>1. crashes' = crashes /\ HasCopy(p) /\ HasCopy(p)' /\ received' = received /\ Draft(p)' = Draft(p)
    BY <1>7, HolderStep DEF Truncate, request, round, Draft, HasCopy
  <2>2. Recorded(Draft(p))
    BY <1>3, <2>1
  <2> QED BY <2>1, <2>2 DEF Recorded, received
<1>8. ASSUME NEW p \in Procs, Save(p)
      PROVE  /\ (\A q \in Procs : ~HasCopy(q)') => Recorded(registry)'
             /\ \A q \in Procs : HasCopy(q)' => Recorded(Draft(q))'
  <2>1. crashes' = crashes /\ HasCopy(p) /\ ~HasCopy(p)' /\ received' = received /\ registry' = Draft(p)
    BY <1>8, HolderStep DEF Save, Draft, HasCopy
  <2>2. \A q \in Procs : ~HasCopy(q)'
    BY <1>8, <2>1, OthersStay DEF OneHolder, HasCopy, Acts
  <2>3. Recorded(Draft(p))
    BY <1>3, <2>1
  <2> QED BY <2>1, <2>2, <2>3 DEF Recorded, received
<1>9. ASSUME crashes' = crashes, received' = received, registry' = registry,
             \A q \in Procs : (HasCopy(q)' <=> HasCopy(q)) /\ Draft(q)' = Draft(q)
      PROVE  /\ (\A q \in Procs : ~HasCopy(q)') => Recorded(registry)'
             /\ \A q \in Procs : HasCopy(q)' => Recorded(Draft(q))'
  BY <1>3, <1>9 DEF Recorded, received
<1>10. ASSUME NEW p \in Procs, ReplaySelect(p)
       PROVE  /\ crashes' = crashes /\ received' = received /\ registry' = registry
              /\ \A q \in Procs : (HasCopy(q)' <=> HasCopy(q)) /\ Draft(q)' = Draft(q)
  BY <1>10 DEF ReplaySelect, round, HasCopy, Goto, Draft, TInv, TypeOK
<1>11. ASSUME Tick \/ UNCHANGED vars
       PROVE  /\ crashes' = crashes /\ received' = received /\ registry' = registry
              /\ \A q \in Procs : (HasCopy(q)' <=> HasCopy(q)) /\ Draft(q)' = Draft(q)
  BY <1>11, IdleLists DEF HasCopy
<1>12. ASSUME NEW p \in Procs, Acts(p)
       PROVE  /\ (\A q \in Procs : ~HasCopy(q)') => Recorded(registry)'
              /\ \A q \in Procs : HasCopy(q)' => Recorded(Draft(q))'
  <2>1. CASE Loads(p) \/ Post(p) \/ Truncate(p)
    BY <1>4, <1>5, <1>6, <1>7, <2>1
  <2>2. CASE ReplaySelect(p)
    BY <1>9, <1>10, <2>2
  <2> QED BY <1>1, <1>8, <1>12, <2>1, <2>2 DEF Acts
<1> QED BY <1>9, <1>11, <1>12, StepsAre

-----------------------------------------------------------------------------
(* Arrivals.  What arrived is accounted for by the attempts of the list    *)
(* that is worked on, and by the deaths: a worker that dies leaves the     *)
(* file one attempt behind its own list at most, because it tries an entry *)
(* once in a round, and none that the file does not have.                  *)

Counted(list) ==
  \A r \in Webhooks \X Items : reached[r] > 0 =>
    \E i \in 1..Len(list) : Id(list[i]) = r[2] /\ reached[r] <= list[i].attempts + crashes

\* The file is behind by the entries the worker has passed, by one attempt each.
Behind(p) ==
  /\ \A i \in 1..Len(registry) :
       \/ Draft(p)[i].attempts = registry[i].attempts
       \/ pc[p] = "scan" /\ i < idx[p] /\ Draft(p)[i].attempts = registry[i].attempts + 1
  /\ \A r \in Webhooks \X Items : reached[r] > 0 => Holds(registry, r[2])

CountsKept ==
  /\ (\A p \in Procs : ~HasCopy(p)) => Counted(registry)
  /\ \A p \in Procs : HasCopy(p) => Counted(Draft(p))
  /\ \A p \in Procs : pc[p] \in {"save", "scan"} => Behind(p)

\* A list read from the file has the attempts of the file.
LEMMA LoadKeepsAttempts ==
  ASSUME ~Overlap, TInv, EmptyHanded, NEW p \in Procs, Loads(p)
  PROVE  \A i \in 1..Len(registry) : /\ Id(Draft(p)'[i]) = Id(registry[i])
                                     /\ Draft(p)'[i].attempts = registry[i].attempts
<1> USE DEF TInv
<1>0. registry \in Seq(Entries) /\ Len(registry) \in Nat /\ TypeOK
  BY DEF TypeOK
<1>1. CASE p \in Publishers /\ PublishLoad(p)
  <2>1. PICK e \in Events \ published : Draft(p)' = Append(registry, NewEntry(e, KindOf[e]))
    BY <1>1, PublishLists
  <2> QED BY <1>0, <2>1
<1>2. CASE DeliverLoad(p)
  <2>1. pc[p] \in {"idle", "load", "selected"} /\ Reads(p, registry) /\ emitted' = emitted
    BY <1>2 DEF DeliverLoad
  <2>2. Draft(p)' = registry
    BY <1>0, <2>1, ReadsDraft
  <2> QED BY <2>2
<1>3. CASE ReplayLoad(p)
  <2>1. PICK list : list = ReplayedList(p) /\ list = Draft(p)'
    BY <1>3, ReplayLists
  <2>2. ASSUME NEW i \in 1..Len(registry)
        PROVE  Id(list[i]) = Id(registry[i]) /\ list[i].attempts = registry[i].attempts
    <3>1. registry[i] \in Entries /\ list[i] \in {registry[i], Replayed(registry[i], now)}
      BY <1>0, <2>1 DEF ReplayedList
    <3> QED BY <3>1 DEF Replayed, Id, Entries
  <2> QED BY <2>1, <2>2
<1> QED BY <1>1, <1>2, <1>3 DEF Loads

\* Reading the file.
LEMMA LoadCounts ==
  ASSUME ~Overlap, SerialInv, CountsKept, NEW p \in Procs, Loads(p)
  PROVE  Counted(Draft(p))' /\ Behind(p)'
<1>0. TInv /\ EmptyHanded /\ registry \in Seq(Entries) /\ Len(registry) \in Nat
  <2>1. TInv /\ EmptyHanded
    BY DEF SerialInv, FileInv
  <2>2. registry \in Seq(Entries)
    BY <2>1 DEF TInv, TypeOK
  <2> QED BY <2>1, <2>2
<1>1. /\ \A q \in Procs : ~HasCopy(q)
      /\ registry' = registry /\ received' = received /\ crashes' = crashes
  BY <1>0, LoadStep
<1>2. Counted(registry)
  BY <1>1 DEF CountsKept
<1>3. PICK new : new = Draft(p)'
  OBVIOUS
<1>4. \A i \in 1..Len(registry) : /\ i \in 1..Len(new) /\ Id(new[i]) = Id(registry[i])
                                  /\ new[i].attempts = registry[i].attempts
  <2>1. \A i \in 1..Len(registry) : /\ Id(new[i]) = Id(registry[i])
                                    /\ new[i].attempts = registry[i].attempts
    BY <1>0, <1>3, LoadKeepsAttempts
  <2>2. new \in Seq(Entries) /\ Len(registry) <= Len(new)
    BY <1>0, <1>3, LoadKeepsReceipts
  <2>3. Len(new) \in Nat
    BY <2>2
  <2> QED BY <1>0, <2>1, <2>2, <2>3
<1>5. Counted(new)'
  BY <1>1, <1>2, <1>4 DEF Counted, received
<1>6. Behind(p)'
  BY <1>1, <1>2, <1>3, <1>4 DEF Counted, Behind, Holds, received
<1> QED BY <1>3, <1>5, <1>6

\* A post counts as an attempt of its entry, whatever comes back.
LEMMA PostCounts ==
  ASSUME SerialInv, NEW p \in Procs, Post(p), Counted(Draft(p)), Behind(p)
  PROVE  Counted(Draft(p))' /\ Behind(p)'
<1>0. TInv /\ pc[p] = "scan" /\ pc'[p] = "scan" /\ crashes' = crashes
  BY DEF SerialInv, FileInv, Post, request
<1>1. PICK i \in DueFor(p) \cap 1..Len(buf[p]), answer \in Answers :
        Posts(p, i, answer) /\ i \in 1..Len(Draft(p)) /\ idx' = [idx EXCEPT ![p] = i + 1]
  BY <1>0, PostLists
<1>2. registry' = registry
  BY DEF Post
<1>3. PICK list, after, w, x, y :
        /\ list = Draft(p) /\ after = Draft(p)' /\ w = Hooks[hook[p]] /\ x = buf[p][i]
        /\ y = AfterPost(x, w, answer, clock[p])
  OBVIOUS
<1>4. /\ x \in Entries /\ x = list[i] /\ y \in Entries /\ Id(y) = Id(x) /\ Receive(w, x, answer)
      /\ after[i] = IF Raises(y, answer) THEN [y EXCEPT !.alerted = TRUE] ELSE y
      /\ \A j \in 1..Len(list) : j # i => after[j] = list[j]
      /\ IF Raises(y, answer)
         THEN Len(after) = Len(list) + 1 /\ after[Len(list) + 1] = NewEntry(x.event, Alert)
         ELSE Len(after) = Len(list)
  BY <1>1, <1>3, Zenon DEF Posts
<1>5. /\ list \in Seq(Entries) /\ Len(list) \in Nat /\ list \in Lists
      /\ registry \in Seq(Entries) /\ Len(registry) \in Nat
  <2>1. list \in Seq(Entries) /\ registry \in Seq(Entries)
    BY <1>0, <1>3, DraftType DEF TInv, TypeOK
  <2> QED BY <1>3, <2>1 DEF Lists
<1>6. Unique(list)
  BY <1>5 DEF SerialInv, FileInv, Sound, Consistent
<1>7. y.attempts = x.attempts + 1 /\ x.attempts \in Nat
  <2>1. CASE answer = "ok"
    BY <1>3, <1>4, <2>1 DEF AfterPost, Delivered, Entries
  <2>2. CASE answer # "ok"
    BY <1>3, <1>4, <2>2 DEF AfterPost, Failed, Entries
  <2> QED BY <2>1, <2>2
<1>8. Id(after[i]) = Id(x) /\ after[i].attempts = x.attempts + 1
  BY <1>4, <1>7 DEF Id, Entries
<1>9. \A j \in 1..Len(list) : j \in 1..Len(after)
  <2>1. Len(after) \in {Len(list), Len(list) + 1}
    BY <1>4
  <2> QED BY <1>5, <2>1
<1>10. /\ reached \in [Webhooks \X Items -> Nat] /\ crashes \in Nat
       /\ \A r \in Webhooks \X Items : reached'[r] \in Nat
       /\ \A r \in Webhooks \X Items : r # <<w, Id(x)>> => reached'[r] = reached[r]
       /\ <<w, Id(x)>> \in Webhooks \X Items => reached'[<<w, Id(x)>>] <= reached[<<w, Id(x)>>] + 1
  <2>1. reached \in [Webhooks \X Items -> Nat] /\ crashes \in Nat
    BY <1>0, NumberAssumption DEF TInv, TypeOK
  <2>2. PICK r : r = <<w, Id(x)>>
    OBVIOUS
  <2>3. reached' \in {reached, [reached EXCEPT ![r] = @ + 1]}
    BY <1>4, <2>2, Zenon DEF Receive
  <2>4. /\ \A s \in Webhooks \X Items : reached'[s] \in Nat /\ (s # r => reached'[s] = reached[s])
        /\ r \in Webhooks \X Items => reached'[r] <= reached[r] + 1
    BY <2>1, <2>3
  <2> QED BY <2>1, <2>2, <2>4
<1>11. ASSUME NEW r \in Webhooks \X Items, reached'[r] > 0
       PROVE  \E j \in 1..Len(after) : /\ Id(after[j]) = r[2]
                                       /\ reached'[r] <= after[j].attempts + crashes
  <2>1. CASE r = <<w, Id(x)>>
    <3>1. r[2] = Id(list[i]) /\ reached'[r] <= reached[r] + 1 /\ reached[r] \in Nat
      BY <1>4, <1>10, <2>1
    <3>2. reached[r] <= x.attempts + crashes
      <4>1. CASE reached[r] = 0
        BY <1>7, <1>10, <4>1
      <4>2. CASE reached[r] > 0
        <5>1. PICK j \in 1..Len(list) : Id(list[j]) = r[2] /\ reached[r] <= list[j].attempts + crashes
          BY <1>3, <4>2 DEF Counted
        <5>2. j = i
          BY <1>1, <1>3, <1>6, <3>1, <5>1 DEF Unique
        <5> QED BY <1>4, <5>1, <5>2
      <4> QED BY <3>1, <4>1, <4>2
    <3>3. reached'[r] <= after[i].attempts + crashes
      BY <1>7, <1>8, <1>10, <3>1, <3>2
    <3> QED BY <1>1, <1>3, <1>4, <1>8, <1>9, <3>1, <3>3
  <2>2. CASE r # <<w, Id(x)>>
    <3>1. reached'[r] = reached[r]
      BY <1>10, <2>2
    <3>2. PICK j \in 1..Len(list) : Id(list[j]) = r[2] /\ reached[r] <= list[j].attempts + crashes
      BY <1>3, <1>11, <3>1 DEF Counted
    <3>3. CASE j = i
      <4>1. reached[r] <= x.attempts + crashes /\ reached[r] \in Nat
        BY <1>4, <1>10, <3>2, <3>3
      <4>2. reached[r] <= after[i].attempts + crashes
        BY <1>7, <1>8, <1>10, <4>1
      <4> QED BY <1>4, <1>8, <1>9, <3>1, <3>2, <3>3, <4>2
    <3>4. CASE j # i
      BY <1>4, <1>9, <3>1, <3>2, <3>4
    <3> QED BY <3>3, <3>4
  <2> QED BY <2>1, <2>2
<1>12. Counted(after)'
  BY <1>0, <1>11 DEF Counted
<1>13. Evolved(registry, list) /\ Len(buf[p]) = Len(registry) /\ idx[p] \in Nat /\ idx[p] <= i
  BY <1>0, <1>1, <1>3 DEF SerialInv, LaterVersion, DueFor, TInv, TypeOK
<1>14. i \in 1..Len(registry) /\ Id(registry[i]) = Id(x)
  BY <1>1, <1>4, <1>13 DEF Evolved, Moves
<1>15. ASSUME NEW j \in 1..Len(registry)
       PROVE  \/ after[j].attempts = registry[j].attempts
              \/ j < idx'[p] /\ after[j].attempts = registry[j].attempts + 1
  <2>1. idx'[p] = i + 1
    BY <1>0, <1>1 DEF TInv, TypeOK
  <2>2. CASE j = i
    <3>1. x.attempts = registry[i].attempts
      BY <1>3, <1>4, <1>13, <1>14 DEF Behind
    <3> QED BY <1>8, <2>1, <2>2, <3>1
  <2>3. CASE j # i
    <3>1. j \in 1..Len(list)
      BY <1>5, <1>13 DEF Evolved
    <3>2. after[j] = list[j]
      BY <1>4, <2>3, <3>1
    <3> QED BY <1>3, <1>13, <2>1, <3>2 DEF Behind
  <2> QED BY <2>2, <2>3
<1>16. ASSUME NEW r \in Webhooks \X Items, reached'[r] > 0
       PROVE  Holds(registry, r[2])
  <2>1. CASE r = <<w, Id(x)>>
    BY <1>14, <2>1 DEF Holds
  <2>2. CASE r # <<w, Id(x)>>
    BY <1>10, <1>16, <2>2 DEF Behind
  <2> QED BY <2>1, <2>2
<1>17. Behind(p)'
  BY <1>0, <1>2, <1>3, <1>15, <1>16 DEF Behind, Holds
<1> QED BY <1>3, <1>12, <1>17

\* A death puts the file one attempt behind, and counts for one.
LEMMA CrashCounts ==
  ASSUME SerialInv, NEW p \in Procs, pc[p] \in {"save", "scan"}, Crash(p),
         Counted(Draft(p)), Behind(p)
  PROVE  Counted(registry)'
<1>1. /\ TInv /\ registry' = registry /\ reached' = reached /\ crashes' = crashes + 1
  BY DEF SerialInv, FileInv, Crash, received
<1>2. /\ reached \in [Webhooks \X Items -> Nat] /\ crashes \in Nat
      /\ registry \in Seq(Entries) /\ Len(registry) \in Nat
  BY <1>1, NumberAssumption DEF TInv, TypeOK
<1>3. PICK list : list = Draft(p)
  OBVIOUS
<1>4. list \in Seq(Entries) /\ Len(list) \in Nat /\ list \in Lists
  <2>1. list \in Seq(Entries)
    BY <1>1, <1>3, DraftType
  <2> QED BY <1>3, <2>1 DEF Lists
<1>5. Unique(list) /\ Evolved(registry, list)
  BY <1>3, <1>4 DEF SerialInv, FileInv, Sound, Consistent, LaterVersion
<1>6. ASSUME NEW r \in Webhooks \X Items, reached[r] > 0
      PROVE  \E j \in 1..Len(registry) : /\ Id(registry[j]) = r[2]
                                         /\ reached[r] <= registry[j].attempts + (crashes + 1)
  <2>1. PICK j \in 1..Len(registry) : Id(registry[j]) = r[2]
    BY <1>6 DEF Behind, Holds
  <2>2. PICK i \in 1..Len(list) : Id(list[i]) = r[2] /\ reached[r] <= list[i].attempts + crashes
    BY <1>3, <1>6 DEF Counted
  <2>3. j \in 1..Len(list) /\ Id(list[j]) = r[2]
    BY <1>2, <1>4, <1>5, <2>1 DEF Evolved, Moves
  <2>4. i = j
    BY <1>5, <2>2, <2>3 DEF Unique
  <2>5. list[j].attempts \in {registry[j].attempts, registry[j].attempts + 1}
    BY <1>3 DEF Behind
  <2>6. registry[j].attempts \in Nat
    <3>1. registry[j] \in Entries
      BY <1>2, <2>1
    <3> QED BY <3>1 DEF Entries
  <2>7. reached[r] <= registry[j].attempts + (crashes + 1)
    <3>1. PICK a, b, c, d : a = reached[r] /\ b = registry[j].attempts /\ c = crashes /\ d = list[j].attempts
      OBVIOUS
    <3>2. a \in Nat /\ b \in Nat /\ c \in Nat /\ d \in {b, b + 1} /\ a <= d + c
      BY <1>2, <2>2, <2>4, <2>5, <2>6, <3>1
    <3>3. a <= b + (c + 1)
      BY <3>2
    <3> QED BY <3>1, <3>3
  <2> QED BY <2>1, <2>7
<1> QED BY <1>1, <1>6 DEF Counted

LEMMA CountsInit == Init => CountsKept
<1> SUFFICES ASSUME Init PROVE CountsKept
  OBVIOUS
<1>1. \A p \in Procs : pc[p] = "idle"
  BY DEF Init
<1>2. \A r \in Webhooks \X Items : ~(reached[r] > 0)
  BY DEF Init
<1> QED BY <1>1, <1>2 DEF CountsKept, Counted, HasCopy

LEMMA CountsStep ==
  ASSUME ~Overlap, SerialInv, CountsKept, [Next]_vars
  PROVE  CountsKept'
<1>0. TInv /\ EmptyHanded /\ OneHolder /\ OneHolder'
  BY OneHolderStep DEF SerialInv, FileInv
<1>1. ASSUME NEW p \in Procs, Acts(p), HasCopy(p)', Counted(Draft(p))',
             pc'[p] \in {"save", "scan"} => Behind(p)'
      PROVE  CountsKept'
  BY <1>0, <1>1 DEF CountsKept, OneHolder, HasCopy
<1>2. ASSUME NEW p \in Procs, Loads(p) PROVE CountsKept'
  <2>1. HasCopy(p)' /\ Acts(p)
    BY <1>0, <1>2, LoadStep DEF HasCopy, Acts
  <2> QED BY <1>1, <1>2, <2>1, LoadCounts
<1>3. ASSUME NEW p \in Procs, Post(p) PROVE CountsKept'
  <2>1. HasCopy(p) /\ HasCopy(p)' /\ Acts(p) /\ pc[p] = "scan"
    BY <1>0, <1>3, HolderStep DEF HasCopy, Acts
  <2>2. Counted(Draft(p)) /\ Behind(p)
    BY <2>1 DEF CountsKept
  <2> QED BY <1>1, <1>3, <2>1, <2>2, PostCounts
<1>4. ASSUME NEW p \in Procs, Truncate(p) PROVE CountsKept'
  <2>1. /\ HasCopy(p) /\ HasCopy(p)' /\ Acts(p) /\ pc'[p] = "write"
        /\ crashes' = crashes /\ received' = received /\ Draft(p)' = Draft(p)
    BY <1>0, <1>4, HolderStep DEF Truncate, request, round, Draft, HasCopy, Acts
  <2>2. Counted(Draft(p))
    BY <2>1 DEF CountsKept
  <2>3. Counted(Draft(p))'
    BY <2>1, <2>2 DEF Counted, received
  <2> QED BY <1>1, <2>1, <2>3
<1>5. ASSUME NEW p \in Procs, Save(p) \/ Crash(p), HasCopy(p) PROVE CountsKept'
  <2>1. ~HasCopy(p)'
    BY <1>0, <1>5, HolderStep DEF HasCopy
  <2>2. \A q \in Procs : ~HasCopy(q)'
    BY <1>0, <1>5, <2>1, OthersStay DEF OneHolder, HasCopy, Acts
  <2>3. Counted(Draft(p))
    BY <1>5 DEF CountsKept
  <2>4. CASE Save(p)
    <3>1. registry' = Draft(p) /\ received' = received /\ crashes' = crashes
      BY <2>4 DEF Save, Draft
    <3>2. Counted(registry)'
      BY <2>3, <3>1 DEF Counted, received
    <3> QED BY <2>2, <3>2 DEF CountsKept, HasCopy
  <2>5. CASE Crash(p)
    <3>1. pc[p] \in {"save", "scan"}
      BY <1>5, <2>5 DEF Crash, HasCopy
    <3>2. Counted(registry)'
      BY <2>3, <2>5, <3>1, CrashCounts DEF CountsKept
    <3> QED BY <2>2, <3>2 DEF CountsKept, HasCopy
  <2> QED BY <1>5, <2>4, <2>5
<1>6. ASSUME registry' = registry, received' = received, crashes' \in {crashes, crashes + 1},
             \A q \in Procs : /\ (HasCopy(q)' <=> HasCopy(q))
                              /\ (pc'[q] \in {"save", "scan"} => pc'[q] = pc[q])
                              /\ HasCopy(q) => Draft(q)' = Draft(q) /\ idx'[q] = idx[q]
      PROVE  CountsKept'
  <2>1. ASSUME NEW list, list \in Seq(Entries), Counted(list) PROVE Counted(list)'
    <3>1. /\ crashes \in Nat /\ \A i \in 1..Len(list) : list[i].attempts \in Nat
          /\ reached \in [Webhooks \X Items -> Nat]
      <4>1. crashes \in Nat /\ reached \in [Webhooks \X Items -> Nat]
        BY <1>0, NumberAssumption DEF TInv, TypeOK
      <4>2. ASSUME NEW i \in 1..Len(list) PROVE list[i].attempts \in Nat
        <5>1. list[i] \in Entries
          BY <2>1
        <5> QED BY <5>1 DEF Entries
      <4> QED BY <4>1, <4>2
    <3>2. ASSUME NEW r \in Webhooks \X Items, NEW i \in 1..Len(list),
                 reached[r] <= list[i].attempts + crashes
          PROVE  reached[r] <= list[i].attempts + crashes'
      <4>1. PICK a, b, c, d : a = reached[r] /\ b = list[i].attempts /\ c = crashes /\ d = crashes'
        OBVIOUS
      <4>2. a \in Nat /\ b \in Nat /\ c \in Nat /\ d \in {c, c + 1} /\ a <= b + c
        BY <1>6, <3>1, <3>2, <4>1
      <4>3. a <= b + d
        BY <4>2
      <4> QED BY <4>1, <4>3
    <3> QED BY <1>6, <2>1, <3>2 DEF Counted, received
  <2>2. registry \in Seq(Entries) /\ \A q \in Procs : Draft(q) \in Seq(Entries)
    BY <1>0, DraftType DEF TInv, TypeOK
  <2>3. (\A q \in Procs : ~HasCopy(q)') => Counted(registry)'
    BY <1>6, <2>1, <2>2 DEF CountsKept, Counted, received
  <2>4. ASSUME NEW q \in Procs, HasCopy(q)' PROVE Counted(Draft(q))'
    <3>1. PICK list : list = Draft(q)
      OBVIOUS
    <3>2. Counted(list) /\ list \in Seq(Entries) /\ list = Draft(q)'
      BY <1>6, <2>2, <2>4, <3>1 DEF CountsKept
    <3>3. Counted(list)'
      BY <2>1, <3>2
    <3> QED BY <3>2, <3>3 DEF Counted
  <2>5. ASSUME NEW q \in Procs, pc'[q] \in {"save", "scan"} PROVE Behind(q)'
    <3>1. /\ pc'[q] = pc[q] /\ Behind(q) /\ Draft(q)' = Draft(q) /\ idx'[q] = idx[q]
      BY <1>6, <2>5 DEF CountsKept, HasCopy
    <3> QED BY <1>6, <3>1 DEF Behind, Holds, received
  <2> QED BY <2>3, <2>4, <2>5 DEF CountsKept
<1>7. ASSUME NEW p \in Procs, ReplaySelect(p) \/ (Crash(p) /\ ~HasCopy(p)) PROVE CountsKept'
  <2>1. /\ registry' = registry /\ received' = received /\ crashes' \in {crashes, crashes + 1}
    BY <1>7 DEF ReplaySelect, Crash, received
  <2>2. ~HasCopy(p) /\ ~HasCopy(p)' /\ pc'[p] \notin {"save", "scan"}
    BY <1>0, <1>7, HolderStep DEF HasCopy
  <2>3. \A q \in Procs \ {p} : pc'[q] = pc[q] /\ Draft(q)' = Draft(q) /\ idx'[q] = idx[q]
    BY <1>0, <1>7, OthersStay DEF Acts
  <2> QED BY <1>6, <2>1, <2>2, <2>3 DEF HasCopy
<1>8. ASSUME Tick \/ UNCHANGED vars PROVE CountsKept'
  <2>1. /\ registry' = registry /\ received' = received /\ crashes' = crashes /\ pc' = pc
        /\ idx' = idx /\ \A q \in Procs : Draft(q)' = Draft(q)
    BY <1>8, IdleLists DEF Tick, vars, round, request
  <2> QED BY <1>6, <2>1 DEF HasCopy
<1>9. ASSUME NEW p \in Procs, Save(p) PROVE HasCopy(p)
  BY <1>0, <1>9, HolderStep DEF HasCopy
<1>10. ASSUME NEW p \in Procs, Acts(p) PROVE CountsKept'
  BY <1>2, <1>3, <1>4, <1>5, <1>7, <1>9, <1>10 DEF Acts
<1> QED BY <1>8, <1>10, StepsAre

\* So nothing arrives more often than retries, replays and deaths allow.
LEMMA CountsBound ==
  ASSUME SerialInv, CountsKept, BudgetInv
  PROVE  DuplicatesBounded
<1> SUFFICES ASSUME NEW r \in Webhooks \X Items
             PROVE  reached[r] <= DeadThreshold + replays + crashes
  BY DEF DuplicatesBounded
<1>1. /\ reached[r] \in Nat /\ crashes \in Nat /\ replays \in Nat /\ DeadThreshold \in Nat
  BY NumberAssumption DEF SerialInv, FileInv, TInv, TypeOK
<1>2. CASE reached[r] > 0
  <2>1. PICK list \in Lists : Counted(list)
    BY DEF CountsKept, Lists
  <2>2. PICK i \in 1..Len(list) : reached[r] <= list[i].attempts + crashes
    BY <1>2, <2>1 DEF Counted
  <2>3. list[i].attempts \in Nat /\ list[i].attempts <= DeadThreshold + replays
    BY BudgetBound
  <2>4. PICK a, b, c, d, e : /\ a = reached[r] /\ b = list[i].attempts /\ c = crashes
                             /\ d = DeadThreshold /\ e = replays
    OBVIOUS
  <2>5. /\ a \in Nat /\ b \in Nat /\ c \in Nat /\ d \in Nat /\ e \in Nat
        /\ a <= b + c /\ b <= d + e
    BY <1>1, <2>2, <2>3, <2>4
  <2>6. a <= d + e + c
    BY <2>5
  <2> QED BY <2>4, <2>6
<1>3. CASE reached[r] = 0
  BY <1>1, <1>3
<1> QED BY <1>1, <1>2, <1>3

\* With one operation at a time a worker does not post what the webhook has acknowledged
\* unless a worker died; no entry is tried beyond its budget; and a webhook whose answers
\* are lost gets an item no more often than the threshold, the replays and the deaths add
\* up to (deliver_pending_events, _failed_delivery_event).
THEOREM RetriesBounded ==
  ASSUME ~Overlap
  PROVE  Spec => []RetriesAreBounded
<1>1. Init => SerialInv /\ ReceiptsKept
  <2> SUFFICES ASSUME Init PROVE SerialInv /\ ReceiptsKept
    OBVIOUS
  <2>1. accepted = {} /\ \A p \in Procs : ~HasCopy(p)
    BY DEF Init, HasCopy
  <2> QED BY <2>1, SerialInit DEF ReceiptsKept, Recorded
<1>2. SerialInv /\ ReceiptsKept /\ [Next]_vars => SerialInv' /\ ReceiptsKept'
  BY SerialStep, ReceiptsStep DEF SerialInv, FileInv
<1>3. SerialInv /\ ReceiptsKept => NoRepost
  <2> SUFFICES ASSUME SerialInv, ReceiptsKept, crashes = 0, NEW p \in Workers, pc[p] = "scan",
                      NEW i \in DueFor(p), <<Hooks[hook[p]], Id(buf[p][i])>> \in accepted
               PROVE  FALSE
    BY DEF NoRepost
  <2>1. p \in Procs /\ TInv /\ HasCopy(p)
    BY DEF Procs, SerialInv, FileInv, HasCopy
  <2>2. Recorded(Draft(p)) /\ Unique(Draft(p))
    BY <2>1 DEF ReceiptsKept, SerialInv, FileInv, Lists, Sound, Consistent
  <2>3. PICK j \in 1..Len(Draft(p)) :
          Id(Draft(p)[j]) = Id(buf[p][i]) /\ Hooks[hook[p]] \in Draft(p)[j].receipts
    BY <2>2 DEF Recorded
  <2>4. i \in 1..Len(buf[p]) /\ Hooks[hook[p]] \notin buf[p][i].receipts
    BY <2>1 DEF DueFor, IsDue, TInv, TypeOK
  <2>5. i \in 1..Len(Draft(p)) /\ Draft(p)[i] = buf[p][i]
    <3>1. Draft(p)[i] = buf[p][i] /\ Len(Draft(p)) = Len(buf[p]) + Len(emitted[p])
      BY <2>1, <2>4, DraftType
    <3>2. Len(buf[p]) \in Nat /\ Len(emitted[p]) \in Nat
      BY <2>1 DEF TInv, TypeOK
    <3>3. PICK a, b, d : a = Len(buf[p]) /\ b = Len(emitted[p]) /\ d = Len(Draft(p))
      OBVIOUS
    <3>4. a \in Nat /\ b \in Nat /\ d = a + b /\ i \in 1..a
      BY <2>4, <3>1, <3>2, <3>3
    <3>5. i \in 1..d
      BY <3>4
    <3> QED BY <3>1, <3>3, <3>5
  <2>6. i = j
    BY <2>2, <2>3, <2>5 DEF Unique
  <2> QED BY <2>3, <2>4, <2>5, <2>6
<1>4. Spec => []AttemptBudget
  BY AttemptsBounded
<1>5. Spec => []NoRepost
  BY <1>1, <1>2, <1>3, PTL DEF Spec
<1>6. Spec => []DuplicatesBounded
  <2>1. Init => SerialInv /\ CountsKept
    BY SerialInit, CountsInit
  <2>2. SerialInv /\ CountsKept /\ [Next]_vars => SerialInv' /\ CountsKept'
    BY SerialStep, CountsStep
  <2>3. SerialInv /\ CountsKept /\ BudgetInv => DuplicatesBounded
    BY CountsBound
  <2> QED BY <2>1, <2>2, <2>3, BudgetInvariant, PTL DEF Spec
<1> QED BY <1>4, <1>5, <1>6, PTL DEF RetriesAreBounded

-----------------------------------------------------------------------------
(* The promises of OutboxPromise.                                          *)

\* What a list says of an item, and what the status of its entry says.
StandingIn(list, item) ==
  LET at == {i \in 1..Len(list) : Id(list[i]) = item}
      is(status) == \E i \in at : list[i].status = status
  IN  CASE at = {}            -> "absent"
        [] is("delivered")    -> "delivered"
        [] is("dead_letter")  -> "dead"
        [] OTHER              -> "queued"
Mode(status) ==
  CASE status = "delivered"   -> "delivered"
    [] status = "dead_letter" -> "dead"
    [] OTHER                  -> "queued"

LEMMA StandingAbsent ==
  ASSUME NEW list, NEW item, ~Holds(list, item)
  PROVE  StandingIn(list, item) = "absent"
BY DEF StandingIn, Holds

LEMMA StandingHeld ==
  ASSUME NEW list, Unique(list), NEW i \in 1..Len(list)
  PROVE  StandingIn(list, Id(list[i])) = Mode(list[i].status)
<1> DEFINE item == Id(list[i])
           at == {j \in 1..Len(list) : Id(list[j]) = item}
<1>1. at = {i}
  BY DEF Unique
<1> HIDE DEF item
<1>2. StandingIn(list, item)
        = CASE {i} = {} -> "absent"
            [] \E j \in {i} : list[j].status = "delivered"   -> "delivered"
            [] \E j \in {i} : list[j].status = "dead_letter" -> "dead"
            [] OTHER -> "queued"
  BY <1>1, Zenon DEF StandingIn
<1>3. StandingIn(list, item) = Mode(list[i].status)
  <2>1. CASE list[i].status = "delivered"
    BY <1>2, <2>1 DEF Mode
  <2>2. CASE list[i].status = "dead_letter"
    BY <1>2, <2>2 DEF Mode
  <2>3. CASE list[i].status \notin {"delivered", "dead_letter"}
    BY <1>2, <2>3 DEF Mode
  <2> QED BY <2>1, <2>2, <2>3
<1> QED BY <1>3 DEF item

\* How an item may move when a later version of the list is written.
Origin(item) == IF item[2] = Alert THEN <<item[1], KindOf[item[1]]>> ELSE item
ItemMoves(old, new, item) ==
  LET from == StandingIn(old, item)
      to   == StandingIn(new, item)
  IN  \/ to = from
      \/ /\ from = "absent" /\ to = "queued"
         /\ Origin(item) # item => /\ StandingIn(old, Origin(item)) # "absent"
                                   /\ StandingIn(new, Origin(item)) # "delivered"
      \/ from = "queued" /\ to \in {"delivered", "dead"}
      \/ from = "dead" /\ to = "queued"

LEMMA LaterVersionMoves ==
  ASSUME NEW old \in Seq(Entries), NEW new \in Seq(Entries), Unique(old), Unique(new),
         Evolved(old, new), NEW item \in Items
  PROVE  ItemMoves(old, new, item)
<1>1. Len(old) \in Nat /\ Len(new) \in Nat /\ Len(old) <= Len(new)
  BY DEF Evolved
<1>2. CASE Holds(old, item)
  <2>1. PICK i \in 1..Len(old) : Id(old[i]) = item
    BY <1>2 DEF Holds
  <2>2. i \in 1..Len(new) /\ Id(new[i]) = item /\ Moves(old[i], new[i])
    BY <1>1, <2>1 DEF Evolved, Moves
  <2>3. StandingIn(old, item) = Mode(old[i].status) /\ StandingIn(new, item) = Mode(new[i].status)
    BY <2>1, <2>2, StandingHeld
  <2>4. new[i].status \in Statuses
    <3>1. new[i] \in Entries
      BY <2>2
    <3> QED BY <3>1 DEF Entries
  <2>5. \/ Mode(new[i].status) = Mode(old[i].status)
        \/ Mode(old[i].status) = "queued" /\ Mode(new[i].status) \in {"delivered", "dead"}
        \/ Mode(old[i].status) = "dead" /\ Mode(new[i].status) = "queued"
    BY <2>2, <2>4 DEF Moves, Mode, Queued, Statuses
  <2> QED BY <2>3, <2>5 DEF ItemMoves
<1>3. CASE ~Holds(old, item) /\ ~Holds(new, item)
  BY <1>3, StandingAbsent DEF ItemMoves
<1>4. CASE ~Holds(old, item) /\ Holds(new, item)
  <2>1. PICK j \in 1..Len(new) : Id(new[j]) = item
    BY <1>4 DEF Holds
  <2>2. j > Len(old)
    <3>1. ASSUME j \in 1..Len(old) PROVE FALSE
      BY <1>4, <2>1, <3>1 DEF Evolved, Moves, Holds
    <3> QED BY <1>1, <3>1
  <2>3. /\ new[j].status = "pending"
        /\ new[j].kind = Alert => Grounded(new, new[j], Len(old) + 1)
    BY <2>2 DEF Evolved
  <2>4. StandingIn(old, item) = "absent"
    BY <1>4, StandingAbsent
  <2>5. StandingIn(new, item) = "queued"
    <3>1. StandingIn(new, item) = Mode(new[j].status)
      BY <2>1, StandingHeld
    <3> QED BY <2>3, <3>1 DEF Mode
  <2>6. ASSUME Origin(item) # item
        PROVE  /\ StandingIn(old, Origin(item)) # "absent"
               /\ StandingIn(new, Origin(item)) # "delivered"
    <3>1. /\ item[2] = Alert /\ item[1] = new[j].event /\ new[j].kind = Alert
          /\ Origin(item) = <<new[j].event, KindOf[new[j].event]>>
      BY <2>1, <2>6 DEF Origin, Id
    <3>2. PICK k \in 1..Len(new) : /\ k < Len(old) + 1 /\ Id(new[k]) = Origin(item)
                                   /\ new[k].status # "delivered"
      BY <2>3, <3>1 DEF Grounded
    <3>3. k \in 1..Len(old) /\ Id(old[k]) = Origin(item)
      BY <1>1, <3>2 DEF Evolved, Moves
    <3>4. /\ StandingIn(old, Origin(item)) = Mode(old[k].status)
          /\ StandingIn(new, Origin(item)) = Mode(new[k].status)
      BY <3>2, <3>3, StandingHeld
    <3> QED BY <3>2, <3>4 DEF Mode
  <2> QED BY <2>4, <2>5, <2>6 DEF ItemMoves
<1> QED BY <1>2, <1>3, <1>4

\* The abstract standing is what the contents of the file say.
StandingOf(list) == [item \in Items |-> StandingIn(list, item)]

StandingIsOfContents == [i \in Items |-> Standing(i)] = StandingOf(Contents)

LEMMA StandingIsOf == StandingIsOfContents
BY Zenon DEF Standing, StandingIn, StandingOf, StandingIsOfContents

LEMMA StandingIsOfNext == StandingIsOfContents'
BY StandingIsOf, PTL

\* One operation at a time, every write of the file is a write of OutboxPromise: items
\* come into it queued, alerts with an origin that is there, delivery is final and only the
\* dead are queued again (publish_event, deliver_pending_events,
\* replay_dead_lettered_events).
THEOREM OutboxKeepsPromise ==
  ASSUME ~Overlap
  PROVE  Spec => ImplementsPromise
<1>1. Init => SerialInv
  BY SerialInit
<1>2. SerialInv /\ [Next]_vars => SerialInv'
  BY SerialStep
<1>3. Init => Promise!Init
  <2> SUFFICES ASSUME Init PROVE Promise!Init
    OBVIOUS
  <2>1. Contents = <<>>
    BY DEF Init, Contents, Writing
  <2>2. \A item \in Items : StandingIn(<<>>, item) = "absent"
    BY StandingAbsent DEF Holds
  <2> QED BY <2>1, <2>2, StandingIsOf DEF Promise!Init, StandingOf, StandingIsOfContents
<1>4. SerialInv /\ SerialInv' /\ [Next]_vars
        => [Promise!Write]_[i \in Items |-> Standing(i)]
  <2> SUFFICES ASSUME SerialInv, SerialInv', [Next]_vars
               PROVE  [Promise!Write]_[i \in Items |-> Standing(i)]
    OBVIOUS
  <2> DEFINE standing == [i \in Items |-> Standing(i)]
  <2>0. standing = StandingOf(Contents) /\ standing' = StandingOf(Contents')
    BY StandingIsOf, StandingIsOfNext DEF StandingOf, StandingIsOfContents
  <2>1. CASE Contents' = Contents
    BY <2>0, <2>1
  <2>2. ASSUME NEW p \in Procs, pc[p] \in {"save", "scan"}, Contents = registry, Contents' = Draft(p)
        PROVE  Promise!Write
    <3>1. /\ registry \in Seq(Entries) /\ Draft(p) \in Seq(Entries)
          /\ Unique(registry) /\ Unique(Draft(p)) /\ Evolved(registry, Draft(p))
      BY <2>2, DraftType
      DEF SerialInv, LaterVersion, FileInv, TInv, TypeOK, Lists, Sound, Consistent
    <3>2. \A i \in Items : standing[i] = StandingIn(registry, i) /\ standing'[i] = StandingIn(Draft(p), i)
      BY <2>0, <2>2 DEF StandingOf
    <3>3. standing' = [i \in Items |-> standing'[i]]
      BY <2>0 DEF StandingOf
    <3>4. \A i \in Items : ItemMoves(registry, Draft(p), i)
      BY <3>1, LaterVersionMoves
    <3>5. ASSUME NEW i \in Items
          PROVE  standing'[i] = standing[i] \/ Promise!Enqueue(i) \/ Promise!Deliver(i)
                   \/ Promise!GiveUp(i) \/ Promise!Requeue(i)
      <4>1. ItemMoves(registry, Draft(p), i)
        BY <3>4
      <4>2. CASE standing[i] = "absent" /\ standing'[i] = "queued"
        <5>1. Origin(i) # i => standing[Origin(i)] # "absent" /\ standing'[Origin(i)] # "delivered"
          <6>1. Origin(i) \in Items
            BY OutboxAssumption DEF Origin, Items
          <6>2. StandingIn(registry, i) = "absent" /\ StandingIn(Draft(p), i) = "queued"
            BY <3>2, <4>2
          <6>3. Origin(i) # i => /\ StandingIn(registry, Origin(i)) # "absent"
                                /\ StandingIn(Draft(p), Origin(i)) # "delivered"
            BY <4>1, <6>2 DEF ItemMoves
          <6> HIDE DEF standing
          <6> QED BY <3>2, <6>1, <6>3
        <5> QED BY <4>2, <5>1, OutboxAssumption DEF Promise!Enqueue, Promise!Goes, Origin
      <4>3. CASE standing[i] = "queued" /\ standing'[i] \in {"delivered", "dead"}
        BY <4>3 DEF Promise!Deliver, Promise!GiveUp, Promise!Goes
      <4>4. CASE standing[i] = "dead" /\ standing'[i] = "queued"
        BY <4>4 DEF Promise!Requeue, Promise!Goes
      <4> QED BY <3>2, <4>1, <4>2, <4>3, <4>4 DEF ItemMoves
    <3> QED BY <3>3, <3>5 DEF Promise!Write
  <2> QED BY <2>1, <2>2, ContentsStep DEF SerialInv, FileInv
<1> QED BY <1>1, <1>2, <1>3, <1>4, PTL DEF Spec, ImplementsPromise, Promise!Spec
=============================================================================
