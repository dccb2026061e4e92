-------------------------- MODULE IntegrationOutbox --------------------------
(***************************************************************************)
(* IntegrationOutboxService: events for external systems are appended to   *)
(* one JSON file, events.json; workers post the due ones to the registered *)
(* webhooks with retries, backoff, dead letters and alerts; an operator    *)
(* replays dead letters.                                                   *)
(*                                                                         *)
(* Every operation reads the whole file, works on that copy and writes the *)
(* whole file back.  One step is one read of the file, one write of it, or *)
(* one post.  The receivers are external: they answer as they like.         *)
(***************************************************************************)
EXTENDS Integers, Sequences

CONSTANTS
  Events,          \* what the platform may publish, each of them once
  Kinds,           \* event types
  Alert,           \* the kind outbox.retry_alert
  KindOf,          \* the type of each event
  Publishers, Workers, Operators,  \* processes
  Hooks,           \* names of the registered webhooks, in the order of list_webhooks
  Accepts,         \* the kinds each webhook has subscribed to
  Types,           \* the event_types each worker was started with
  RetryDelay, Interval, MaxRetryDelay,  \* seconds, in ticks
  DeadThreshold, AlertThreshold,
  Limit,           \* limit_per_webhook, 0 for none
  Answers,         \* what a post may come to
  Filters,         \* the selections an operator asks to replay
  MaxReplays,      \* bound on the replays
  MaxTime,         \* the clock stops here
  Overlap,         \* may one operation start while another one holds a copy?
  TornFile,        \* is the file empty between truncation and write?
  MaxCrashes       \* bound on the deaths of processes

Procs == Publishers \cup Workers \cup Operators
Webhooks == {Hooks[h] : h \in 1..Len(Hooks)}
Items == Events \X Kinds

ASSUME RoleAssumption ==
  Publishers \cap (Workers \cup Operators) = {} /\ Workers \cap Operators = {}
ASSUME OutboxAssumption ==
  /\ Alert \in Kinds /\ KindOf \in [Events -> Kinds \ {Alert}]
  /\ Len(Hooks) \in Nat /\ Hooks \in [1..Len(Hooks) -> Webhooks]
  /\ Accepts \in [Webhooks -> SUBSET Kinds]
  /\ Types \in [Workers -> SUBSET Kinds]
  /\ Filters \subseteq SUBSET Items
  /\ Answers \subseteq {"ok", "lost", "retry", "reject"}
  /\ {Overlap, TornFile} \subseteq BOOLEAN
ASSUME NumberAssumption ==
  /\ RetryDelay \in Nat /\ Interval \in Nat /\ Limit \in Nat
  /\ MaxRetryDelay \in Nat /\ MaxRetryDelay >= RetryDelay /\ MaxRetryDelay >= Interval
  /\ DeadThreshold \in Nat \ {0} /\ AlertThreshold \in Nat \ {0}
  /\ MaxTime \in Nat /\ MaxReplays \in Nat /\ MaxCrashes \in Nat

VARIABLES
  now,
  registry,   \* the list in events.json
  pc,         \* where each process is
  buf,        \* its copy of the list, edited as it goes
  emitted,    \* the alerts a worker will append
  idx,        \* the next entry a worker looks at
  hook,       \* the webhook it serves
  tried,      \* its posts for that webhook in this round
  clock,      \* its current_time, fixed for the round
  chosen,     \* what an operation is about: the item to publish, or to replay
  replays,    \* replays so far
  crashes,    \* processes that died so far
  published,  \* history: events whose publish_event has returned
  accepted,   \* history: what which webhook has acknowledged to the worker
  reached     \* history: how often an item arrived at a webhook

round == <<emitted, idx, hook, tried, clock>>
request == <<chosen, replays, crashes>>
received == <<accepted, reached>>
vars == <<now, registry, pc, buf, round, request, published, received>>

-----------------------------------------------------------------------------
(* Entries of the list.                                                    *)

Cap(t) == IF t > MaxTime THEN MaxTime ELSE t

Id(x) == <<x.event, x.kind>>
Statuses == {"pending", "retry_pending", "delivered", "dead_letter"}

Entries == [event : Events, kind : Kinds, status : Statuses, attempts : Nat,
            retryAt : 0..MaxTime, receipts : SUBSET Webhooks, alerted : BOOLEAN]

NewEntry(e, k) ==
  [event |-> e, kind |-> k, status |-> "pending", attempts |-> 0, retryAt |-> 0,
   receipts |-> {}, alerted |-> FALSE]

Backoff(n) ==
  LET doubled == RetryDelay * 2 ^ (n - 1)
      capped  == IF doubled < MaxRetryDelay THEN doubled ELSE MaxRetryDelay
  IN  IF RetryDelay = 0 \/ capped < Interval THEN Interval ELSE capped

\* Mutant: only what is pending is posted, not what waits for its retry.
IsDueOnce(x, w, t) ==
  /\ w \notin x.receipts
  /\ x.status = "pending"
  /\ x.retryAt <= t
  /\ x.kind \in Accepts[w]

\* Which entries deliver_pending_events posts.  That delivery_interval_seconds have
\* passed since the last attempt follows: no backoff is shorter.
IsDue(x, w, t) ==
  /\ w \notin x.receipts
  /\ x.status \in {"pending", "retry_pending"}
  /\ x.retryAt <= t
  /\ x.kind \in Accepts[w]

Delivered(x, w) ==
  [x EXCEPT !.status = "delivered", !.attempts = @ + 1, !.retryAt = 0,
            !.receipts = @ \cup {w}]

\* Mutant: the entry is given the status its failed delivery record has.
FailedByName(x, answer, t) ==
  LET n == x.attempts + 1
  IN  IF answer # "reject" /\ n < DeadThreshold
      THEN [x EXCEPT !.status = "retry_pending", !.attempts = n, !.retryAt = Cap(t + Backoff(n))]
      ELSE [x EXCEPT !.status = "failed", !.attempts = n, !.retryAt = 0]

Failed(x, answer, t) ==
  LET n == x.attempts + 1
  IN  IF answer # "reject" /\ n < DeadThreshold
      THEN [x EXCEPT !.status = "retry_pending", !.attempts = n, !.retryAt = Cap(t + Backoff(n))]
      ELSE [x EXCEPT !.status = "dead_letter", !.attempts = n, !.retryAt = 0]

\* _maybe_emit_retry_alert, on a failed entry.
NeedsAlert(x) ==
  /\ x.kind # Alert
  /\ ~x.alerted
  /\ x.status = "dead_letter" \/ x.attempts >= AlertThreshold

\* Mutant: a replay clears the alert count along with the alert status.
ReplayedUnalerted(x, t) ==
  [x EXCEPT !.status = "pending", !.retryAt = t, !.alerted = FALSE]

Replayed(x, t) == [x EXCEPT !.status = "pending", !.retryAt = t]

-----------------------------------------------------------------------------
Init ==
  /\ now = 0
  /\ registry = <<>>
  /\ pc = [p \in Procs |-> "idle"]
  /\ buf = [p \in Procs |-> <<>>]
  /\ emitted = [p \in Procs |-> <<>>]
  /\ idx = [p \in Procs |-> 1]
  /\ hook = [p \in Procs |-> 1]
  /\ tried = [p \in Procs |-> 0]
  /\ clock = [p \in Procs |-> 0]
  /\ chosen = [p \in Procs |-> {}]
  /\ replays = 0
  /\ crashes = 0
  /\ published = {}
  /\ accepted = {}
  /\ reached = [r \in Webhooks \X Items |-> 0]

HasCopy(p) == pc[p] \in {"scan", "save", "write"}

Goto(p, to) == pc' = [pc EXCEPT ![p] = to]

\* Reading the file starts an operation's hold of a copy.
Reads(p, copy) ==
  /\ Overlap \/ \A q \in Procs \ {p} : ~HasCopy(q)
  /\ buf' = [buf EXCEPT ![p] = copy]
  /\ UNCHANGED <<now, registry, received>>

(* publish_event.                                                          *)

\* Mutant: the list is built anew.
PublishOnly(p) ==
  /\ pc[p] = "idle"
  /\ \E e \in Events \ published :
       /\ \A q \in Publishers : <<e, KindOf[e]>> \notin chosen[q]
       /\ chosen' = [chosen EXCEPT ![p] = {<<e, KindOf[e]>>}]
       /\ Reads(p, <<NewEntry(e, KindOf[e])>>)
  /\ Goto(p, "save")
  /\ UNCHANGED <<round, replays, crashes, published>>

PublishLoad(p) ==
  /\ pc[p] = "idle"
  /\ \E e \in Events \ published :
       /\ \A q \in Publishers : <<e, KindOf[e]>> \notin chosen[q]
       /\ chosen' = [chosen EXCEPT ![p] = {<<e, KindOf[e]>>}]
       /\ Reads(p, Append(registry, NewEntry(e, KindOf[e])))
  /\ Goto(p, "save")
  /\ UNCHANGED <<round, replays, crashes, published>>

-----------------------------------------------------------------------------
(* run_delivery_worker: the webhooks in turn, each a deliver_pending_events.*)

\* The round's current_time is read with the list of its first webhook.
DeliverLoad(p) ==
  /\ Hooks # <<>>
  /\ \/ pc[p] = "idle" /\ clock' = [clock EXCEPT ![p] = now]
     \/ pc[p] = "load" /\ UNCHANGED clock
  /\ Reads(p, registry)
  /\ Goto(p, "scan")
  /\ UNCHANGED <<emitted, idx, hook, tried, request, published>>

DueFor(p) ==
  {i \in idx[p]..Len(buf[p]) :
     /\ Limit = 0 \/ tried[p] < Limit
     /\ buf[p][i].kind \in Types[p]
     /\ IsDue(buf[p][i], Hooks[hook[p]], clock[p])}

\* Mutant: a 2xx answer whose body is no receipt counts as a failure.
AfterPostNoReceipt(x, w, answer, t) == Failed(x, IF answer = "ok" THEN "retry" ELSE answer, t)

\* What one post leaves: the entry, and whether an alert is appended.
AfterPost(x, w, answer, t) ==
  IF answer = "ok" THEN Delivered(x, w) ELSE Failed(x, answer, t)

\* The receiver.  "lost": the message arrived, its answer never came back.
Receive(w, x, answer) ==
  /\ accepted' = IF answer = "ok" THEN accepted \cup {<<w, Id(x)>>} ELSE accepted
  /\ reached' = IF answer \in {"ok", "lost"}
                THEN [reached EXCEPT ![<<w, Id(x)>>] = @ + 1] ELSE reached

Post(p) ==
  /\ pc[p] = "scan"
  /\ \E i \in DueFor(p), answer \in Answers :
       LET w == Hooks[hook[p]]
           x == AfterPost(buf[p][i], w, answer, clock[p])
           alert == answer # "ok" /\ NeedsAlert(x)
       IN  /\ \A j \in DueFor(p) : i <= j
           /\ Receive(w, buf[p][i], answer)
           /\ buf' = [buf EXCEPT ![p][i] = IF alert THEN [x EXCEPT !.alerted = TRUE] ELSE x]
           /\ emitted' = IF alert
                         THEN [emitted EXCEPT ![p] = Append(@, NewEntry(x.event, Alert))]
                         ELSE emitted
           /\ idx' = [idx EXCEPT ![p] = i + 1]
  /\ tried' = [tried EXCEPT ![p] = @ + 1]
  /\ UNCHANGED <<now, registry, pc, hook, clock, request, published>>

-----------------------------------------------------------------------------
(* replay-integration-dead-letters.                                        *)

DeadIn(list) == {Id(list[i]) : i \in {j \in 1..Len(list) : list[j].status = "dead_letter"}}

\* replay_dead_letter_events turns the request into event ids, by a read of its own.
ReplaySelect(p) ==
  /\ pc[p] = "idle"
  /\ replays < MaxReplays
  /\ \E F \in Filters : chosen' = [chosen EXCEPT ![p] = DeadIn(registry) \cap F]
  /\ replays' = replays + 1
  /\ Goto(p, "selected")
  /\ UNCHANGED <<now, registry, buf, round, crashes, published, received>>

\* replay_dead_lettered_events: no event ids means no filter.
Selects(ids, x) == ids = {} \/ Id(x) \in ids

\* Mutant: delivered entries are replayed as well.
ReplayAnything(p) ==
  /\ pc[p] = "selected"
  /\ Reads(p, [i \in 1..Len(registry) |->
                 IF registry[i].status \in {"dead_letter", "delivered"} /\ Selects(chosen[p], registry[i])
                 THEN Replayed(registry[i], now) ELSE registry[i]])
  /\ Goto(p, "save")
  /\ UNCHANGED <<round, request, published>>

ReplayLoad(p) ==
  /\ pc[p] = "selected"
  /\ Reads(p, [i \in 1..Len(registry) |->
                 IF registry[i].status = "dead_letter" /\ Selects(chosen[p], registry[i])
                 THEN Replayed(registry[i], now) ELSE registry[i]])
  /\ Goto(p, "save")
  /\ UNCHANGED <<round, request, published>>

-----------------------------------------------------------------------------
(* _save_registry: write_text truncates the file before it writes.         *)

CopyReady(p) ==
  \/ pc[p] = "save"
  \/ pc[p] = "scan" /\ DueFor(p) = {}

Truncate(p) ==
  /\ TornFile
  /\ CopyReady(p)
  /\ registry' = <<>>
  /\ Goto(p, "write")
  /\ UNCHANGED <<now, buf, round, request, published, received>>

\* What an operation forgets when it returns, or dies.
Forget(p) ==
  /\ buf' = [buf EXCEPT ![p] = <<>>]
  /\ emitted' = [emitted EXCEPT ![p] = <<>>]
  /\ idx' = [idx EXCEPT ![p] = 1]
  /\ tried' = [tried EXCEPT ![p] = 0]
  /\ chosen' = [chosen EXCEPT ![p] = {}]

Return(p) ==
  /\ Goto(p, "idle")
  /\ hook' = [hook EXCEPT ![p] = 1]
  /\ clock' = [clock EXCEPT ![p] = 0]

Save(p) ==
  /\ IF TornFile THEN pc[p] = "write" ELSE CopyReady(p)
  /\ registry' = buf[p] \o emitted[p]
  /\ Forget(p)
  /\ \/ /\ p \in Workers /\ hook[p] < Len(Hooks)
        /\ hook' = [hook EXCEPT ![p] = @ + 1] /\ Goto(p, "load") /\ UNCHANGED clock
     \/ /\ ~(p \in Workers /\ hook[p] < Len(Hooks))
        /\ Return(p)
  /\ published' = IF p \in Publishers
                  THEN published \cup {item[1] : item \in chosen[p]} ELSE published
  /\ UNCHANGED <<now, replays, crashes, received>>

\* The process dies; another one may be started in its place.  A death between the
\* truncation and the write empties the file: nothing survives that, and it is left out.
Crash(p) ==
  /\ crashes < MaxCrashes
  /\ pc[p] \notin {"idle", "write"}
  /\ crashes' = crashes + 1
  /\ Forget(p)
  /\ Return(p)
  /\ UNCHANGED <<now, registry, replays, published, received>>

Tick ==
  /\ now < MaxTime
  /\ now' = now + 1
  /\ UNCHANGED <<registry, pc, buf, round, request, published, received>>

WorkerStep(p) == DeliverLoad(p) \/ Post(p)
OperatorStep(p) == ReplaySelect(p) \/ ReplayLoad(p)
WriteBack(p) == Truncate(p) \/ Save(p)

Next ==
  \/ \E p \in Publishers : PublishLoad(p)
  \/ \E p \in Workers : WorkerStep(p)
  \/ \E p \in Operators : OperatorStep(p)
  \/ \E p \in Procs : WriteBack(p) \/ Crash(p)
  \/ Tick

Spec == Init /\ [][Next]_vars

\* A daemon keeps running rounds, time passes, and who has read the file writes it.
Fairness ==
  /\ \A p \in Workers : WF_vars(WorkerStep(p))
  /\ \A p \in Procs : WF_vars(WriteBack(p))
  /\ WF_vars(Tick)

FairSpec == Spec /\ Fairness

-----------------------------------------------------------------------------
(* Properties.                                                             *)

Pcs == {"idle", "load", "scan", "selected", "save", "write"}

TypeOK ==
  /\ now \in 0..MaxTime
  /\ registry \in Seq(Entries)
  /\ pc \in [Procs -> Pcs]
  /\ buf \in [Procs -> Seq(Entries)]
  /\ emitted \in [Procs -> Seq(Entries)]
  /\ idx \in [Procs -> Nat \ {0}]
  /\ hook \in [Procs -> Nat \ {0}]
  /\ tried \in [Procs -> Nat]
  /\ clock \in [Procs -> 0..MaxTime]
  /\ chosen \in [Procs -> SUBSET Items]
  /\ replays \in 0..MaxReplays
  /\ crashes \in 0..MaxCrashes
  /\ published \subseteq Events
  /\ accepted \subseteq Webhooks \X Items
  /\ reached \in [Webhooks \X Items -> Nat]

Entry == {registry[i] : i \in 1..Len(registry)}
Writing == \E p \in Procs : pc[p] = "write"

\* "Durable event files": an event whose publish_event has returned is in the file
\* whenever nobody is writing it.
NoEventLost ==
  ~Writing => \A e \in published : \E x \in Entry : Id(x) = <<e, KindOf[e]>>

\* An entry says delivered only if a webhook it has a receipt from acknowledged it, however
\* stale the copy was that said so.
DeliveredWasAccepted ==
  \A x \in Entry : x.status = "delivered" => \E w \in x.receipts : <<w, Id(x)>> \in accepted

\* One alert per event in trouble, over retries, dead letters, replays, crashes and
\* copies that overwrite each other: never none, never two.
AlertedOnce ==
  \A x \in Entry : x.kind # Alert =>
    /\ \/ x.status = "dead_letter"
       \/ x.status = "retry_pending" /\ x.attempts >= AlertThreshold
       => x.alerted
    /\ LET alerts == {i \in 1..Len(registry) : Id(registry[i]) = <<x.event, Alert>>}
       IN  IF x.alerted THEN \E i \in alerts : alerts = {i} ELSE alerts = {}

\* Retries are bounded: a replay grants attempts, nothing else does.
AttemptBudget == \A x \in Entry : x.attempts <= DeadThreshold + replays

\* A worker does not post what the webhook has acknowledged, unless the worker that
\* had posted it died before it saved the receipt.
NoRepost ==
  crashes = 0 => \A p \in Workers : pc[p] = "scan" =>
    \A i \in DueFor(p) : <<Hooks[hook[p]], Id(buf[p][i])>> \notin accepted

\* A receiver whose answers are lost gets the same item again, but not for ever: lost
\* answers count as attempts, and a death makes a worker forget no more than one of them.
DuplicatesBounded ==
  \A r \in Webhooks \X Items : reached[r] <= DeadThreshold + replays + crashes

\* Every event somebody subscribes to is delivered or declared dead in the end.
EventuallySettled ==
  \A e \in Events :
    e \in published /\ (\E w \in Webhooks : KindOf[e] \in Accepts[w])
    ~> \E x \in Entry : Id(x) = <<e, KindOf[e]>> /\ x.status \in {"delivered", "dead_letter"}

\* The list that is in the file, or is being written to it.
Contents ==
  IF Writing
  THEN LET p == CHOOSE q \in Procs : pc[q] = "write" IN buf[p] \o emitted[p]
  ELSE registry

\* The file as a set of promises kept (OutboxPromise).
Standing(item) ==
  LET at == {i \in 1..Len(Contents) : Id(Contents[i]) = item}
      is(status) == \E i \in at : Contents[i].status = status
  IN  CASE at = {}            -> "absent"
        [] is("delivered")    -> "delivered"
        [] is("dead_letter")  -> "dead"
        [] OTHER              -> "queued"

Promise == INSTANCE OutboxPromise WITH
  Origin <- [i \in Items |-> IF i[2] = Alert THEN <<i[1], KindOf[i[1]]>> ELSE i],
  standing <- [i \in Items |-> Standing(i)]

\* One writer at a time, the detailed outbox keeps the promises of the abstract one.
ImplementsPromise == Promise!Spec

\* No entry is tried beyond its budget, no webhook is sent again what it acknowledged, and
\* none gets an item more often than retries, replays and deaths allow
\* (_failed_delivery_event, deliver_pending_events).
RetriesAreBounded == AttemptBudget /\ NoRepost /\ DuplicatesBounded

\* What the file calls delivered was accepted, and what it calls alerted has its one
\* alert.
FileTellsTruth == DeliveredWasAccepted /\ AlertedOnce
=============================================================================
