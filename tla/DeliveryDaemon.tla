------------------------------ MODULE DeliveryDaemon ------------------------------
(***************************************************************************)
(* The commands that deliver the outbox: a daemon or a loop of rounds over *)
(* the registered webhooks, a single delivery, a callback to the CI, and   *)
(* beside them registrations and replays.  They share webhooks.json, the   *)
(* list of events, and worker_status.json, where a daemon is shown and     *)
(* what was done is counted.                                               *)
(*                                                                         *)
(* One step is one read or write of a file of the webhooks or the status;  *)
(* a delivery to one webhook is one step (how deliveries of two processes  *)
(* meet in the list of events is in IntegrationOutbox).  The limit of      *)
(* events per delivery is above what there is.  Receivers are external.    *)
(***************************************************************************)
EXTENDS Integers, Sequences, FiniteSets

CONSTANTS
  Processes, Events, Names,
  RetryDelay, DeadThreshold, AlertThreshold,
  Circumstances    \* records: the commands of each process (jobs), what is published (events),
                   \* what posts may come to (answers), is a file empty between truncation and
                   \* write (torn), may a process die (deaths), what is registered at first,
                   \* until when (horizon)

VARIABLES
  circumstance, now,
  left,       \* the commands of each process that were not given yet
  webhooks,   \* webhooks.json: registrations, the newest first; or empty in a write
  entries,    \* events.json: each event and the alert about it
  worker,     \* worker_status.json, or empty in a write
  calls,      \* where each process is
  history     \* what was done; did a call raise, or a process die; and what should not be

vars == <<circumstance, now, left, webhooks, entries, worker, calls, history>>

-----------------------------------------------------------------------------
(* Entries, the status, and calls.                                         *)

Items == Events \X {"event", "alert"}
Waiting == {"pending", "retry_pending"}
NewEntry(status) == [status |-> status, attempts |-> 0, retryAt |-> 0, alerted |-> FALSE]
IsPending(i) == entries[i].status \in Waiting
Pending == {i \in Items : IsPending(i)}

NoStatus == [enabled |-> FALSE, by |-> 0, runs |-> 0, delivered |-> 0, failed |-> 0, replays |-> 0]
Status == IF worker.torn THEN NoStatus ELSE worker.status
Registered == IF webhooks.torn THEN <<>> ELSE webhooks.list
NamesOf(list) == {list[k].name : k \in 1..Len(list)}
\* The registration a name stands for is the newest one.
Lookup(name) ==
  LET k == CHOOSE k \in 1..Len(Registered) :
             /\ Registered[k].name = name
             /\ \A j \in 1..k - 1 : Registered[j].name # name
  IN  Registered[k]

Idle ==
  [at |-> "idle", then |-> "idle", job |-> [do |-> "nothing"], names |-> {}, targets |-> <<>>,
   began |-> 0, since |-> 0, rounds |-> 0, status |-> NoStatus, list |-> <<>>,
   served |-> FALSE, attempted |-> 0, remaining |-> 0, delivered |-> 0, failed |-> 0,
   posted |-> {}, came |-> {}]

Init ==
  /\ circumstance \in Circumstances
  /\ now = 0 /\ left = circumstance.jobs
  /\ webhooks = [torn |-> FALSE, list |-> circumstance.registered]
  /\ entries = [i \in Items |-> NewEntry("none")]
  /\ worker = [torn |-> FALSE, status |-> NoStatus]
  /\ calls = [p \in Processes |-> Idle]
  /\ history = [runs |-> 0, delivered |-> 0, failed |-> 0, replays |-> 0, raised |-> FALSE, died |-> FALSE,
                missed |-> {}, again |-> {}, callbacks |-> {}, strays |-> {}]

At(p, place) == calls[p].at = place
Job(p) == calls[p].job
Go(p, place) == calls' = [calls EXCEPT ![p].at = place]
Files == <<webhooks, entries, worker>>
World == <<circumstance, now, left>>

\* A call ends with an error.
Raise(p) ==
  /\ calls' = [calls EXCEPT ![p] = Idle]
  /\ history' = [history EXCEPT !.raised = TRUE]
  /\ UNCHANGED Files

Tick == now < circumstance.horizon /\ now' = now + 1 /\ UNCHANGED <<circumstance, left, Files, calls, history>>

\* Every call under way sees what becomes pending meanwhile.
Come(others, new) == [p \in Processes |-> IF p \in others THEN [calls[p] EXCEPT !.came = @ \cup new] ELSE calls[p]]
Publish(e) ==
  /\ e \in circumstance.events /\ entries[<<e, "event">>].status = "none"
  /\ entries' = [entries EXCEPT ![<<e, "event">>] = NewEntry("pending")]
  /\ calls' = Come(Processes, {<<e, "event">>})
  /\ UNCHANGED <<World, webhooks, worker, history>>

-----------------------------------------------------------------------------
(* What a command begins with.                                             *)

IsLoop(job) == job.do \in {"daemon", "rounds"}
FirstStep(job) ==
  CASE job.do = "daemon" -> "beat" [] job.do = "rounds" -> "round" [] job.do = "single" -> "deliver" [] OTHER -> job.do
Begin(p) ==
  /\ At(p, "idle")
  /\ \E job \in left[p] :
       /\ left' = [left EXCEPT ![p] = @ \ {job}]
       /\ calls' = [calls EXCEPT ![p] =
            [Idle EXCEPT !.job = job, !.began = now, !.since = now, !.names = job.names,
                         !.targets = IF job.do = "single" THEN <<job.name>> ELSE <<>>,
                         !.at = IF IsLoop(job) /\ job.select # "as told" THEN "select" ELSE FirstStep(job)]]
  /\ UNCHANGED <<circumstance, now, Files, history>>

\* Of the names asked for those that are registered, of none asked for all; the workers
\* of a channel take, of none asked for, the names of the channel.  No name then stands
\* for all.
Select(p) ==
  /\ At(p, "select")
  /\ LET job   == Job(p)
         ofBot == {Registered[k].name : k \in {j \in 1..Len(Registered) : Registered[j].channel = "feishu_bot"}}
         names == CASE job.select = "feishu" -> IF job.names = {} THEN ofBot ELSE job.names
                    [] job.select = "registered" ->
                         IF job.names = {} THEN NamesOf(Registered) ELSE NamesOf(Registered) \cap job.names
     IN  IF job.select = "registered" /\ job.names # {} /\ names = {} THEN Raise(p)
         ELSE /\ calls' = [calls EXCEPT ![p].names = names, ![p].at = FirstStep(job)]
              /\ UNCHANGED <<Files, history>>
  /\ UNCHANGED World

-----------------------------------------------------------------------------
(* worker_status.json: read, changed, and written whole.                   *)

Keeps(p, status, then) == calls' = [calls EXCEPT ![p].at = "save", ![p].status = status, ![p].then = then]
Shown(p) == [Status EXCEPT !.enabled = TRUE, !.by = p]
Heartbeat(p) ==
  /\ \/ At(p, "beat") /\ Keeps(p, Shown(p), "round")
     \/ At(p, "again") /\ Keeps(p, Shown(p), "judge")
     \/ At(p, "end") /\ Keeps(p, [Status EXCEPT !.enabled = FALSE, !.by = 0], "idle")
  /\ UNCHANGED <<World, Files, history>>
CountReplays(p) ==
  /\ At(p, "count") /\ Keeps(p, [Status EXCEPT !.replays = @ + calls[p].attempted], "idle")
  /\ UNCHANGED <<World, Files, history>>

\* write_text empties a file before it writes it.
TruncateStatus(p) ==
  /\ circumstance.torn /\ At(p, "save")
  /\ worker' = [worker EXCEPT !.torn = TRUE] /\ Go(p, "saving")
  /\ UNCHANGED <<World, webhooks, entries, history>>
SaveStatus(p) ==
  /\ At(p, IF circumstance.torn THEN "saving" ELSE "save")
  /\ worker' = [torn |-> FALSE, status |-> calls[p].status]
  /\ calls' = IF calls[p].then \in {"idle", "raise"} THEN [calls EXCEPT ![p] = Idle]
              ELSE [calls EXCEPT ![p].at = calls[p].then,
                                 ![p].status = IF calls[p].then = "list" THEN @ ELSE NoStatus]
  /\ history' = [history EXCEPT !.raised = @ \/ calls[p].then = "raise"]
  /\ UNCHANGED <<World, webhooks, entries>>

-----------------------------------------------------------------------------
(* A round: run_delivery_worker.                                           *)

StartRound(p) ==
  /\ At(p, "round")
  /\ calls' = [calls EXCEPT ![p].at = "save", ![p].then = "list", ![p].status = Status, ![p].since = now,
                            ![p].attempted = 0, ![p].remaining = 0, ![p].delivered = 0, ![p].failed = 0,
                            ![p].posted = {}, ![p].came = {}]
  /\ history' = [history EXCEPT !.runs = @ + 1]
  /\ UNCHANGED <<World, Files>>

\* The webhooks of the round: a name that was registered twice is served twice.
ListTargets(p) ==
  /\ At(p, "list")
  /\ LET chosen(r) == calls[p].names = {} \/ r.name \in calls[p].names
         served == SelectSeq(Registered, chosen)
     IN  calls' = [calls EXCEPT ![p].at = "deliver", ![p].served = served # <<>>,
                                ![p].targets = [k \in 1..Len(served) |-> served[k].name]]
  /\ UNCHANGED <<World, Files, history>>

\* No types stand for all.
Takes(types, i) == types = {} \/ (IF i[2] = "alert" THEN "alert" ELSE i[1]) \in types
IsDue(p, hook, i) ==
  /\ IsPending(i) /\ entries[i].retryAt <= calls[p].since
  /\ Takes(hook.accepts, i) /\ Takes(Job(p).types, i)

\* What becomes of a posted entry.
Answered(x, answer, t) ==
  LET n == x.attempts + 1
  IN  CASE answer = "ok" -> [x EXCEPT !.status = "delivered", !.attempts = n, !.retryAt = 0]
        [] answer = "retry" /\ n < DeadThreshold ->
             [x EXCEPT !.status = "retry_pending", !.attempts = n, !.retryAt = t + RetryDelay * 2 ^ (n - 1)]
        [] OTHER -> [x EXCEPT !.status = "dead_letter", !.attempts = n, !.retryAt = 0]
NeedsAlert(i, x) ==
  /\ i[2] # "alert" /\ ~x.alerted
  /\ \/ x.status = "dead_letter"
     \/ x.status = "retry_pending" /\ x.attempts >= AlertThreshold

\* deliver_pending_events: the due events are posted, alerts are appended, and what is
\* still pending in the whole list is counted.
DeliverTo(p, hook) ==
  LET due == {i \in Items : IsDue(p, hook, i)}
      job == Job(p)
  IN  \E answer \in [due -> circumstance.answers] :
        LET posted == [i \in due |-> Answered(entries[i], answer[i], calls[p].since)]
            alerts == {i \in due : NeedsAlert(i, posted[i])}
            raised == {<<i[1], "alert">> : i \in alerts}
            after  == [i \in Items |->
                         IF i \in due THEN [posted[i] EXCEPT !.alerted = @ \/ i \in alerts]
                         ELSE IF i \in raised THEN NewEntry("pending") ELSE entries[i]]
            good   == Cardinality({i \in due : answer[i] = "ok"})
            still  == Cardinality({i \in Items : after[i].status \in Waiting})
        IN  /\ entries' = after
            /\ calls' = [Come(Processes \ {p}, raised) EXCEPT
                 ![p].attempted = @ + Cardinality(due), ![p].remaining = @ + still,
                 ![p].delivered = @ + good, ![p].failed = @ + Cardinality(due) - good,
                 ![p].posted = @ \cup due, ![p].targets = Tail(@)]
            /\ history' = [history EXCEPT
                 !.delivered = IF IsLoop(job) THEN @ + good ELSE @,
                 !.failed = IF IsLoop(job) THEN @ + Cardinality(due) - good ELSE @,
                 !.again = @ \cup ((due \cap calls[p].posted) \ calls[p].came),
                 !.callbacks = IF job.do = "ci" /\ due # {} THEN @ \cup {<<job.url, hook.url>>} ELSE @,
                 !.strays = IF job.do = "daemon" /\ job.select = "feishu" /\ job.names = {} /\ due # {}
                            THEN @ \cup {[names |-> calls[p].names, channel |-> hook.channel, name |-> hook.name]}
                            ELSE @]

\* A webhook that is not there any more ends the round, and what it delivered before is
\* not counted.
Deliver(p) ==
  /\ At(p, "deliver") /\ calls[p].targets # <<>>
  /\ LET name == Head(calls[p].targets)
     IN  IF name \in NamesOf(Registered)
         THEN DeliverTo(p, Lookup(name)) /\ UNCHANGED <<webhooks, worker>>
         ELSE IF IsLoop(Job(p))
         THEN Keeps(p, [calls[p].status EXCEPT !.runs = @ + 1], "raise") /\ UNCHANGED <<Files, history>>
         ELSE Raise(p)
  /\ UNCHANGED World

\* What a round counts is added to what was read at its start.
Totals(p) ==
  [calls[p].status EXCEPT !.runs = @ + 1, !.delivered = @ + calls[p].delivered, !.failed = @ + calls[p].failed]
Finish(p) ==
  /\ At(p, "deliver") /\ calls[p].targets = <<>>
  /\ IF IsLoop(Job(p)) THEN Keeps(p, Totals(p), IF Job(p).do = "daemon" THEN "again" ELSE "judge")
     ELSE calls' = [calls EXCEPT ![p] = Idle]
  /\ UNCHANGED <<World, Files, history>>

-----------------------------------------------------------------------------
(* Between rounds.                                                         *)

IsIdle(p) == calls[p].attempted = 0 /\ calls[p].remaining = 0
\* Where the names are selected, no number of rounds means one; elsewhere any.  A daemon
\* without interval stops after one round, a loop goes on.
Enough(p) ==
  LET job == Job(p)
  IN  \/ job.rounds > 0 /\ calls[p].rounds + 1 >= job.rounds
      \/ job.rounds = 0 /\ job.select = "registered"
      \/ job.do = "daemon" /\ job.runtime > 0 /\ now - calls[p].began >= job.runtime
      \/ job.do = "daemon" /\ job.interval = 0
Judge(p) ==
  /\ At(p, "judge")
  /\ LET stops == Job(p).when_idle /\ IsIdle(p)
     IN  /\ calls' = IF stops \/ Enough(p)
                     THEN [calls EXCEPT ![p] = IF Job(p).do = "daemon" THEN [@ EXCEPT !.at = "end"] ELSE Idle]
                     ELSE [calls EXCEPT ![p] = [Idle EXCEPT !.at = "asleep", !.job = Job(p), !.names = calls[p].names,
                             !.began = calls[p].began, !.rounds = calls[p].rounds + 1, !.since = now]]
         /\ history' = [history EXCEPT !.missed =
                          IF stops /\ calls[p].served THEN @ \cup (Pending \ calls[p].came) ELSE @]
  /\ UNCHANGED <<World, Files>>
Wake(p) ==
  /\ At(p, "asleep") /\ now >= calls[p].since + Job(p).interval
  /\ Go(p, "round") /\ UNCHANGED <<World, Files, history>>

-----------------------------------------------------------------------------
(* Registrations, the callback to the CI, and replays.                     *)

Registration(job) == [name |-> job.name, url |-> job.url, channel |-> job.channel, accepts |-> job.types]
\* Only a local endpoint may go without a secret.
Register(p) ==
  /\ At(p, "register")
  /\ IF Job(p).url = "remote" /\ ~Job(p).secret THEN Raise(p)
     ELSE /\ calls' = [calls EXCEPT ![p].at = "append", ![p].list = <<Registration(Job(p))>> \o Registered]
          /\ UNCHANGED <<Files, history>>
  /\ UNCHANGED World
TruncateWebhooks(p) ==
  /\ circumstance.torn /\ At(p, "append")
  /\ webhooks' = [webhooks EXCEPT !.torn = TRUE] /\ Go(p, "appending")
  /\ UNCHANGED <<World, entries, worker, history>>

ToDeliver(p) == [calls EXCEPT ![p].at = "deliver", ![p].targets = <<Job(p).name>>, ![p].since = now]
SaveWebhooks(p) ==
  /\ At(p, IF circumstance.torn THEN "appending" ELSE "append")
  /\ webhooks' = [torn |-> FALSE, list |-> calls[p].list]
  /\ calls' = IF Job(p).do = "ci" THEN ToDeliver(p) ELSE [calls EXCEPT ![p] = Idle]
  /\ UNCHANGED <<World, entries, worker, history>>

\* _ensure_ci_webhook: a name is registered for the endpoint, if it is not there; with
\* another endpoint it is refused.
\* Mutant: a name that is registered is taken as it is.
EnsureAny(p) ==
  /\ At(p, "ci")
  /\ calls' = IF Job(p).name \notin NamesOf(Registered) THEN [calls EXCEPT ![p].at = "register"] ELSE ToDeliver(p)
  /\ UNCHANGED <<World, Files, history>>
Ensure(p) ==
  /\ At(p, "ci")
  /\ IF Job(p).name \notin NamesOf(Registered)
     THEN Go(p, "register") /\ UNCHANGED <<Files, history>>
     ELSE IF Lookup(Job(p).name).url # Job(p).url THEN Raise(p)
     ELSE calls' = ToDeliver(p) /\ UNCHANGED <<Files, history>>
  /\ UNCHANGED World

Replay(p) ==
  /\ At(p, "replay")
  /\ LET dead == {i \in Items : entries[i].status = "dead_letter"}
     IN  /\ entries' = [i \in Items |-> IF i \in dead THEN [entries[i] EXCEPT !.status = "pending", !.retryAt = now]
                                        ELSE entries[i]]
         /\ calls' = [Come(Processes, dead) EXCEPT ![p] =
                        IF dead = {} THEN Idle ELSE [@ EXCEPT !.at = "count", !.attempted = Cardinality(dead)]]
         /\ history' = [history EXCEPT !.replays = @ + Cardinality(dead)]
  /\ UNCHANGED <<World, webhooks, worker>>

Die(p) ==
  /\ circumstance.deaths /\ ~history.died /\ ~At(p, "idle")
  /\ calls' = [calls EXCEPT ![p] = Idle] /\ history' = [history EXCEPT !.died = TRUE]
  /\ UNCHANGED <<World, Files>>

Next ==
  \/ Tick \/ \E e \in Events : Publish(e)
  \/ \E p \in Processes :
       \/ Begin(p) \/ Select(p) \/ Heartbeat(p) \/ CountReplays(p) \/ TruncateStatus(p) \/ SaveStatus(p)
       \/ StartRound(p) \/ ListTargets(p) \/ Deliver(p) \/ Finish(p) \/ Judge(p) \/ Wake(p)
       \/ Register(p) \/ TruncateWebhooks(p) \/ SaveWebhooks(p) \/ Ensure(p) \/ Replay(p) \/ Die(p)

Spec == Init /\ [][Next]_vars

-----------------------------------------------------------------------------
\* Types.
StatusType == [enabled : BOOLEAN, by : Processes \cup {0}, runs : Nat, delivered : Nat, failed : Nat, replays : Nat]
TypeOK ==
  /\ circumstance \in Circumstances /\ now \in Nat
  /\ NamesOf(webhooks.list) \subseteq Names
  /\ entries \in [Items -> [status : {"none", "delivered", "dead_letter"} \cup Waiting, attempts : Nat,
                            retryAt : Nat, alerted : BOOLEAN]]
  /\ worker \in [torn : BOOLEAN, status : StatusType]
  /\ \A p \in Processes : calls[p].status \in StatusType /\ calls[p].came \subseteq Items

\* Who does what in a circumstance.
DoesAny(p, what) == \E job \in circumstance.jobs[p] : job.do \in what
AtMostOne(what) == Cardinality({p \in Processes : DoesAny(p, what)}) <= 1
OneCounts == AtMostOne({"daemon", "rounds", "replay"}) /\ ~history.died /\ ~history.raised

\* The status never tells of more than was done; and of all of it, if one process
\* writes it and none died or raised.
CountsTold ==
  /\ worker.status.runs <= history.runs /\ worker.status.delivered <= history.delivered
  /\ worker.status.failed <= history.failed /\ worker.status.replays <= history.replays
  /\ OneCounts /\ (\A p \in Processes : At(p, "idle")) =>
       /\ worker.status.runs = history.runs /\ worker.status.delivered = history.delivered
       /\ worker.status.failed = history.failed /\ worker.status.replays = history.replays

\* A daemon is shown from its first heartbeat to its last, its rounds included.
DaemonShown ==
  OneCounts /\ ~worker.torn =>
    \A p \in Processes : Job(p).do = "daemon" /\ calls[p].at \notin {"select", "beat"} =>
      \/ worker.status.enabled /\ worker.status.by = p
      \/ At(p, "save") /\ calls[p].then = "round"

\* Who stops because there is nothing to do leaves nothing that was pending when its
\* last round began, unless no webhook was there to take it.
IdleMeansDone == history.missed = {}

\* An entry that failed is not posted again in the same round, although a webhook may be
\* registered twice, or several take it.
OncePerRound == history.again = {}

\* A callback goes to the endpoint it was given, if nobody else registers meanwhile.
CallbacksStay == AtMostOne({"register", "ci"}) => \A c \in history.callbacks : c[1] = c[2]

\* A worker for Feishu posts to bots only, if it found one, and no name is both.
ChannelKept ==
  \A s \in history.strays :
    \/ s.names = {} \/ s.channel = "feishu_bot"
    \/ \E j, k \in 1..Len(webhooks.list) : j # k /\ webhooks.list[j].name = webhooks.list[k].name /\ webhooks.list[j].name = s.name

\* The status tells what was done and who runs, an idle daemon has done its work, and
\* messages go where they should, once (run_delivery_worker, run_delivery_daemon,
\* _ensure_ci_webhook, run_feishu_notify_worker).
DaemonSafe == CountsTold /\ DaemonShown /\ IdleMeansDone /\ OncePerRound /\ CallbacksStay /\ ChannelKept
=============================================================================
