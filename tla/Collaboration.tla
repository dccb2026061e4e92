------------------------------ MODULE Collaboration ------------------------------
(***************************************************************************)
(* CollaborationService: sessions that are issued, renewed and revoked, in *)
(* sessions.json, and the workflow of the issues with their links to       *)
(* defects of other systems, in issues.json.                               *)
(*                                                                         *)
(* A command is a process of its own; nothing is locked; a file is read    *)
(* again before it is written whole and in place, and reads as empty when  *)
(* a process died in the middle of that.  Who signs in through SSO is      *)
(* taken to be known to every process, with one role.                      *)
(***************************************************************************)
EXTENDS Integers, FiniteSets, Sequences

CONSTANTS
  Processes,      \* commands running at the same time
  Issues, Defects,
  Role,           \* of each person
  External,       \* who signs in through SSO
  TTL, Margin,    \* of sessions: how long they last, and how much before the end they are renewed
  Circumstances   \* who runs, may one die, what may be asked for, how far time goes, how many
                  \* sessions are issued, and how many events an issue gets

People == DOMAIN Role
\* _permission_policies, as far as issues go.
Allowed == [assign |-> {"admin", "tester"},
            comment |-> {"admin", "tester", "developer", "observer"},
            transition |-> {"admin", "tester", "developer"},
            defect_create |-> {"admin", "tester", "developer"},
            defect_link |-> {"admin", "tester", "developer"},
            defect_sync |-> {"admin", "tester", "developer"}]
Actions == DOMAIN Allowed
States == {"new", "assigned", "processing", "confirmed", "resolved", "ignored"}
Missing == [missing |-> TRUE]
Nobody == "nobody"

VARIABLES
  circumstance,  \* the same throughout
  now,           \* the time
  issued,        \* how many tokens were made
  sessions,      \* sessions.json
  issues,        \* issues.json
  command        \* what each process is doing, with what it has read

vars == <<circumstance, now, issued, sessions, issues, command>>

-----------------------------------------------------------------------------
\* A token is made for a session, or tells of its person: the static one of old, the one of SSO.
Token(kind, a, n) == [kind |-> kind, who |-> a, n |-> n]
Static == {Token("static", a, 0) : a \in People \ External}
Signed == {Token("sso", a, 0) : a \in External}
Made(n) == Token("issued", Nobody, n)
Tokens == {Made(n) : n \in 1..circumstance.tokens} \cup Static \cup Signed
NoToken == Token("none", Nobody, 0)
Session == [actor : People, issued : Nat, expires : Nat, revoked : BOOLEAN]
NewSession(a) == [actor |-> a, issued |-> now, expires |-> now + TTL, revoked |-> FALSE]

\* link is its id; defect is 0 while the other system is to make one; ok: acceptable_for_close.
Link == [link : Nat, defect : Defects \cup {0}, ok : BOOLEAN]
Event == [action : Actions, state : States, who : People \cup {Nobody}, link : Nat,
          defect : Defects \cup {0}, ok : BOOLEAN]
Issue == [state : States, assignee : People \cup {Nobody}, links : Seq(Link), events : Seq(Event)]
NewIssue == [state |-> "new", assignee |-> Nobody, links |-> <<>>, events |-> <<>>]
Say(action, state, who, link, defect, ok) ==
  [action |-> action, state |-> state, who |-> who, link |-> link, defect |-> defect, ok |-> ok]
Plain == Say("comment", "new", Nobody, 0, 0, FALSE)

\* What is asked: an event to be, or renew, revoke or sign in; for a person, with a token.
Verb == [what : Actions \cup {"renew", "revoke", "sign"}, by : People, token : Tokens \cup {NoToken},
         issue : Issues, event : Event]
Idle == [at |-> "idle"]
\* session: as resolved; entry is the new value of key in the file sessions or issues; copy: the
\* file as read.
Command ==
  {Idle} \cup [at : {"resolve", "act"}, verb : Verb, session : Session \cup {Missing}]
  \cup [at : {"load"}, verb : Verb, then : {"done", "act"}, file : {"sessions"}, key : Tokens,
        entry : Session]
  \cup [at : {"load"}, verb : Verb, then : {"done"}, file : {"issues"}, key : Issues, entry : Issue]
  \cup [at : {"write"}, verb : Verb, then : {"done", "act"}, file : {"sessions"}, key : Tokens,
        entry : Session, copy : [Tokens -> Session \cup {Missing}]]
  \cup [at : {"write"}, verb : Verb, then : {"done"}, file : {"issues"}, key : Issues,
        entry : Issue, copy : [Issues -> Issue]]

\* What the constants are.
ConstantsOK ==
  /\ External \subseteq People /\ 0 \notin Defects /\ Nobody \notin People
  /\ Role \in [People -> {"admin", "tester", "developer", "observer"}]
  /\ TTL \in Nat /\ Margin \in Nat /\ Margin < TTL
  /\ \A c \in Circumstances :
       /\ c.processes \subseteq Processes /\ c.deaths \in BOOLEAN
       /\ c.asked \subseteq Actions \cup {"renew", "revoke", "sign"}
       /\ {c.time, c.tokens, c.events} \subseteq Nat

Free(p) == p \in circumstance.processes /\ command[p] = Idle
Quiet == \A p \in Processes : command[p] = Idle
Serial == \A p, q \in circumstance.processes : p = q
Become(p, c) == command' = [command EXCEPT ![p] = c]
Ask(p, at, what, a, t, i, e) ==
  Become(p, [at |-> at, verb |-> [what |-> what, by |-> a, token |-> t, issue |-> i, event |-> e],
             session |-> Missing])
Save(p, then, file, key, entry) ==
  Become(p, [at |-> "load", verb |-> command[p].verb, then |-> then, file |-> file, key |-> key,
             entry |-> entry])
\* Reading a registry changes nothing.
Reading == UNCHANGED <<circumstance, now, issued, sessions, issues>>

Init ==
  /\ circumstance \in Circumstances
  /\ now = 0 /\ issued = 0
  /\ sessions = [t \in Tokens |-> Missing]
  /\ issues = [i \in Issues |-> NewIssue]
  /\ command = [p \in Processes |-> Idle]

Tick ==
  /\ now < circumstance.time /\ now' = now + 1
  /\ UNCHANGED <<circumstance, issued, sessions, issues, command>>

AnIssue == CHOOSE i \in Issues : TRUE

-----------------------------------------------------------------------------
(* Sessions.                                                               *)

Live(t) == sessions[t] # Missing /\ ~sessions[t].revoked /\ sessions[t].expires > now

\* _active_session_for_actor: the live one issued last, if any.
Newest(a) ==
  {t \in Tokens : Live(t) /\ sessions[t].actor = a
     /\ \A u \in Tokens : (Live(u) /\ sessions[u].actor = a) => sessions[u].issued <= sessions[t].issued}

\* _session_expiring.
Expiring(t) == sessions[t].expires <= now + Margin

\* issue_session: a live session is given out again, unless it is about to end.
Renew(p) ==
  /\ Free(p) /\ "renew" \in circumstance.asked /\ issued < circumstance.tokens
  /\ \E a \in People \ External :
       /\ \/ Newest(a) = {}
          \/ \E t \in Newest(a) : Expiring(t)
       /\ Become(p, [at |-> "load",
                     verb |-> [what |-> "renew", by |-> a, token |-> NoToken, issue |-> AnIssue,
                               event |-> Plain],
                     then |-> "done", file |-> "sessions", key |-> Made(issued + 1),
                     entry |-> NewSession(a)])
  /\ issued' = issued + 1
  /\ UNCHANGED <<circumstance, now, sessions, issues>>

\* resolve_sso_actor: the same token for the same subject and its session, good again.
SignIn(p) ==
  /\ Free(p) /\ "sign" \in circumstance.asked
  /\ \E a \in External :
       Become(p, [at |-> "load",
                  verb |-> [what |-> "sign", by |-> a, token |-> NoToken, issue |-> AnIssue,
                            event |-> Plain],
                  then |-> "done", file |-> "sessions", key |-> Token("sso", a, 0),
                  entry |-> NewSession(a)])
  /\ Reading

Revoke(p) ==
  /\ Free(p) /\ "revoke" \in circumstance.asked
  /\ \E a \in People, t \in Tokens : Ask(p, "resolve", "revoke", a, t, AnIssue, Plain)
  /\ Reading

\* Mutant: a static token whose session was revoked gets a new one.
ResolveAgain(p) ==
  LET c == command[p]
      t == c.verb.token
  IN  /\ c.at = "resolve"
      /\ \/ Live(t) /\ Become(p, [at |-> "act", verb |-> c.verb, session |-> sessions[t]])
         \/ ~Live(t) /\ t \in Static /\ Save(p, "act", "sessions", t, NewSession(t.who))
         \/ ~Live(t) /\ t \notin Static /\ Become(p, Idle)
      /\ Reading

\* resolve_session: the session of the token, that of the person if it is to authorize; a
\* static token that is not in the registry gets a session of its own first.  The identity a
\* session holds is that of its actor: who has another, of SSO, has no other sessions.
Resolve(p) ==
  LET c == command[p]
      t == c.verb.token
  IN  /\ c.at = "resolve"
      /\ \/ /\ Live(t)
            /\ sessions[t].actor = c.verb.by \/ c.verb.what = "revoke"
            /\ Become(p, [at |-> "act", verb |-> c.verb, session |-> sessions[t]])
         \/ sessions[t] = Missing /\ t \in Static /\ Save(p, "act", "sessions", t, NewSession(t.who))
         \/ /\ ~Live(t) /\ ~(sessions[t] = Missing /\ t \in Static)
            /\ Become(p, Idle)
         \/ /\ Live(t) /\ sessions[t].actor # c.verb.by /\ c.verb.what # "revoke"
            /\ Become(p, Idle)
      /\ Reading

\* revoke_session saves the session it resolved, revoked.
MarkRevoked(p) ==
  LET c == command[p] IN
  /\ c.at = "act" /\ c.verb.what = "revoke"
  /\ Save(p, "done", "sessions", c.verb.token, [c.session EXCEPT !.revoked = TRUE])
  /\ Reading

-----------------------------------------------------------------------------
(* Issues.                                                                 *)

\* What may be asked of an issue.
Requests ==
  {Say("assign", "assigned", a, 0, 0, FALSE) : a \in People}
  \cup {Plain, Say("defect_create", "new", Nobody, 0, 0, FALSE)}
  \cup {Say("transition", s, Nobody, 0, 0, FALSE) : s \in States}
  \cup {Say("defect_link", "new", Nobody, 0, v[1], v[2]) : v \in Defects \X BOOLEAN}
  \cup {Say("defect_sync", "new", Nobody, v[1], v[2], v[3]) :
          v \in (0..circumstance.events) \X (Defects \cup {0}) \X BOOLEAN}

\* _authorize_actor: by the role, and by the session if one is named (if none is, all who may
\* do it are alike).
Work(p) ==
  /\ Free(p)
  /\ \E i \in Issues, e \in Requests :
       LET able == {a \in People : Role[a] \in Allowed[e.action]}
       IN  /\ e.action \in circumstance.asked
           /\ Len(issues[i].events) < circumstance.events
           /\ \/ able # {} /\ Ask(p, "act", e.action, CHOOSE a \in able : TRUE, NoToken, i, e)
              \/ /\ "renew" \in circumstance.asked
                 /\ \E a \in able, t \in Tokens : Ask(p, "resolve", e.action, a, t, i, e)
  /\ Reading

\* _find_issue_defect_index; an id or a defect that is not given is 0.
FirstOf(links, l, d) ==
  LET found == {k \in DOMAIN links :
                  (l # 0 /\ links[k].link = l) \/ (d # 0 /\ links[k].defect = d)}
  IN  IF found = {} THEN 0 ELSE CHOOSE k \in found : \A j \in found : k <= j

\* link_issue_defect: the link there is of that defect, or a new one.
Linked(links, d, ok) ==
  LET k == FirstOf(links, 0, d)
  IN  IF k = 0 THEN Append(links, [link |-> Len(links) + 1, defect |-> d, ok |-> ok])
      ELSE [links EXCEPT ![k].ok = ok]

Closable(links) == links = <<>> \/ \E k \in DOMAIN links : links[k].ok

\* Mutant: only a link that was synchronised can keep an issue open.
CanTakeLate(r, e) ==
  /\ e.state = "resolved" => Closable(SelectSeq(r.links, LAMBDA l : l.defect # 0))
  /\ e.action = "defect_sync" => FirstOf(r.links, e.link, e.defect) # 0

\* An issue with links is resolved only if one is acceptable; only a link there is is synchronised.
CanTake(r, e) ==
  /\ e.state = "resolved" => Closable(r.links)
  /\ e.action = "defect_sync" => FirstOf(r.links, e.link, e.defect) # 0

\* The links of an issue, and its event, as the action leaves them.
Links(r, e) ==
  CASE e.action = "defect_create" ->
         Append(r.links, [link |-> Len(r.links) + 1, defect |-> 0, ok |-> FALSE])
    [] e.action = "defect_link" -> Linked(r.links, e.defect, e.ok)
    [] e.action = "defect_sync" -> [r.links EXCEPT ![FirstOf(r.links, e.link, e.defect)].ok = e.ok]
    [] OTHER -> r.links
Told(r, e) ==
  CASE e.action = "defect_create" -> [e EXCEPT !.link = Len(r.links) + 1]
    [] e.action \in {"defect_link", "defect_sync"} ->
         LET k == IF e.action = "defect_link"
                    THEN FirstOf(Links(r, e), 0, e.defect) ELSE FirstOf(r.links, e.link, e.defect)
         IN  [e EXCEPT !.link = Links(r, e)[k].link, !.defect = Links(r, e)[k].defect]
    [] OTHER -> e

\* _issue_record_with_event.
WithEvent(r, e) ==
  [state |-> IF e.action \in {"assign", "transition"} THEN e.state ELSE r.state,
   assignee |-> IF e.action = "assign" THEN e.who ELSE r.assignee,
   links |-> Links(r, e), events |-> Append(r.events, Told(r, e))]

\* The issue is read, judged and, with the event, to be saved; or the command is refused.
Act(p) ==
  LET c == command[p]
      r == issues[c.verb.issue]
  IN  /\ c.at = "act" /\ c.verb.what \in Actions
      /\ IF CanTake(r, c.verb.event)
           THEN Save(p, "done", "issues", c.verb.issue, WithEvent(r, c.verb.event))
           ELSE Become(p, Idle)
      /\ Reading

-----------------------------------------------------------------------------
(* _save_session and _save_issue_record.                                   *)

Load(p) ==
  LET c == command[p] IN
  /\ c.at = "load"
  /\ Become(p, [at |-> "write", verb |-> c.verb, then |-> c.then, file |-> c.file, key |-> c.key,
                entry |-> c.entry, copy |-> IF c.file = "sessions" THEN sessions ELSE issues])
  /\ Reading

Write(p) ==
  LET c == command[p]
      after == [c.copy EXCEPT ![c.key] = c.entry]
  IN  /\ c.at = "write"
      /\ IF c.file = "sessions" THEN sessions' = after /\ UNCHANGED issues
         ELSE issues' = after /\ UNCHANGED sessions
      /\ Become(p, IF c.then = "done" THEN Idle
                   ELSE [at |-> "act", verb |-> c.verb, session |-> c.entry])
      /\ UNCHANGED <<circumstance, now, issued>>

\* The process dies before a write, or in the middle of it.
Crash(p) ==
  LET c == command[p] IN
  /\ circumstance.deaths /\ c # Idle
  /\ \/ UNCHANGED <<sessions, issues>>
     \/ /\ c.at = "write"
        /\ IF c.file = "sessions"
             THEN sessions' = [t \in Tokens |-> Missing] /\ UNCHANGED issues
             ELSE issues' = [i \in Issues |-> NewIssue] /\ UNCHANGED sessions
  /\ Become(p, Idle)
  /\ UNCHANGED <<circumstance, now, issued>>

Next ==
  \/ Tick
  \/ \E p \in Processes :
       \/ Renew(p) \/ SignIn(p) \/ Revoke(p) \/ Resolve(p) \/ MarkRevoked(p)
       \/ Work(p) \/ Act(p) \/ Load(p) \/ Write(p) \/ Crash(p)

Spec == Init /\ [][Next]_vars

-----------------------------------------------------------------------------
(* Properties.                                                             *)

Orderly == Serial /\ ~circumstance.deaths

\* The files hold what they are to hold.
TypeOK ==
  /\ ConstantsOK
  /\ circumstance \in Circumstances
  /\ now \in 0..circumstance.time /\ issued \in 0..circumstance.tokens
  /\ sessions \in [Tokens -> Session \cup {Missing}]
  /\ issues \in [Issues -> Issue]
  /\ command \in [Processes -> Command]

\* The state and the links an issue has after some of its events, as those tell.
Follow(r, e) ==
  [state |-> IF e.action \in {"assign", "transition"} THEN e.state ELSE r.state,
   links |->
     CASE e.action = "defect_create" -> r.links \cup {[link |-> e.link, defect |-> 0, ok |-> FALSE]}
       [] e.action \in {"defect_link", "defect_sync"} ->
            {l \in r.links : l.link # e.link} \cup {[link |-> e.link, defect |-> e.defect, ok |-> e.ok]}
       [] OTHER -> r.links]
After(events) ==
  LET Reached[n \in 0 .. Len(events)] ==
        IF n = 0 THEN [state |-> "new", links |-> {}] ELSE Follow(Reached[n - 1], events[n])
  IN  Reached[Len(events)]

\* However commands overlap, and wherever one dies: the events of an issue, followed one
\* after the other, lead to its state and to the links it has.
EventsTellIssue ==
  \A i \in Issues :
    /\ After(issues[i].events).state = issues[i].state
    /\ After(issues[i].events).links = {issues[i].links[k] : k \in DOMAIN issues[i].links}

\* However commands overlap, and wherever one dies: an issue was resolved only when no
\* defect was linked to it, or one that was acceptable.
ResolvedWhenAcceptable ==
  \A i \in Issues : \A k \in DOMAIN issues[i].events :
    (issues[i].events[k].action = "transition" /\ issues[i].events[k].state = "resolved") =>
      LET links == After(SubSeq(issues[i].events, 1, k - 1)).links
      IN  links = {} \/ \E l \in links : l.ok

\* However commands overlap, and wherever one dies: a defect of another system has one link.
OneLinkPerDefect ==
  \A i \in Issues : \A j, k \in DOMAIN issues[i].links :
    (issues[i].links[j].defect = issues[i].links[k].defect /\ issues[i].links[j].defect # 0) => j = k

\* One command at a time, and none dies: a revoked session stays revoked, whatever token
\* or person comes back, but for the sessions of SSO, which a sign-in makes good again.
RevocationLasts ==
  [][\A t \in Tokens \ Signed :
       (Orderly /\ sessions[t] # Missing /\ sessions[t].revoked) =>
         (sessions'[t] # Missing /\ sessions'[t].revoked)]_vars

\* One command at a time, and none dies: between commands a person has no two issued
\* sessions that are live and not about to end.
OneFreshSession ==
  (Orderly /\ Quiet) =>
    \A t, u \in {Made(n) : n \in 1..issued} :
      (/\ Live(t) /\ Live(u) /\ ~(sessions[t].expires <= now + Margin)
       /\ ~(sessions[u].expires <= now + Margin) /\ sessions[t].actor = sessions[u].actor)
        => t = u

\* The events of an issue tell its state and links, it was resolved only on acceptable
\* defects, and a defect has one link (IssueWorkflowMixin, DefectLinksMixin); a person has
\* one fresh session, and a revoked one stays revoked (IdentitySessionsMixin).
CollaborationSafe ==
  /\ [](EventsTellIssue /\ ResolvedWhenAcceptable /\ OneLinkPerDefect /\ OneFreshSession)
  /\ RevocationLasts
=============================================================================
