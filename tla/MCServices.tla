------------------------------- MODULE MCServices -------------------------------
(* Small circumstances for each of the services.  The services that do not *)
(* move start in one state only.                                           *)
EXTENDS Services

-----------------------------------------------------------------------------
(* Retention.                                                              *)

Placed(category, child, inside, trace) ==
  [category |-> category, child |-> child, inside |-> inside, trace |-> trace]
RunFiles ==
  [log1 |-> Placed("tasks", "t1", <<"runs", "r1", "logs">>, FALSE),
   log2 |-> Placed("tasks", "t1", <<"runs", "r2", "logs">>, FALSE),
   log3 |-> Placed("tasks", "t2", <<"runs", "r3", "logs", "artifacts", "logs">>, FALSE),
   report |-> Placed("tasks", "t1", <<"runs", "r1", "report">>, FALSE),
   traced |-> Placed("tasks", "t1", <<"runs", "r1", "report">>, TRUE),
   latest |-> Placed("tasks", "t1", <<"runs", "latest", "logs">>, FALSE),
   plain |-> Placed("tasks", "t1", <<"runs", "r1">>, FALSE),
   issues |-> Placed("collaboration", "issues.json", <<>>, FALSE),
   sessions |-> Placed("collaboration", "sessions.json", <<>>, FALSE)]
RunPaths == DOMAIN RunFiles
Limit(d, c, p) == [days |-> d, cap |-> c, protected |-> p]
\* The default rules, days and sizes scaled down.
Rules == [report |-> Limit(2, -1, TRUE), logs |-> Limit(2, 3, FALSE), monitoring |-> Limit(2, 3, FALSE),
          artifacts |-> Limit(2, 3, FALSE), trace |-> Limit(1, 3, FALSE), temp |-> Limit(1, 2, FALSE)]
RetentionCase(who, dies, ps, w, s, n, what, d, rs, fs) ==
  [processes |-> who, deaths |-> dies, written |-> ps, writes |-> w, snapshots |-> s, sweeps |-> n,
   asked |-> what, days |-> d, old |-> 1, rules |-> rs, filters |-> fs]
Ask(k, n, d) == [kind |-> k, count |-> n, days |-> d]
None == [nobody \in {} |-> 0]
RetentionCases ==
  {RetentionCase({1}, TRUE, {"log1", "log2", "log3"}, 3, 0, 1, {"evidence"}, 2, None, {}),
   RetentionCase({1}, FALSE, {"log1", "report", "traced", "latest"}, 2, 0, 2, {"evidence", "cleanup"}, 3,
                 [temp |-> [cap |-> 1], report |-> [days |-> 1]], {}),
   RetentionCase({1}, FALSE, {"issues", "sessions", "plain"}, 3, 0, 1, {"cleanup", "evidence"}, 3,
                 [unknown |-> [days |-> 1]], {}),
   RetentionCase({1}, FALSE, {"plain", "log1"}, 2, 0, 3, {"evidence"}, 2,
                 [default |-> [days |-> 1, cap |-> 1, protected |-> FALSE]], {}),
   RetentionCase({1, 2}, FALSE, {"log1", "log2"}, 3, 0, 2, {"evidence", "cleanup"}, 2, None, {}),
   RetentionCase({1, 2}, TRUE, {}, 0, 2, 2, {"snapshots", "cleanup"}, 2, None,
                 {Ask("any", 1, -1), Ask("any", -1, 1)}),
   RetentionCase({1}, TRUE, {}, 0, 3, 2, {"snapshots", "cleanup"}, 2, None,
                 {Ask("review", 0, -1), Ask("replay", 1, 0), Ask("any", 1, 1)})}
RetentionsAside ==
  /\ Retentions!Init
  /\ rCircumstance = RetentionCase({1, 2}, FALSE, {"log1", "log2"}, 3, 0, 2, {"evidence", "cleanup"}, 2, None, {})

-----------------------------------------------------------------------------
(* Monkey.                                                                 *)

MonkeyCase(tcp, guard, noisy, stops, rec, c) ==
  [tcp |-> tcp, guard |-> guard, noisy |-> noisy, stops |-> stops, recover |-> rec,
   limit |-> [inject |-> 1, drift |-> 1, transport |-> 1], timeout |-> 2, grace |-> 1, drops |-> c]
MonkeyCases ==
  {MonkeyCase(TRUE, TRUE, {"closed"}, TRUE, {"transport"}, 2),
   MonkeyCase(TRUE, TRUE, {"inject"}, TRUE, {"inject"}, 1),
   MonkeyCase(TRUE, TRUE, {}, TRUE, {}, 3),
   MonkeyCase(FALSE, TRUE, {"inject", "closed"}, FALSE, {"inject", "transport"}, 2),
   MonkeyCase(TRUE, FALSE, {"closed"}, TRUE, {"inject"}, 2),
   MonkeyCase(FALSE, TRUE, {}, TRUE, {"transport"}, 2)}
MonkeysAside ==
  Monkeys!Init /\ mCircumstance = MonkeyCase(FALSE, TRUE, {}, TRUE, {"transport"}, 2) /\ online /\ monkeys = {}

-----------------------------------------------------------------------------
(* The quality gate.                                                       *)

GateReport(fs, ws, n, ss, cs, cf, rs, p) ==
  [fails |-> fs, warnings |-> ws, families |-> n, snapshots |-> ss, cases |-> cs,
   failedCases |-> cf, risks |-> rs, package |-> p]
\* The defaults, and a policy that tolerates some of everything.
Strict == [t \in {"review_failures", "golden_suite_failures", "review_warnings", "high_risk_families",
                  "review_snapshot_coverage", "golden_suite_coverage", "performance_risks"} |->
             IF t \in {"review_snapshot_coverage", "golden_suite_coverage"} THEN 1 ELSE 0]
Lenient == [t \in DOMAIN Strict |-> 1]
Scope(ks, ps, vs) == [keys |-> ks, packages |-> ps, values |-> vs]
GateCase(who, dies, rs, p, ss, n) ==
  [processes |-> who, deaths |-> dies, reports |-> rs, policy |-> p, scoped |-> ss, commands |-> n]
Ladder ==
  <<GateReport(0, 2, 0, 2, 1, 0, 0, "a"), GateReport(1, 2, 0, 2, 1, 0, 0, "a"), GateReport(1, 2, 1, 1, 1, 0, 2, "a"),
    GateReport(2, 2, 2, 0, 0, 0, 0, "a"), GateReport(0, 1, 0, 2, 1, 2, 1, "b"), GateReport(0, 0, 0, 2, 1, 0, 0, "b"),
    GateReport(0, 0, 0, 2, 1, 0, 2, "b")>>
Layers ==
  <<Scope({"k", "l"}, {"a"}, [review_failures |-> 2, review_warnings |-> 2]),
    Scope({"k"}, {"a", "b"}, [review_failures |-> -1, golden_suite_failures |-> 2]),
    Scope({"l"}, {"a", "b"}, [review_warnings |-> -1000, review_snapshot_coverage |-> 0])>>
GateCases ==
  {GateCase({1}, FALSE, Ladder, p, ss, 2) : p \in {Strict, Lenient}, ss \in {<<>>, Layers}}
  \cup {GateCase({1}, FALSE, <<Ladder[2]>>, Strict, <<>>, 4),
        GateCase({1, 2}, TRUE, SubSeq(Ladder, 1, 2), Strict, <<>>, 2)}
GatesAside == Gates!Init /\ gCircumstance = GateCase({1}, FALSE, Ladder, Strict, <<>>, 2)

-----------------------------------------------------------------------------
(* Submissions of builds.                                                  *)

SubmissionCase(who, dies, n, k) ==
  [requesters |-> who, deaths |-> dies, submissions |-> n, syncs |-> k]
SubmissionCases ==
  {SubmissionCase({1}, FALSE, 2, 1), SubmissionCase({1}, FALSE, 1, 2), SubmissionCase({1, 2}, TRUE, 1, 1),
   SubmissionCase({1, 2}, TRUE, 2, 0)}
SubmissionsAside ==
  Submissions!Init /\ sCircumstance = SubmissionCase({1}, FALSE, 1, 2) /\ decision = "pass"

-----------------------------------------------------------------------------
(* The other templates.                                                    *)

LoopCase(t, n, tcp, kill, mute, c) ==
  [template |-> t, loops |-> n, polls |-> 2, tcp |-> tcp, kill |-> kill, unlock |-> tcp, mute |-> mute, losses |-> c]
LoopCases ==
  {LoopCase(t, 2, tcp, TRUE, FALSE, 2) : t \in {"cold", "foreground", "install", "reboot", "standby"}, tcp \in BOOLEAN}
  \cup {LoopCase("cold", 2, TRUE, FALSE, FALSE, 1), LoopCase("install", 2, TRUE, TRUE, TRUE, 2)}
  \cup {LoopCase(t, 1, FALSE, TRUE, FALSE, 2) : t \in {"adb_script", "uiautomator2"}}
LoopsAside ==
  /\ Loops!Init /\ lCircumstance = LoopCase("cold", 2, TRUE, FALSE, FALSE, 1)
  /\ device.link /\ device.app = "back"

-----------------------------------------------------------------------------
(* Monitoring.                                                             *)

MonitoringCase(m, t, f, n) == [metrics |-> m, trace |-> t, fails |-> f, samples |-> n]
MonitoringCases ==
  {MonitoringCase("solox", "perfetto", f, 2) : f \in BOOLEAN}
  \cup {MonitoringCase(m, "perfetto", TRUE, 1) : m \in {"adb_collector", "none"}}
  \cup {MonitoringCase("adb_collector", t, TRUE, 1) : t \in {"none", "unsupported"}}
MonitoringsAside == Init /\ circumstance = MonitoringCase("solox", "perfetto", FALSE, 2)

-----------------------------------------------------------------------------
(* The analysis of issues.                                                 *)

Issue(n, s, i, t, r, d, h) == [n |-> n, side |-> s, issue |-> i, template |-> t, run |-> r, device |-> d, high |-> h]
Base(n, i, h) == Issue(n, "baseline", i, "x", "r1", "d1", h)
Targ(n, i, h) == Issue(n, "target", i, "x", "r1", "d1", h)
Other(n, i, h) == Issue(n, "target", i, "y", "r1", "d1", h)
Fp(i, t) == [issue |-> i, template |-> t]
Alias(i, j) == [source |-> Fp(i, "x"), kind |-> "alias", to |-> Fp(j, "x")]
Suppress(i) == [source |-> Fp(i, "x"), kind |-> "suppress", to |-> Fp(i, "x")]
Remove(i) == [source |-> Fp(i, "x"), kind |-> "remove", to |-> Fp(i, "x")]
AnalysisCase(dim, g, n, ms, es, ed, who, c, dies) ==
  [dimension |-> dim, groups |-> g, limit |-> n, ratio |-> 10, metrics |-> ms, to_come |-> es, edits |-> ed,
   significant |-> [c1 \in {"occurrences", "runs", "devices", "scenarios"} |-> 1],
   editors |-> who, changes |-> c, deaths |-> dies]
Average(b, t, w, e) == [baseline |-> b, target |-> t, worse |-> w, enough |-> e]
AnalysisCases ==
  {AnalysisCase("version", 1, 20, {}, {Base(1, "a", TRUE), Base(2, "b", FALSE), Targ(1, "a", TRUE), Targ(2, "b", FALSE)},
                {Alias("a", "b"), Suppress("b"), Remove("a")}, {1}, 2, FALSE),
   AnalysisCase("version", 0, 20, {}, {},
                {Alias("a", "b"), Alias("b", "c"), Alias("c", "d"), Alias("c", "a"), Alias("d", "e"), Suppress("d")},
                {1}, 4, FALSE),
   AnalysisCase("device", 0, 20, {}, {Targ(1, "a", FALSE)}, {Alias("a", "b"), Alias("b", "c"), Suppress("c")}, {1, 2}, 3, TRUE),
   AnalysisCase("scenario", 1, 20, {Average(1000, 1050, "higher", TRUE)},
      {Base(1, "a", TRUE), Base(2, "b", FALSE), Other(3, "a", TRUE), Other(4, "b", FALSE)},
      {Alias("a", "b")}, {1}, 1, TRUE)}
  \cup {AnalysisCase("version", l[1], l[2], ms,
       {Base(1, "a", TRUE), Base(2, "b", FALSE), Targ(1, "a", FALSE), Targ(4, "c", TRUE),
        [Targ(2, "a", TRUE) EXCEPT !.run = "r2"], [Targ(3, "a", FALSE) EXCEPT !.run = "r3", !.device = "d2"]},
       {}, {}, 0, FALSE) :
      l \in {<<1, 1>>, <<1, 20>>, <<2, 20>>},
      ms \in {{}, {Average(1000, 1200, "higher", TRUE)}, {Average(0, 0, "lower", TRUE), Average(50, 20, "lower", TRUE)},
              {Average(1000, 2000, "higher", FALSE)}}}
AnalysesAside ==
  Analyses!Init /\ aCircumstance = AnalysisCase("device", 0, 20, {}, {Targ(1, "a", FALSE)},
                                               {Alias("a", "b"), Alias("b", "c"), Suppress("c")}, {1, 2}, 3, TRUE)

-----------------------------------------------------------------------------
(* Issues and their evidence.                                              *)

Mark(d, k) == [detector |-> d, key |-> k]
Text(ms) == [marks |-> ms, reboot |-> FALSE, booted |-> FALSE, system |-> FALSE]
Alphabet ==
  {Text({Mark("anr", "ANR"), Mark("exit", "reason")}), Text({Mark("java", "E"), Mark("exit", "unknown")}),
   Text({Mark("memory", "unknown")}), Text({Mark("native", "unknown"), Mark("tombstone", "tombstone")}),
   [Text({Mark("java", "F")}) EXCEPT !.system = TRUE], Text({Mark("null", "unknown")}),
   [Text({Mark("watchdog", "watchdog")}) EXCEPT !.reboot = TRUE], [Text({}) EXCEPT !.booted = TRUE]}
EvidenceCase(ls, n, os, s, t, nm, up, f, c) ==
  [alphabet |-> ls, length |-> n, outcomes |-> os, snapshot |-> s, trace |-> t, named |-> nm, link |-> up, faults |-> f, misses |-> c]
EvidenceCases ==
  {EvidenceCase(Alphabet, 3, {"fine"}, FALSE, "none", TRUE, FALSE, FALSE, 0),
   EvidenceCase({Text({Mark("anr", "ANR")}), Text({Mark("watchdog", "watchdog")})}, 2, {"fine", "timeout"}, TRUE, "there", TRUE, TRUE, FALSE, 2),
   EvidenceCase({}, 0, {"offline", "timeout", "startup_failure", "startup_timeout"}, TRUE, "none", TRUE, TRUE, TRUE, 3),
   EvidenceCase({Text({Mark("watchdog", "watchdog")}), Text({Mark("jank", "jank")})}, 1, {"fine", "timeout"}, TRUE, "named", FALSE, TRUE, TRUE, 1)}
EvidencesAside == Evidences!Init /\ eCircumstance.length = 3

-----------------------------------------------------------------------------
(* The readings of a collector.                                            *)

ReadingCase(who, of, n, h, b, m, r, o, rd, st, g) ==
  [threads |-> who, of |-> of, asks |-> n, horizon |-> h, before |-> b, traffic |-> m, reboots |-> r, outages |-> o,
   readable |-> rd, stats |-> st, earlier |-> 5, looped |-> 7, garbled |-> g]
ReadingCases ==
  {ReadingCase({1}, "system", 3, 4, 1, 2, 1, 0, TRUE, TRUE, FALSE),
   ReadingCase({1}, "system", 3, 4, 0, 1, 0, 1, TRUE, TRUE, FALSE),
   ReadingCase({1}, "system", 4, 5, 1, 1, 1, 0, FALSE, TRUE, FALSE),
   ReadingCase({1}, "system", 2, 3, 1, 1, 0, 1, TRUE, FALSE, TRUE),
   ReadingCase({1, 2}, "system", 3, 3, 1, 1, 0, 0, TRUE, FALSE, FALSE),
   ReadingCase({1, 2}, "app", 3, 4, 0, 0, 0, 0, TRUE, FALSE, FALSE)}
ReadingsAside == CollectorOf!Init /\ kCircumstance.of = "app"

-----------------------------------------------------------------------------
(* Deliveries of the outbox.                                               *)

Hook(n, u, c, ks) == [name |-> n, url |-> u, channel |-> c, accepts |-> ks]
Plain == Hook("n", "u", "generic", {"e", "alert"})
Open == Hook("m", "v", "generic", {})
Bot == Hook("b", "w", "feishu_bot", {"e", "f"})
Replayed == [do |-> "replay", name |-> "n", names |-> {}, types |-> {}, select |-> "as told", interval |-> 1,
             rounds |-> 0, runtime |-> 0, when_idle |-> TRUE, url |-> "u", channel |-> "generic", secret |-> FALSE]
Daemon(s, ns, ts, i, r, rt) ==
  [Replayed EXCEPT !.do = "daemon", !.select = s, !.names = ns, !.types = ts, !.interval = i, !.rounds = r, !.runtime = rt]
Rounds(s, n) == [Replayed EXCEPT !.do = "rounds", !.select = s, !.rounds = n]
Registered(n, u, c, ts, s) ==
  [Replayed EXCEPT !.do = "register", !.name = n, !.url = u, !.channel = c, !.types = ts, !.secret = s]
Callback(n, u) == [Replayed EXCEPT !.do = "ci", !.name = n, !.url = u, !.types = {"e"}, !.channel = "ci_callback"]
Single(n) == [Replayed EXCEPT !.do = "single", !.name = n]
DaemonCase(js, es, an, tr, de, rs, h) ==
  [jobs |-> js, events |-> es, answers |-> an, torn |-> tr, deaths |-> de, registered |-> rs, horizon |-> h]
DaemonCases ==
  {DaemonCase(<<{Daemon("registered", {}, {}, 1, 3, 0)}, {}>>, {"e", "f"}, {"ok", "retry"}, FALSE, FALSE, <<Plain, Open>>, 2),
   DaemonCase(<<{Daemon("as told", {}, {}, 1, 3, 0)}, {}>>, {"e"}, {"ok", "retry", "reject"}, FALSE, FALSE,
              <<Plain, Plain>>, 2),
   DaemonCase(<<{Daemon("feishu", {}, {"e", "f"}, 1, 2, 1)}, {Registered("b", "x", "generic", {"e"}, FALSE)}>>, {"e"},
              {"ok"}, TRUE, FALSE, <<Bot, Plain>>, 1),
   DaemonCase(<<{Daemon("registered", {"n"}, {"e"}, 1, 0, 0), Replayed}, {Rounds("as told", 1)}>>, {"e"},
              {"ok", "reject"}, FALSE, FALSE, <<Plain>>, 0),
   DaemonCase(<<{Callback("c", "x"), Callback("c", "y"), Single("c")}, {}>>, {"e"}, {"ok"}, FALSE, FALSE, <<Plain>>, 1),
   DaemonCase(<<{Callback("c", "x"), Callback("d", "remote")}, {Registered("c", "y", "generic", {"e"}, TRUE), Single("c")}>>,
              {"e"}, {"ok"}, TRUE, FALSE, <<Plain>>, 0),
   DaemonCase(<<{Daemon("as told", {}, {}, 1, 0, 0)}, {Rounds("as told", 1)}>>, {"e"}, {"retry"}, FALSE, FALSE,
              <<Plain>>, 1),
   DaemonCase(<<{Daemon("as told", {}, {}, 0, 0, 0), Rounds("registered", 2), Replayed}, {}>>, {"e"}, {"ok", "reject"},
              TRUE, TRUE, <<Plain>>, 1)}
DaemonsAside == Daemons!Init /\ dCircumstance.events = {"e", "f"}

-----------------------------------------------------------------------------
MCInit ==
  /\ focus \in {"retention", "monkey", "gate", "submissions", "loops", "monitoring", "analysis", "evidence",
               "readings", "daemon"}
  /\ IF focus = "retention" THEN Retentions!Init ELSE RetentionsAside
  /\ IF focus = "monkey" THEN Monkeys!Init ELSE MonkeysAside
  /\ IF focus = "gate" THEN Gates!Init ELSE GatesAside
  /\ IF focus = "submissions" THEN Submissions!Init ELSE SubmissionsAside
  /\ IF focus = "loops" THEN Loops!Init ELSE LoopsAside
  /\ IF focus = "monitoring" THEN Init ELSE MonitoringsAside
  /\ IF focus = "analysis" THEN Analyses!Init ELSE AnalysesAside
  /\ IF focus = "evidence" THEN Evidences!Init ELSE EvidencesAside
  /\ IF focus = "readings" THEN CollectorOf!Init ELSE ReadingsAside
  /\ IF focus = "daemon" THEN Daemons!Init ELSE DaemonsAside
MCSpec == MCInit /\ [][AllNext]_allVars
=============================================================================
