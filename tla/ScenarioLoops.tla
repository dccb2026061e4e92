------------------------------ MODULE ScenarioLoops ------------------------------
(***************************************************************************)
(* One execution on one device of a template that is no Monkey: the loops  *)
(* of ColdStartLoopScenarioRunner and of device_cycle, and the steps of    *)
(* CustomAutomationScenarioRunner.  A loop is a few adb commands; each is  *)
(* judged by its exit code and by words in its output, and on a device     *)
(* reached over the network it is sent once more after a lost connection.  *)
(* The device may carry a command out whose answer is lost, or answer what *)
(* it has not carried out.                                                 *)
(*                                                                         *)
(* An adb connect that brings the device back is a Return before the       *)
(* question whether it is there.                                           *)
(***************************************************************************)
EXTENDS Integers, Sequences

CONSTANT Circumstances   \* the task, and what may happen how often

VARIABLES
  circumstance,  \* the same throughout
  device,        \* its connection, the application, its screen, a boot under way
  losses,        \* of the connection, still to come
  cycle,         \* where the runner is
  answer,        \* to the command, as it stands
  hollow         \* history: steps passed whose command did not do its work, and why

vars == <<circumstance, device, losses, cycle, answer, hollow>>

-----------------------------------------------------------------------------
\* The commands of a loop; of a custom automation, its steps.
Steps(t) ==
  CASE t = "cold" -> <<"launch">>
    [] t = "foreground" -> <<"launch", "home">>
    [] t = "install" -> <<"uninstall", "install">>
    [] t = "reboot" -> <<"reboot">>
    [] t = "standby" -> IF circumstance.unlock THEN <<"sleep", "wake", "unlock">> ELSE <<"sleep", "wake">>
    [] t = "adb_script" -> <<"command", "command">>
    [] t = "uiautomator2" -> <<"tap", "tap">>
Templates == {"cold", "foreground", "install", "reboot", "standby", "adb_script", "uiautomator2"}
Custom == {"adb_script", "uiautomator2"}

\* kill_before_launch, unlock_after_wake, and an adb whose exit code is 0 when
\* an installation fails.
Config == [template : Templates, loops : Nat \ {0}, polls : Nat \ {0}, tcp : BOOLEAN, kill : BOOLEAN,
           unlock : BOOLEAN, mute : BOOLEAN, losses : Nat]
ConstantsOK == \A c \in Circumstances : c \in Config /\ (c.template \in Custom => c.loops = 1)

Device == [link : BOOLEAN, app : {"absent", "stopped", "front", "back"}, awake : BOOLEAN,
           phase : {"up", "going", "down", "booting"}]
\* unknown: of an uninstallation, there was nothing to remove; said: the
\* output talks of an error; slow: above startup_timeout_ms; lost: it is not
\* the device's answer, which the runner does not know.
Answer == [code : {"ok", "error", "timeout"}, marks : SUBSET {"closed", "unknown", "said", "slow", "lost"}]
Says(code, marks) == [code |-> code, marks |-> marks]
Lost == {Says("error", {"lost"} \cup m) : m \in SUBSET {"closed"}}

Is(t) == circumstance.template = t
Command == Steps(circumstance.template)[cycle.step]
\* get-state answers "device".
Reached == device.link /\ device.phase # "down"

Init ==
  /\ circumstance \in Circumstances
  /\ device \in [link : BOOLEAN, app : {"absent", "stopped", "back"}, awake : {TRUE}, phase : {"up"}]
  /\ losses = circumstance.losses
  /\ cycle = [at |-> "start", loop |-> 0, step |-> 1, tries |-> 0, polls |-> 0, took |-> FALSE,
              killed |-> FALSE, outcome |-> "none"]
  /\ answer = Says("ok", {})
  /\ hollow = {}

-----------------------------------------------------------------------------
(* The device.                                                             *)

Awaiting == cycle.at = "wait"
Ended == cycle.at = "done"

\* The answer to a command under way is lost with the connection.
Cut == IF Awaiting THEN answer' \in Lost ELSE UNCHANGED answer
Lose ==
  /\ ~Ended /\ device.link /\ losses > 0
  /\ device' = [device EXCEPT !.link = FALSE]
  /\ losses' = losses - 1
  /\ Cut
  /\ UNCHANGED <<circumstance, cycle, hollow>>
Return ==
  /\ ~Ended /\ ~device.link /\ device.phase # "down"
  /\ device' = [device EXCEPT !.link = TRUE]
  /\ UNCHANGED <<circumstance, losses, cycle, answer, hollow>>

\* A reboot takes its time to begin; a network connection does not survive it.
GoDown ==
  /\ ~Ended /\ device.phase = "going"
  /\ device' = [device EXCEPT !.phase = "down", !.link = @ /\ ~circumstance.tcp, !.awake = TRUE,
                              !.app = IF @ = "absent" THEN "absent" ELSE "stopped"]
  /\ cycle' = [cycle EXCEPT !.took = TRUE]
  /\ Cut
  /\ UNCHANGED <<circumstance, losses, hollow>>
Boot ==
  /\ ~Ended
  /\ \/ device.phase = "down" /\ device' = [device EXCEPT !.phase = "booting"]
     \/ device.phase = "booting" /\ device' = [device EXCEPT !.phase = "up"]
  /\ UNCHANGED <<circumstance, losses, cycle, answer, hollow>>

-----------------------------------------------------------------------------
(* A command.                                                              *)

\* What the device does, and what it can do it with.
After(c) ==
  CASE c = "launch" -> [device EXCEPT !.app = "front", !.awake = TRUE]
    [] c = "home" -> [device EXCEPT !.app = IF @ = "front" THEN "back" ELSE @]
    [] c = "uninstall" -> [device EXCEPT !.app = "absent"]
    [] c = "install" -> [device EXCEPT !.app = "stopped"]
    [] c = "reboot" -> [device EXCEPT !.phase = "going"]
    [] c = "sleep" -> [device EXCEPT !.awake = FALSE]
    [] c = "wake" -> [device EXCEPT !.awake = TRUE]
    [] OTHER -> device
Able(c) == c \in {"launch", "uninstall"} => device.app # "absent"
\* How it declines.
Declines(c) ==
  {Says("error", IF c = "uninstall" /\ device.app = "absent" THEN {"unknown"} ELSE {})}
  \cup (IF c \in {"launch", "command"} THEN {Says("ok", {"said"})} ELSE {})
  \cup (IF c \in {"install", "uninstall"} /\ circumstance.mute THEN {Says("ok", {})} ELSE {})

\* Of a cold start, that the application was not running; of a reboot, GoDown.
Works == IF Is("cold") THEN circumstance.kill => device.app = "stopped" ELSE ~Is("reboot")
Sent(took) == cycle' = [cycle EXCEPT !.at = "wait", !.tries = @ + 1, !.took = took]
Send ==
  /\ cycle.at = "send"
  /\ \/ /\ ~Reached
        /\ answer' \in Lost /\ Sent(cycle.took) /\ UNCHANGED device
     \/ /\ Reached /\ Able(Command)
        /\ device' = After(Command) /\ Sent(Works)
        /\ \E slow \in SUBSET (IF Is("cold") THEN {"slow"} ELSE {}) : answer' = Says("ok", slow)
     \/ /\ Reached
        /\ answer' \in Declines(Command) /\ Sent(cycle.took) /\ UNCHANGED device
  /\ UNCHANGED <<circumstance, losses, hollow>>
\* The host gives up on it.
TimeOut ==
  /\ Awaiting /\ answer.code # "timeout"
  /\ answer' = Says("timeout", {})
  /\ UNCHANGED <<circumstance, device, losses, cycle, hollow>>

\* am force-stop, before each attempt; its answer is not looked at.
Kill ==
  /\ cycle.at = "kill"
  /\ cycle' = [cycle EXCEPT !.at = "send", !.killed = Reached]
  /\ device' = IF Reached /\ device.app # "absent" THEN [device EXCEPT !.app = "stopped"] ELSE device
  /\ UNCHANGED <<circumstance, losses, answer, hollow>>
Attempt == IF Is("cold") /\ circumstance.kill THEN "kill" ELSE "send"

-----------------------------------------------------------------------------
(* The runner.                                                             *)

End(outcome) == cycle' = [cycle EXCEPT !.at = "done", !.outcome = outcome]
ToStep(n) ==
  [cycle EXCEPT !.at = Attempt, !.step = n, !.tries = 0, !.took = FALSE, !.killed = FALSE]
\* The step is passed, for this reason if its command has not done its work.
Passed(why) ==
  /\ hollow' = IF cycle.took THEN hollow ELSE hollow \cup {<<Command, why>>}
  /\ cycle' = IF cycle.step < Len(Steps(circumstance.template)) THEN ToStep(cycle.step + 1)
              ELSE [cycle EXCEPT !.at = "head"]

\* Of the custom automations, uiautomator2 alone asks: it connects.
Start ==
  /\ cycle.at = "start"
  /\ CASE Is("uiautomator2") -> IF Reached THEN cycle' = [cycle EXCEPT !.at = "head"] ELSE End("failed")
       [] circumstance.template \in Custom -> cycle' = [cycle EXCEPT !.at = "head"]
       [] OTHER -> IF ~Reached THEN End("offline")
                   ELSE IF device.app = "absent" /\ (Is("cold") \/ Is("foreground")) THEN End("failed")
                   ELSE cycle' = [cycle EXCEPT !.at = "head"]
  /\ UNCHANGED <<circumstance, device, losses, answer, hollow>>

\* The next loop.  A cold start asks for the device; an installation for the
\* application, and takes silence for its absence.
NextLoop ==
  /\ cycle.at = "head"
  /\ IF cycle.loop = circumstance.loops THEN End("success") /\ UNCHANGED hollow
     ELSE IF Is("cold") /\ ~Reached THEN End("offline") /\ UNCHANGED hollow
     ELSE LET skips == Is("install") /\ (~Reached \/ device.app = "absent") IN
          /\ cycle' = [ToStep(IF skips THEN 2 ELSE 1) EXCEPT !.loop = @ + 1]
          /\ hollow' = IF skips /\ device.app # "absent" THEN hollow \cup {<<"uninstall", "unasked">>} ELSE hollow
  /\ UNCHANGED <<circumstance, device, losses, answer>>

\* An uninstallation that finds nothing is as good as one that removes it.
Tolerated == Command = "uninstall" /\ answer.code = "error" /\ "unknown" \in answer.marks
\* What the template's runner takes for a failure: a cold start
\* reads the output too, an adb script nothing else, and of a command that
\* exits with an error it is given no output.
Failed ==
  CASE Is("adb_script") -> answer.code = "ok" /\ "said" \in answer.marks
    [] Is("cold") -> answer.code # "ok" \/ "said" \in answer.marks
    [] OTHER -> answer.code # "ok" /\ ~Tolerated
\* should_retry_after_disconnect, of the commands that are sent again at all.
Disconnected ==
  /\ circumstance.tcp /\ cycle.tries < 2 /\ circumstance.template \notin Custom \cup {"reboot"}
  /\ answer.code # "ok" \/ (Is("cold") /\ "said" \in answer.marks)
  /\ "closed" \in answer.marks \/ ~Reached
Why ==
  CASE Is("cold") /\ ~cycle.killed -> "unkilled"
    [] "said" \in answer.marks -> "said"
    [] Is("adb_script") /\ answer.code # "ok" -> "silent"
    [] OTHER -> "none"

Judge ==
  /\ Awaiting
  /\ IF Disconnected THEN cycle' = [cycle EXCEPT !.at = "reconnect"] /\ UNCHANGED hollow
     ELSE IF Is("cold") /\ (answer.code = "timeout" \/ (~Failed /\ "slow" \in answer.marks))
     THEN End("timeout") /\ UNCHANGED hollow
     ELSE IF Failed THEN End("failed") /\ UNCHANGED hollow
     ELSE IF Is("reboot") THEN cycle' = [cycle EXCEPT !.at = "poll", !.polls = circumstance.polls] /\ UNCHANGED hollow
     ELSE IF Command = "install" THEN cycle' = [cycle EXCEPT !.at = "verify"] /\ UNCHANGED hollow
     ELSE Passed(Why)
  /\ UNCHANGED <<circumstance, device, losses, answer>>
\* attempt_reconnect.
Reconnect ==
  /\ cycle.at = "reconnect"
  /\ IF Reached THEN cycle' = [cycle EXCEPT !.at = Attempt] ELSE End("offline")
  /\ UNCHANGED <<circumstance, device, losses, answer, hollow>>

\* Mutant: the exit code of the installation is believed.
Believed == TRUE
\* pm list packages.
Listed == Reached /\ device.app # "absent"
Verify ==
  /\ cycle.at = "verify"
  /\ IF Listed THEN Passed(Why) ELSE End("failed") /\ UNCHANGED hollow
  /\ UNCHANGED <<circumstance, device, losses, answer>>

\* _wait_for_device_ready.  A device that has not gone down yet is back, and so
\* is one that does not answer the second question.
Poll ==
  /\ cycle.at = "poll"
  /\ \/ Reached /\ Passed(IF device.phase = "going" THEN "early" ELSE "none")
     \/ /\ ~Reached \/ device.phase = "booting"
        /\ IF cycle.polls > 1 THEN cycle' = [cycle EXCEPT !.polls = @ - 1] ELSE End("offline")
        /\ UNCHANGED hollow
  /\ UNCHANGED <<circumstance, device, losses, answer>>

Next ==
  \/ Lose \/ Return \/ GoDown \/ Boot
  \/ Start \/ NextLoop \/ Kill \/ Send \/ TimeOut \/ Judge \/ Reconnect \/ Verify \/ Poll

Spec == Init /\ [][Next]_vars

-----------------------------------------------------------------------------
(* Types.                                                                  *)
TypeOK ==
  /\ ConstantsOK /\ circumstance \in Circumstances
  /\ device \in Device /\ answer \in Answer
  /\ losses \in 0 .. circumstance.losses
  /\ cycle \in [at : {"start", "head", "kill", "send", "wait", "reconnect", "verify", "poll", "done"},
                 loop : 0 .. circumstance.loops, step : 1 .. Len(Steps(circumstance.template)), tries : 0 .. 2,
                 polls : 0 .. circumstance.polls, took : BOOLEAN, killed : BOOLEAN,
                 outcome : {"none", "success", "failed", "timeout", "offline"}]
  /\ \A h \in hollow : h[1] \in {Steps(circumstance.template)[n] : n \in 1 .. Len(Steps(circumstance.template))}

\* A loop that is counted was one: the application was started cold, removed
\* and installed, the device rebooted, each step carried out, whatever was
\* lost, repeated or late.  It was not where the runner does not look: at the
\* force-stop, at the error am talks of while it exits with 0, at the silence
\* of pm, before the device has gone down, at a script's command that fails.
Excuses ==
  CASE Is("cold") -> {<<"launch", "unkilled">>}
    [] Is("foreground") -> {<<"launch", "said">>}
    [] Is("install") -> {<<"uninstall", "unasked">>}
    [] Is("reboot") -> {<<"reboot", "early">>}
    [] Is("adb_script") -> {<<"command", "silent">>}
    [] OTHER -> {}
LoopsAreReal == circumstance.mute \/ hollow \subseteq Excuses

\* A successful execution leaves the device as its last command should: the
\* application installed, in the background, or in front, the screen on.
EndsAsCommanded ==
  cycle.outcome = "success" =>
    /\ Is("install") => device.app # "absent"
    /\ Is("foreground") => device.app # "front"
    /\ Is("cold") => device.app = "front"
    /\ Is("standby") => device.awake

\* An uninstallation that took place and whose answer was lost is not held
\* against the loop: if it fails there, the device has not answered the last
\* attempt either.
RemovalIsForgiven ==
  cycle.outcome = "failed" /\ Is("install") /\ cycle.loop > 0 /\ Command = "uninstall" /\ cycle.took =>
    answer.code = "timeout" \/ "lost" \in answer.marks

\* A loop counts only what happened on the device, a success leaves the device as
\* commanded, and a removal whose answer was lost is not held against it.
LoopsSafe == LoopsAreReal /\ EndsAsCommanded /\ RemovalIsForgiven
=============================================================================
