---------------------------- MODULE CollectorReadings ----------------------------
(***************************************************************************)
(* ADBCollector: what it read of the device it keeps and gives again.  A   *)
(* reading is given again for a few seconds; of the system's, the text     *)
(* with the network counters is kept for half a minute, and the traffic it *)
(* tells is the gain of its counters on those before.  Three commands give *)
(* counters, and they do not count the same.  A monitoring session has one *)
(* collector; its sampler and its last snapshot may use it at once.        *)
(*                                                                         *)
(* One step is one command, or one access to what the collector keeps.  A  *)
(* command that times out is one in an outage.  There are fewer readings   *)
(* than the hundred from which on the cache evicts.                        *)
(***************************************************************************)
EXTENDS Integers

CONSTANTS
  Threads,
  TextAge,         \* _cache_timeout: how long a text is good
  DataAge,         \* the ttl of EnhancedCache.get
  Interval,        \* _collection_intervals: how long a reading is given again
  Circumstances    \* records: which reading is asked for (of), how often (asks) and until
                   \* when (horizon); what had moved (before) and moves (traffic), reboots,
                   \* outages; are the counters readable, has netstats totals (stats), from
                   \* earlier; what the loopback moved (looped); may an answer be garbled

VARIABLES
  circumstance, now, asks,
  device,     \* is it connected, its counter since it started, all it moved, the faults left
  texts,      \* _cache: the texts with counters, when they were kept, and when they were read
  last,       \* _last_system_network
  kept,       \* enhanced_cache: the reading and its time
  stamp,      \* _last_collection_time
  calls,      \* where each thread is in a call, since when, and the reading it makes
  given,      \* the reading each thread got last, and when it asked
  history     \* the traffic told so far; were sources mixed, did calls overlap

Config ==
  [threads : SUBSET Threads, of : {"system", "app"}, asks : Nat, horizon : Nat, before : Nat, traffic : Nat,
   reboots : Nat, outages : Nat, readable : BOOLEAN, stats : BOOLEAN, earlier : Nat, looped : Nat,
   garbled : BOOLEAN]
ConstantsOK ==
  /\ {TextAge, DataAge, Interval} \subseteq Nat \ {0} /\ Interval <= DataAge
  /\ Circumstances \subseteq Config

collector == <<texts, last, kept, stamp>>
vars == <<circumstance, now, asks, device, collector, calls, given, history>>

-----------------------------------------------------------------------------
(* Readings, told by a source, or without counters, or empty.              *)

Sources == {"dev", "netstats", "whole"}
Reading(by, count, asOf) == [by |-> by, count |-> count, traffic |-> 0, asOf |-> asOf]
Empty == Reading("nobody", 0, 0)
Zeros == Reading("zeros", 0, now)
NoText == [kept |-> FALSE, count |-> 0, at |-> 0, read |-> 0]

\* What a command gives: all interfaces but the loopback, the totals of the
\* statistics, which outlive a restart, or all interfaces; if it gives any.
Count(s) ==
  CASE s = "dev" -> device.counter
    [] s = "netstats" -> circumstance.earlier + device.moved
    [] s = "whole" -> device.counter + circumstance.looped
Answers(s) == device.link /\ IF s = "netstats" THEN circumstance.stats ELSE circumstance.readable

Init ==
  /\ circumstance \in Circumstances
  /\ now = 0 /\ asks = circumstance.asks
  /\ device = [link |-> TRUE, counter |-> circumstance.before, moved |-> circumstance.before,
               outages |-> circumstance.outages, reboots |-> circumstance.reboots]
  /\ texts = [s \in {"dev", "netstats"} |-> NoText]
  /\ last = [by |-> "nobody", count |-> 0]
  /\ kept = [data |-> Empty, at |-> 0] /\ stamp = -Interval
  /\ calls = [t \in Threads |-> [at |-> "idle", since |-> 0, data |-> Empty]]
  /\ given = [t \in Threads |-> [data |-> Empty, asked |-> -1]]
  /\ history = [told |-> 0, mixed |-> FALSE, overlapped |-> FALSE]

-----------------------------------------------------------------------------
(* Time, and the device.                                                   *)

Tick ==
  /\ now < circumstance.horizon /\ now' = now + 1
  /\ UNCHANGED <<circumstance, asks, device, collector, calls, given, history>>
OfDevice == UNCHANGED <<circumstance, now, asks, collector, calls, given, history>>
Traffic ==
  /\ device.moved < circumstance.before + circumstance.traffic
  /\ device' = [device EXCEPT !.moved = @ + 1, !.counter = @ + 1] /\ OfDevice
Reboot ==
  /\ device.reboots > 0
  /\ device' = [device EXCEPT !.counter = 0, !.reboots = @ - 1] /\ OfDevice
Disconnect ==
  /\ device.link /\ device.outages > 0
  /\ device' = [device EXCEPT !.link = FALSE, !.outages = @ - 1] /\ OfDevice
Reconnect == ~device.link /\ device' = [device EXCEPT !.link = TRUE] /\ OfDevice

-----------------------------------------------------------------------------
(* A call: get_system_performance, or get_multiple_app_performance of one  *)
(* package.                                                                *)

At(t, place) == calls[t].at = place
Go(t, place, data) == calls' = [calls EXCEPT ![t].at = place, ![t].data = data]
InCall == UNCHANGED <<circumstance, now, asks, device>>
OfApp == circumstance.of = "app"

\* A reading of a moment ago is given again.  An app whose reading is gone by
\* then is left out.
IsRecent == now - stamp < Interval
Usable == kept.data # Empty /\ now - kept.at < DataAge
Ask(t) ==
  /\ t \in circumstance.threads /\ asks > 0 /\ asks' = asks - 1 /\ At(t, "idle")
  /\ IF IsRecent /\ (Usable \/ OfApp)
     THEN /\ given' = [given EXCEPT ![t] = [data |-> IF Usable THEN kept.data ELSE Empty, asked |-> now]]
          /\ UNCHANGED calls
     ELSE /\ calls' = [calls EXCEPT ![t] = [at |-> IF OfApp THEN "batch" ELSE "dev", since |-> now, data |-> Empty]]
          /\ UNCHANGED given
  /\ kept' = IF IsRecent /\ ~Usable THEN [kept EXCEPT !.data = Empty] ELSE kept
  /\ history' = [history EXCEPT !.overlapped = @ \/ \E u \in Threads \ {t} : ~At(u, "idle")]
  /\ UNCHANGED <<circumstance, now, device, texts, last, stamp>>

Kept(s) == IF texts[s].kept /\ now - texts[s].at < TextAge THEN texts[s] ELSE NoText
\* The counters of a text, kept or new; without any, the next command.
ReadText(t, s) ==
  /\ At(t, s)
  /\ LET new  == IF Answers(s) THEN [kept |-> TRUE, count |-> Count(s), at |-> now, read |-> now] ELSE NoText
         text == IF Kept(s) # NoText THEN Kept(s) ELSE new
     IN  /\ texts' = [texts EXCEPT ![s] = text]
         /\ IF text # NoText THEN Go(t, "compute", Reading(s, text.count, text.read))
            ELSE Go(t, IF s = "dev" THEN "netstats" ELSE "keep", Zeros)
  /\ InCall /\ UNCHANGED <<last, kept, stamp, given, history>>

\* When another answer, before or after, cannot be decoded, all is read again, without
\* kept texts.
Garbled(t) ==
  /\ circumstance.garbled
  /\ \/ At(t, "dev") \/ At(t, "netstats")
     \/ At(t, "keep") /\ calls[t].data.by \in {"dev", "netstats"}
  /\ Go(t, "whole", Empty)
  /\ InCall /\ UNCHANGED <<collector, given, history>>
ReadWhole(t) ==
  /\ At(t, "whole")
  /\ IF Answers("whole") THEN Go(t, "compute", Reading("whole", Count("whole"), now))
     ELSE IF device.link THEN Go(t, "keep", Zeros)
     ELSE calls' = [calls EXCEPT ![t] = [at |-> "keep", since |-> now, data |-> Empty]]
  /\ InCall /\ UNCHANGED <<collector, given, history>>

\* Mutant: the first gain is all that is counted.
GainAll(count) == IF count > last.count THEN count - last.count ELSE 0
\* The traffic is the gain on the counters before, none if they went down; then
\* these are the counters before.
Gain(count) == IF last.by # "nobody" /\ count > last.count THEN count - last.count ELSE 0
Compute(t) ==
  /\ At(t, "compute")
  /\ Go(t, "store", [calls[t].data EXCEPT !.traffic = Gain(calls[t].data.count)])
  /\ InCall /\ UNCHANGED <<collector, given, history>>
Store(t) ==
  LET data == calls[t].data
  IN  /\ At(t, "store")
      /\ last' = [by |-> data.by, count |-> data.count]
      /\ history' = [history EXCEPT !.mixed = @ \/ last.by \notin {"nobody", data.by}]
      /\ Go(t, IF data.by = "dev" /\ data.count = 0 THEN "netstats" ELSE "keep", data)
      /\ InCall /\ UNCHANGED <<texts, kept, stamp, given>>
Batch(t) ==
  /\ At(t, "batch")
  /\ Go(t, "keep", Reading("app", 0, now))
  /\ InCall /\ UNCHANGED <<collector, given, history>>

\* The reading is kept, with the time the call began, and only then stamped.
Keep(t) ==
  /\ At(t, "keep")
  /\ kept' = [data |-> calls[t].data, at |-> calls[t].since]
  /\ Go(t, "stamp", calls[t].data)
  /\ history' = [history EXCEPT !.told = @ + calls[t].data.traffic]
  /\ InCall /\ UNCHANGED <<texts, last, stamp, given>>
Stamp(t) ==
  /\ At(t, "stamp")
  /\ stamp' = calls[t].since
  /\ given' = [given EXCEPT ![t] = [data |-> calls[t].data, asked |-> calls[t].since]]
  /\ Go(t, "idle", Empty)
  /\ InCall /\ UNCHANGED <<texts, last, kept, history>>

Next ==
  \/ Tick \/ Traffic \/ Reboot \/ Disconnect \/ Reconnect
  \/ \E t \in Threads :
       \/ Ask(t) \/ ReadText(t, "dev") \/ ReadText(t, "netstats") \/ Garbled(t) \/ ReadWhole(t)
       \/ Compute(t) \/ Store(t) \/ Batch(t) \/ Keep(t) \/ Stamp(t)

Spec == Init /\ [][Next]_vars

-----------------------------------------------------------------------------
\* Types.
Readings == [by : Sources \cup {"nobody", "zeros", "app"}, count : Nat, traffic : Nat, asOf : Nat]
TypeOK ==
  /\ ConstantsOK /\ circumstance \in Circumstances /\ now \in Nat /\ asks \in Nat
  /\ device \in [link : BOOLEAN, counter : Nat, moved : Nat, outages : Nat, reboots : Nat]
  /\ texts \in [{"dev", "netstats"} -> [kept : BOOLEAN, count : Nat, at : Nat, read : Nat]]
  /\ last \in [by : Sources \cup {"nobody"}, count : Nat]
  /\ kept \in [data : Readings, at : Nat] /\ stamp \in Int
  /\ calls \in [Threads -> [at : {"idle", "compute", "store", "batch", "keep", "stamp"} \cup Sources,
                            since : Nat, data : Readings]]
  /\ given \in [Threads -> [data : Readings, asked : Int]]
  /\ history \in [told : Nat, mixed : BOOLEAN, overlapped : BOOLEAN]

\* A reading says how the device was no longer ago than the texts and the reading may be
\* kept, one after the other; one that overtook another in its call is taken for as good
\* as it, and so may be older.  An app is not left out unless one did.
ReadingsAreFresh ==
  \A t \in Threads :
    LET g == given[t]
        long == IF history.overlapped THEN DataAge ELSE Interval
    IN  /\ g.data # Empty => g.asked - g.data.asOf < long + (IF OfApp THEN 0 ELSE TextAge)
        /\ OfApp /\ g.asked >= 0 /\ ~history.overlapped => g.data # Empty

\* The traffic told is no more than what moved, whatever restarts and outages there were,
\* unless readings were made at once or with different commands.
NothingInvented ==
  ~history.mixed /\ ~history.overlapped => history.told <= device.moved - circumstance.before

\* Readings are fresh, and their traffic moved (get_system_performance,
\* get_multiple_app_performance, _get_network_data_with_fallback).
ReadingsSafe == ReadingsAreFresh /\ NothingInvented
=============================================================================
