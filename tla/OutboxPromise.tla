---------------------------- MODULE OutboxPromise ----------------------------
(***************************************************************************)
(* What the outbox promises for each item it was given: it stays until it  *)
(* is delivered or declared dead, delivery is final, the dead may be       *)
(* queued again, and an alert is only raised about an item that is there.  *)
(***************************************************************************)
CONSTANTS
  Items,
  Origin    \* the item an alert is about; any other item is its own origin

VARIABLE standing

Standings == {"absent", "queued", "delivered", "dead"}

Init == standing = [i \in Items |-> "absent"]

Goes(i, from, to) == standing[i] \in from /\ standing'[i] = to

\* An alert needs an origin, and is not raised in the write that delivers it.
Enqueue(i) ==
  /\ Goes(i, {"absent"}, "queued")
  /\ Origin[i] # i => standing[Origin[i]] # "absent" /\ standing'[Origin[i]] # "delivered"

Deliver(i) == Goes(i, {"queued"}, "delivered")
GiveUp(i)  == Goes(i, {"queued"}, "dead")
Requeue(i) == Goes(i, {"dead"}, "queued")

\* One write of the file may move several items.
Write ==
  /\ standing' = [i \in Items |-> standing'[i]]
  /\ \A i \in Items :
       \/ standing'[i] = standing[i]
       \/ Enqueue(i) \/ Deliver(i) \/ GiveUp(i) \/ Requeue(i)

Spec == Init /\ [][Write]_standing
=============================================================================
