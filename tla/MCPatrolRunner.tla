--------------------------- MODULE MCPatrolRunner ---------------------------
(* Instances of PatrolRunner for TLC.  Runners are interchangeable. *)
EXTENDS PatrolRunner, TLC

CONSTANTS r1, r2, r3

AnyRunner == Permutations(Runners)

\* Any runner may die at any step, but starts are orderly.
Calm == [crash |-> TRUE, overlap |-> FALSE, stopping |-> FALSE, torn |-> FALSE, until |-> MaxTime]
\* Starts and stops in any order, half-written heartbeats, no death.
Free == [crash |-> FALSE, overlap |-> TRUE, stopping |-> TRUE, torn |-> TRUE, until |-> 3]
CalmOrFree == {Calm, Free}
\* Nobody dies, and starts are orderly.
Healthy == {[Calm EXCEPT !.crash = FALSE]}
=============================================================================
