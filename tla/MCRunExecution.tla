--------------------------- MODULE MCRunExecution ---------------------------
(* Instances of RunExecution for TLC: who calls what, on which service. *)
EXTENDS RunExecution

CONSTANTS e1, e2, s1, a, b

OneService == [c \in Calls |-> a]
\* The second execute_run and every stop_run are made in another process.
TwoServices == [c \in Calls |-> IF c = e1 THEN a ELSE b]
=============================================================================
