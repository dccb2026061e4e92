------------------------ MODULE MCUnattendedRounds ------------------------
(* Instances of UnattendedRounds for TLC. *)
EXTENDS UnattendedRounds

CONSTANTS d1, d2, d3, p1, o1, s1, a1

\* Two of three in turn; one of two, changed after a failure; one and the flaky one with it.
Rotating == [strategy |-> "round_robin", policy |-> "every_round",
             primary |-> <<d1, d2, d3>>, backup |-> <<>>, desired |-> 2]
OnFailure == [strategy |-> "round_robin", policy |-> "failure_only",
              primary |-> <<d1, d2>>, backup |-> <<d3>>, desired |-> 1]
Pinned == [strategy |-> "fixed", policy |-> "every_round",
           primary |-> <<d2>>, backup |-> <<d1, d1>>, desired |-> 2]
SomeSettings == {Rotating, OnFailure, Pinned}

\* Everybody, one after the other; a patrol while pages synchronise the registry; a
\* patrol while an operator configures the task.
OneByOne == [who |-> {p1, o1, s1, a1}, serial |-> TRUE]
WithPages == [who |-> {p1, s1}, serial |-> FALSE]
WithOperator == [who |-> {p1, a1}, serial |-> FALSE]
AllRegimes == {OneByOne, WithPages, WithOperator}

=============================================================================
