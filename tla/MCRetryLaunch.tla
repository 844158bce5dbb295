--------------------------- MODULE MCRetryLaunch ---------------------------
(* One retry request posted up to twice, alone or next to another one. *)
EXTENDS RetryLaunch, TLC

CONSTANTS r1, r2, c1, c2, c3

OneRequest  == {r1}
TwoRequests == {r1, r2}
TwoCalls    == {c1, c2}
ThreeCalls  == {c1, c2, c3}
Same        == [c \in TwoCalls |-> r1]
Split       == [c \in ThreeCalls |-> IF c = c3 THEN r2 ELSE r1]
Reposts     == Permutations(TwoCalls)
=============================================================================
