------------------------- MODULE MCLaunchLifecycle -------------------------
(* One start(), or two start() calls for the same role of one issue. *)
EXTENDS LaunchLifecycle, TLC

CONSTANTS e1, e2, main

TwoStarts == {e1, e2}
OneRole   == {main}
SameRole  == [e \in TwoStarts |-> main]
OneStart  == {e1}
OnlyRole  == [e \in OneStart |-> main]
Executions == Permutations(TwoStarts)
=============================================================================
