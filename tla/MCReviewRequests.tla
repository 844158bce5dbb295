-------------------------- MODULE MCReviewRequests --------------------------
(* Instances of the review lane. *)
EXTENDS ReviewRequests, TLC

CONSTANTS e1, e2, r1, r2, q1, q2, p1, p2, p3

(* A code request posted twice, and a second one of the same execution. *)
OneExec == {e1}
TwoRequests == {r1, r2}
TwoGates == {q1, q2}
ThreePosts == {p1, p2, p3}
SameExec == [r \in TwoRequests |-> e1]
BothCode == [r \in TwoRequests |-> "code"]
OwnGates == (r1 :> q1) @@ (r2 :> q2)
FirstTwice == (p1 :> r1) @@ (p2 :> r1) @@ (p3 :> r2)

(* A code and a design request of two executions. *)
TwoExecs == {e1, e2}
TwoPosts == {p1, p2}
ExecEach == (r1 :> e1) @@ (r2 :> e2)
CodeAndDesign == (r1 :> "code") @@ (r2 :> "design")
OnceEach == (p1 :> r1) @@ (p2 :> r2)
=============================================================================
