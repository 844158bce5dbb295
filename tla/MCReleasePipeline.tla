------------------------- MODULE MCReleasePipeline -------------------------
(* Instances of the release pipeline, and the parts they are made of. *)
EXTENDS ReleasePipeline, TLC

CONSTANTS o1, o2, a1, a2, x, y, h1, h2, s1, s2, r1, r2, r3, r4, r5, r6

(* One base: a beta, two candidates for its clean version, either of which *)
(* the operator may reject, and the commit of the second.                  *)
OneBase == {x}
OneCommit == {h1}
SameBase == [h \in OneCommit |-> x]
OneSha == {s1}
TwoShas == {s1, s2}
ThreeOps == {o1, a1, a2}
Candidates == {a1, a2}
FourRuns == {r1, r2, r3, r4}
Patient == {r1}
FourOps == (r1 :> o1) @@ (r2 :> a1) @@ (r3 :> a2) @@ (r4 :> a2)
FourKinds == (r1 :> "beta") @@ (r2 :> "prepare") @@ (r3 :> "prepare") @@ (r4 :> "commit")
FourCommits == [r \in FourRuns |-> h1]

(* One release id with two runs, the second of which is not interrupted. *)
OneOp == {o1}
TwoRuns == {r1, r2}
Rerun == {r2}
SameOp == [r \in TwoRuns |-> o1]
BothBeta == [r \in TwoRuns |-> "beta"]
BothCommits == [r \in TwoRuns |-> h1]
Never == {}

(* Two bases, each with a beta, a candidate and its commit. *)
TwoBases == {x, y}
TwoCommits == {h1, h2}
AllOps == {o1, o2, a1, a2}
SixRuns == {r1, r2, r3, r4, r5, r6}
SixOps == (r1 :> o1) @@ (r2 :> o2) @@ (r3 :> a1) @@ (r4 :> a2) @@ (r5 :> a1) @@ (r6 :> a2)
SixKinds == (r1 :> "beta") @@ (r2 :> "beta") @@ (r3 :> "prepare") @@ (r4 :> "prepare")
              @@ (r5 :> "commit") @@ (r6 :> "commit")
SixCommits == [r \in SixRuns |-> IF r = r2 THEN h2 ELSE h1]
BaseOf == (h1 :> x) @@ (h2 :> y)

(* One run after another, in any order. *)
OneRunAtATime ==
  \A r \in Run : pc'[r] # pc[r] /\ pc[r] = "idle" =>
    \A q \in Run : pc[q] \in {"idle", "done", "failed"}
=============================================================================
