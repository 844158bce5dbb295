----------------------------- MODULE DagSchedule -----------------------------
(***************************************************************************)
(* What a dispatch of a dependency graph promises, with no loop, map, race *)
(* or semaphore in it: at most MaxConcurrent nodes run, each starts once   *)
(* and only when everything it needs has been released, and what can run   *)
(* does run.                                                               *)
(***************************************************************************)
EXTENDS Naturals, FiniteSets

CONSTANTS Node, MaxConcurrent

VARIABLES
  bypass,  \* does a shelved node release those that need it
  needs,   \* id -> the ids it waits for
  st       \* id -> "waiting" | "running" | "done" | "shelved"

vars == <<bypass, needs, st>>

Running == {n \in Node : st[n] = "running"}

Released(b) == b \in Node /\ (st[b] = "done" \/ (bypass /\ st[b] = "shelved"))

Startable(n) == st[n] = "waiting" /\ \A b \in needs[n] : Released(b)

Init == st = [n \in Node |-> "waiting"]

(* Before anything runs, a need may be lifted from outside the graph. *)
Lift(n) ==
  /\ \A m \in Node : st[m] = "waiting"
  /\ \E b \in needs[n] \ Node : needs' = [needs EXCEPT ![n] = @ \ {b}]
  /\ UNCHANGED <<bypass, st>>

Start(S) ==
  /\ S # {}
  /\ \A n \in S : Startable(n)
  /\ Cardinality(Running \cup S) <= MaxConcurrent
  /\ st' = [n \in Node |-> IF n \in S THEN "running" ELSE st[n]]
  /\ UNCHANGED <<bypass, needs>>

(* A node ends, and its place may go to another in the same moment. *)
End(n, outcome) ==
  /\ st[n] = "running"
  /\ outcome \in {"done", "shelved"}
  /\ \/ st' = [st EXCEPT ![n] = outcome]
     \/ \E m \in Node : /\ Startable(m)
                        /\ st' = [st EXCEPT ![n] = outcome, ![m] = "running"]
  /\ UNCHANGED <<bypass, needs>>

Next ==
  \/ \E n \in Node : Lift(n)
  \/ \E S \in SUBSET Node : Start(S)
  \/ \E n \in Node, outcome \in {"done", "shelved"} : End(n, outcome)

Spec == Init /\ [][Next]_vars

=============================================================================
