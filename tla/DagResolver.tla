----------------------------- MODULE DagResolver -----------------------------
(***************************************************************************)
(* The dependency resolver of packages/dag-resolver: Kahn's algorithm over *)
(* the issues of one dispatch.  A graph maps each node to the list of the  *)
(* ids it is blocked by; an id may be unknown (External), and a list may   *)
(* name an id twice, since nothing in the code removes duplicates.         *)
(***************************************************************************)
EXTENDS Naturals, Sequences, FiniteSets

CONSTANTS
  Node,         \* the ids of the graph's nodes
  External,     \* blocker ids that are not nodes of the graph
  Graphs        \* the graphs a caller may construct a resolver with

ASSUME NodeAssumption     == IsFiniteSet(Node)
ASSUME ExternalAssumption == Node \cap External = {}
ASSUME GraphsAssumption   == Graphs \subseteq [Node -> Seq(Node \cup External)]

VARIABLES
  graph,      \* nodes: id -> blockedBy
  bypass,     \* options.allowBypassBlockers
  status,     \* id -> "pending" | "done" | "shelved"
  inDegree,   \* id -> number of blockers not yet released
  resolved    \* resolvedExternalBlockers: id -> external ids

resolverVars == <<graph, bypass, status, inDegree, resolved>>

(* The distinct ids in n.blockedBy. *)
Blockers(g, n) == {g[n][i] : i \in 1 .. Len(g[n])}

(* A bug: ids outside the graph count as if they could be visited. *)
KnownCountAll(g, n) == Len(g[n])

(* node.blockedBy.filter((id) => this.nodes.has(id)).length *)
KnownCount(g, n) == Cardinality({i \in 1 .. Len(g[n]) : g[n][i] \in Node})

(***************************************************************************)
(* validateNoCycles: a node is visited once its count of known blockers,   *)
(* less one per visited distinct blocker, is exactly zero.  Layers of the  *)
(* breadth-first queue are taken together.                                 *)
(***************************************************************************)
Freed(g, L) ==
  {n \in Node : KnownCount(g, n) = Cardinality(Blockers(g, n) \cap L)}

Visited(g) ==
  LET layer[k \in Nat] == IF k = 0 THEN {} ELSE Freed(g, layer[k - 1])
  IN layer[Cardinality(Node)]

Accepts(g) == Visited(g) = Node

(* The constructor's second pass: known and unknown blockers both count. *)
InitialDegrees(g) == [n \in Node |-> Len(g[n])]

(* getReady *)
Ready == {n \in Node : inDegree[n] = 0 /\ status[n] = "pending"}

(* remaining *)
Remaining == {n \in Node : status[n] = "pending"}

(* decrementDownstream *)
Decremented(id) ==
  [n \in Node |->
     IF id \in Blockers(graph, n) /\ inDegree[n] > 0
     THEN inDegree[n] - 1 ELSE inDegree[n]]

(* markDone: a node that is no longer pending is left alone. *)
MarkDone(id) ==
  /\ IF status[id] = "pending"
     THEN /\ status' = [status EXCEPT ![id] = "done"]
          /\ inDegree' = Decremented(id)
     ELSE UNCHANGED <<status, inDegree>>
  /\ UNCHANGED <<graph, bypass, resolved>>

(* A bug: a shelved node releases its dependents whatever the option says. *)
ShelveReleases(id) ==
  /\ IF status[id] = "pending"
     THEN /\ status' = [status EXCEPT ![id] = "shelved"]
          /\ inDegree' = Decremented(id)
     ELSE UNCHANGED <<status, inDegree>>
  /\ UNCHANGED <<graph, bypass, resolved>>

(* shelve *)
Shelve(id) ==
  /\ IF status[id] = "pending"
     THEN /\ status' = [status EXCEPT ![id] = "shelved"]
          /\ inDegree' = IF bypass THEN Decremented(id) ELSE inDegree
     ELSE UNCHANGED <<status, inDegree>>
  /\ UNCHANGED <<graph, bypass, resolved>>

(* A bug: a second call for the same blocker counts down again. *)
ResolveNotIdempotent(n, b) ==
  /\ b \in Blockers(graph, n) \ Node
  /\ resolved' = [resolved EXCEPT ![n] = @ \cup {b}]
  /\ inDegree' = [inDegree EXCEPT ![n] = IF @ > 0 THEN @ - 1 ELSE @]
  /\ UNCHANGED <<graph, bypass, status>>

(* resolveExternalBlocker, idempotent per (node, blocker). *)
ResolveExternalBlocker(n, b) ==
  /\ b \in Blockers(graph, n) \ Node
  /\ b \notin resolved[n]
  /\ resolved' = [resolved EXCEPT ![n] = @ \cup {b}]
  /\ inDegree' = [inDegree EXCEPT ![n] = IF @ > 0 THEN @ - 1 ELSE @]
  /\ UNCHANGED <<graph, bypass, status>>

(* What "released" means to a node n waiting for blocker b. *)
Released(n, b) ==
  \/ b \in resolved[n]
  \/ b \in Node /\ status[b] = "done"
  \/ b \in Node /\ bypass /\ status[b] = "shelved"

=============================================================================
