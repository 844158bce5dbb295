-------------------------- MODULE DagDispatchProofs --------------------------
(***************************************************************************)
(* Safety of a dispatch for any finite set of nodes, any graphs over it    *)
(* and any number of slots.                                                *)
(***************************************************************************)
EXTENDS DagDispatch, FiniteSetTheorems, SequenceTheorems, WellFoundedInduction, TLAPS

(* What n still waits for. *)
Unreleased(n) == {b \in Blockers(graph, n) : ~Released(n, b)}

(***************************************************************************)
(* The dispatcher's map and the resolver's status follow the tasks.        *)
(***************************************************************************)
TasksTracked ==
  \A n \in Node :
    /\ task[n] = "idle" <=> n \notin scheduled
    /\ status[n] = "pending" <=> task[n] # "settled"
    /\ task[n] \in {"queued", "running"} => n \in inflight

(***************************************************************************)
(* A node's in-degree covers what it still waits for; without duplicates   *)
(* it is its number.                                                       *)
(***************************************************************************)
DebtCovered(n) ==
  /\ Cardinality(Unreleased(n)) <= inDegree[n]
  /\ NoDuplicates(graph) => Cardinality(Unreleased(n)) = inDegree[n]

Debts == pc \notin {"new", "rejected"} => \A n \in Node : DebtCovered(n)

(* Nothing has happened before the constructor and before dispatch(). *)
Untouched ==
  /\ pc = "new" => \A n \in Node : resolved[n] = {}
  /\ pc \in {"new", "rejected", "built"} => scheduled = {}

(* Once the loop is left, nothing can become ready any more. *)
LoopLeft ==
  /\ pc \in {"settle", "done"} =>
       Remaining = {} \/ (Ready \subseteq scheduled /\ inflight = {})
  /\ pc = "done" => inflight = {}

Inv ==
  /\ TypeOK /\ TasksTracked /\ Debts /\ Untouched /\ LoopLeft
  /\ SlotsAccounted /\ BlockersReleasedFirst

-----------------------------------------------------------------------------
(* Facts about graphs, sets and sequences. *)

(* Every node's list is a finite sequence of ids. *)
LEMMA Lists ==
  ASSUME NEW g \in Graphs, NEW n \in Node
  PROVE  g[n] \in Seq(Node \cup External)
BY GraphsAssumption

(* ... so what it names is finite, and no more than its length. *)
LEMMA BlockersCounted ==
  ASSUME NEW g \in Graphs, NEW n \in Node
  PROVE  /\ IsFiniteSet(Blockers(g, n))
         /\ Cardinality(Blockers(g, n)) <= Len(g[n])
         /\ NoDuplicates(g) => Cardinality(Blockers(g, n)) = Len(g[n])
<1> DEFINE I == 1 .. Len(g[n])
           f == [i \in I |-> g[n][i]]
<1>1. Len(g[n]) \in Nat
  BY Lists
<1>2. IsFiniteSet(I) /\ Cardinality(I) = Len(g[n])
  BY <1>1, FS_Interval
<1>3. f \in Surjection(I, Blockers(g, n))
  BY DEF Blockers, Surjection
<1>4. /\ IsFiniteSet(Blockers(g, n))
      /\ Cardinality(Blockers(g, n)) <= Cardinality(I)
      /\ Cardinality(Blockers(g, n)) = Cardinality(I) <=> f \in Injection(I, Blockers(g, n))
  <2> HIDE DEF I, f
  <2> QED
    BY <1>2, <1>3, FS_Surjection
<1>5. NoDuplicates(g) => f \in Injection(I, Blockers(g, n))
  BY <1>3 DEF NoDuplicates, Injection, IsInjective, Surjection
<1> QED
  BY <1>2, <1>4, <1>5

(* A batch lists every node of its set exactly once. *)
LEMMA BatchShape ==
  ASSUME NEW S, IsFiniteSet(S), NEW batch \in Orders(S)
  PROVE  /\ batch \in Seq(S) /\ Len(batch) = Cardinality(S)
         /\ \A n \in S : \E i \in 1 .. Len(batch) : batch[i] = n
         /\ \A i, j \in 1 .. Len(batch) : batch[i] = batch[j] => i = j
<1> DEFINE I == 1 .. Cardinality(S)
<1>1. Cardinality(S) \in Nat
  BY FS_CardinalityType
<1>2. batch \in [I -> S] /\ \A i, j \in I : batch[i] = batch[j] => i = j
  BY DEF Orders
<1>3. batch \in Seq(S) /\ Len(batch) = Cardinality(S)
  BY <1>1, <1>2
<1>4. IsFiniteSet(I) /\ Cardinality(I) = Cardinality(S)
  BY <1>1, FS_Interval
<1>5. batch \in Injection(I, S)
  BY <1>2 DEF Injection, IsInjective
<1>6. batch \in Surjection(I, S)
  <2> HIDE DEF I
  <2> QED
    BY <1>4, <1>5, FS_Injection
<1> QED
  BY <1>2, <1>3, <1>6 DEF Surjection

(* Sets of nodes are finite. *)
LEMMA NodesFinite ==
  ASSUME NEW S, S \subseteq Node
  PROVE  IsFiniteSet(S) /\ Cardinality(S) \in Nat
BY NodeAssumption, FS_Subset, FS_CardinalityType

(* The first k of a batch, as a set. *)
LEMMA FirstOfBatch ==
  ASSUME NEW S, IsFiniteSet(S), NEW batch \in Orders(S), NEW k \in Nat, k <= Len(batch)
  PROVE  Cardinality({batch[i] : i \in 1 .. k}) = k
<1> DEFINE I == 1 .. k
           T == {batch[i] : i \in I}
           f == [i \in I |-> batch[i]]
<1>1. IsFiniteSet(I) /\ Cardinality(I) = k
  BY FS_Interval
<1>2. f \in Surjection(I, T)
  BY DEF Surjection
<1>3. Len(batch) \in Nat /\ \A i, j \in 1 .. Len(batch) : batch[i] = batch[j] => i = j
  BY BatchShape
<1>4. f \in Injection(I, T)
  BY <1>2, <1>3 DEF Injection, IsInjective, Surjection
<1>5. Cardinality(T) = Cardinality(I)
  <2> HIDE DEF I, T, f
  <2> QED
    BY <1>1, <1>2, <1>4, FS_Surjection
<1> QED
  BY <1>1, <1>5

-----------------------------------------------------------------------------
(* The resolver: what its three operations do to debts and releases. *)

(* What a node waits for is finite. *)
LEMMA UnreleasedFinite ==
  ASSUME TypeOK, NEW n \in Node
  PROVE  IsFiniteSet(Unreleased(n)) /\ Cardinality(Unreleased(n)) \in Nat
<1>1. IsFiniteSet(Blockers(graph, n)) /\ Unreleased(n) \subseteq Blockers(graph, n)
  BY BlockersCounted DEF TypeOK, Unreleased
<1> QED
  BY <1>1, FS_Subset, FS_CardinalityType

(* Releasing b for a node that waits for it, and taking one off its        *)
(* in-degree, keeps its debt covered.                                      *)
LEMMA OneReleased ==
  ASSUME TypeOK, NEW n \in Node, NEW b, DebtCovered(n), graph' = graph,
         Unreleased(n)' = Unreleased(n) \ {b},
         inDegree'[n] = IF b \in Unreleased(n) /\ inDegree[n] > 0
                        THEN inDegree[n] - 1 ELSE inDegree[n]
  PROVE  DebtCovered(n)'
<1>1. IsFiniteSet(Unreleased(n)) /\ Cardinality(Unreleased(n)) \in Nat
  BY UnreleasedFinite
<1>2. Cardinality(Unreleased(n)') =
        IF b \in Unreleased(n) THEN Cardinality(Unreleased(n)) - 1 ELSE Cardinality(Unreleased(n))
  BY <1>1, FS_RemoveElement
<1>3. b \in Unreleased(n) => Cardinality(Unreleased(n)) # 0
  BY <1>1, FS_EmptySet
<1>4. inDegree[n] \in Nat
  BY DEF TypeOK
<1> QED
  <2> HIDE DEF Unreleased
  <2> QED
    BY <1>1, <1>2, <1>3, <1>4 DEF DebtCovered, NoDuplicates

(* A node's end: its dependents are released, or nothing changes for them. *)
LEMMA EndKeepsDebts ==
  ASSUME TypeOK, NEW id \in Node, status[id] = "pending",
         MarkDone(id) \/ Shelve(id), \A n \in Node : DebtCovered(n)
  PROVE  \A n \in Node : DebtCovered(n)'
<1> SUFFICES ASSUME NEW n \in Node PROVE DebtCovered(n)'
  OBVIOUS
<1>1. graph' = graph /\ bypass' = bypass /\ resolved' = resolved
  BY DEF MarkDone, Shelve
<1>2. id \notin External /\ resolved[n] \subseteq External
  BY ExternalAssumption DEF TypeOK
<1>3. CASE MarkDone(id) \/ bypass
  <2>1. /\ status' = [status EXCEPT ![id] = "done"] \/ (bypass /\ status' = [status EXCEPT ![id] = "shelved"])
        /\ inDegree' = Decremented(id)
    BY <1>3 DEF MarkDone, Shelve
  <2>2. Unreleased(n)' = Unreleased(n) \ {id}
    BY <1>1, <1>2, <2>1 DEF Unreleased, Released, Blockers, TypeOK
  <2>3. id \in Unreleased(n) <=> id \in Blockers(graph, n)
    BY <1>2 DEF Unreleased, Released
  <2>4. inDegree'[n] = IF id \in Unreleased(n) /\ inDegree[n] > 0
                       THEN inDegree[n] - 1 ELSE inDegree[n]
    BY <2>1, <2>3 DEF Decremented
  <2> QED
    BY <1>1, <2>2, <2>4, OneReleased
<1>4. CASE ~(MarkDone(id) \/ bypass)
  <2>1. status' = [status EXCEPT ![id] = "shelved"] /\ inDegree' = inDegree
    BY <1>4 DEF Shelve
  <2>2. Unreleased(n)' = Unreleased(n)
    BY <1>1, <1>4, <2>1 DEF Unreleased, Released, Blockers, TypeOK
  <2> QED
    BY <1>1, <2>1, <2>2 DEF DebtCovered, NoDuplicates
<1> QED
  BY <1>3, <1>4

(* Resolving an unknown blocker releases it for one node. *)
LEMMA ResolveKeepsDebts ==
  ASSUME TypeOK, NEW m \in Node, NEW b \in External,
         ResolveExternalBlocker(m, b), \A n \in Node : DebtCovered(n)
  PROVE  \A n \in Node : DebtCovered(n)'
<1> SUFFICES ASSUME NEW n \in Node PROVE DebtCovered(n)'
  OBVIOUS
<1>1. graph' = graph /\ bypass' = bypass /\ status' = status
  BY DEF ResolveExternalBlocker
<1>2. b \notin Node
  BY ExternalAssumption
<1>3. CASE n = m
  <2>1. Unreleased(n)' = Unreleased(n) \ {b}
    BY <1>1, <1>3 DEF Unreleased, Released, Blockers, ResolveExternalBlocker, TypeOK
  <2>2. b \in Unreleased(n)
    BY <1>2, <1>3 DEF Unreleased, Released, ResolveExternalBlocker
  <2>3. inDegree'[n] = IF inDegree[n] > 0 THEN inDegree[n] - 1 ELSE inDegree[n]
    BY <1>3 DEF ResolveExternalBlocker, TypeOK
  <2> QED
    BY <1>1, <2>1, <2>2, <2>3, OneReleased
<1>4. CASE n # m
  <2>1. Unreleased(n)' = Unreleased(n) /\ inDegree'[n] = inDegree[n]
    BY <1>1, <1>4 DEF Unreleased, Released, Blockers, ResolveExternalBlocker, TypeOK
  <2> QED
    BY <1>1, <2>1 DEF DebtCovered, NoDuplicates
<1> QED
  BY <1>3, <1>4

(* What has been released stays released. *)
LEMMA ReleasedForGood ==
  ASSUME TypeOK, NEW id, NEW x,
         \/ MarkDone(id) \/ Shelve(id)
         \/ ResolveExternalBlocker(id, x) \/ UNCHANGED resolverVars,
         NEW n \in Node, NEW b, Released(n, b)
  PROVE  Released(n, b)'
<1>1. CASE MarkDone(id) \/ Shelve(id)
  BY <1>1 DEF MarkDone, Shelve, Released, TypeOK
<1>2. CASE ResolveExternalBlocker(id, x)
  BY <1>2 DEF ResolveExternalBlocker, Released, TypeOK
<1>3. CASE UNCHANGED resolverVars
  BY <1>3 DEF resolverVars, Released
<1> QED
  BY <1>1, <1>2, <1>3

(* A ready node waits for nothing. *)
LEMMA ReadyIsReleased ==
  ASSUME TypeOK, NEW n \in Ready, DebtCovered(n)
  PROVE  \A b \in Blockers(graph, n) : Released(n, b)
<1>1. n \in Node /\ inDegree[n] = 0
  BY DEF Ready
<1>2. IsFiniteSet(Unreleased(n)) /\ Cardinality(Unreleased(n)) \in Nat
  BY <1>1, UnreleasedFinite
<1>3. Cardinality(Unreleased(n)) = 0
  BY <1>1, <1>2 DEF DebtCovered
<1>4. Unreleased(n) = {}
  BY <1>2, <1>3, FS_EmptySet
<1> QED
  BY <1>4 DEF Unreleased

(* Without duplicates, a pending node that is not ready waits for          *)
(* something.                                                              *)
LEMMA NotReadyWaits ==
  ASSUME TypeOK, NEW n \in Remaining, n \notin Ready, DebtCovered(n), NoDuplicates(graph)
  PROVE  \E b \in Blockers(graph, n) : ~Released(n, b)
<1>1. n \in Node /\ inDegree[n] # 0
  BY DEF Ready, Remaining
<1>2. Cardinality(Unreleased(n)) # 0
  BY <1>1 DEF DebtCovered
<1>3. Unreleased(n) # {}
  BY <1>2, FS_EmptySet
<1> QED
  BY <1>3 DEF Unreleased

-----------------------------------------------------------------------------
(* The semaphore. *)

(* A batch takes the free slots in order and leaves the rest in the queue. *)
LEMMA BatchBooks ==
  ASSUME TypeOK, TasksTracked, SlotsAccounted, DispatchReady
  PROVE  SlotsAccounted' /\ count' \in Nat /\ queue' \in Seq(Node)
<1> DEFINE new == NewlyReady
<1>1. new \subseteq Node /\ IsFiniteSet(new) /\ \A n \in new : task[n] = "idle"
  BY NodesFinite DEF NewlyReady, Ready, TasksTracked
<1>2. PICK batch \in Orders(new) :
        LET taken == Least(FreeSlots, Len(batch))
        IN /\ count' = count + taken
           /\ queue' = queue \o SubSeq(batch, taken + 1, Len(batch))
           /\ task' = [n \in Node |->
                IF n \notin new THEN task[n]
                ELSE IF \E i \in 1 .. taken : batch[i] = n THEN "running" ELSE "queued"]
  BY DEF DispatchReady
<1> DEFINE taken == Least(FreeSlots, Len(batch))
           first == {batch[i] : i \in 1 .. taken}
           rest  == SubSeq(batch, taken + 1, Len(batch))
<1>3. /\ batch \in Seq(new) /\ Len(batch) \in Nat
      /\ \A n \in new : \E i \in 1 .. Len(batch) : batch[i] = n
      /\ \A i, j \in 1 .. Len(batch) : batch[i] = batch[j] => i = j
  BY <1>1, BatchShape
<1>4. /\ taken \in Nat /\ taken <= Len(batch)
      /\ taken <= MaxConcurrent - count
      /\ taken < Len(batch) => taken = MaxConcurrent - count
  BY <1>3, MaxAssumption DEF Least, FreeSlots, SlotsAccounted, TypeOK
<1>5. Cardinality(first) = taken
  BY <1>1, <1>3, <1>4, FirstOfBatch
<1>6. first \subseteq new
  BY <1>3, <1>4
<1>7. /\ task' = [n \in Node |-> IF n \notin new THEN task[n]
                               ELSE IF n \in first THEN "running" ELSE "queued"]
      /\ count' = count + taken /\ queue' = queue \o rest
  BY <1>2
<1>8. /\ rest \in Seq(Node) /\ Len(rest) = Len(batch) - taken
      /\ \A i \in 1 .. Len(rest) : rest[i] = batch[i + taken]
  <2>1. \A i \in taken + 1 .. Len(batch) : batch[i] \in Node
    BY <1>1, <1>3, <1>4
  <2> HIDE DEF taken
  <2>2. /\ rest \in Seq(Node)
        /\ Len(rest) = IF taken + 1 <= Len(batch) THEN Len(batch) - (taken + 1) + 1 ELSE 0
        /\ \A i \in 1 .. Len(batch) - (taken + 1) + 1 : rest[i] = batch[(taken + 1) + i - 1]
    BY <1>3, <1>4, <2>1, SubSeqProperties
  <2> QED
    BY <1>3, <1>4, <2>2
<1> HIDE DEF new, taken, first, rest
<1>9. count' = Cardinality(Running')
  <2>1. Running' = Running \cup first /\ Running \cap first = {}
    BY <1>1, <1>6, <1>7 DEF Running, TypeOK
  <2>2. IsFiniteSet(Running) /\ IsFiniteSet(first) /\ Cardinality(Running) \in Nat
    BY <1>1, <1>6, NodesFinite DEF Running
  <2>3. Cardinality(Running \cup first) = Cardinality(Running) + Cardinality(first) - Cardinality({})
    BY <2>1, <2>2, FS_Union
  <2> QED
    BY <1>4, <1>5, <1>7, <2>1, <2>2, <2>3, FS_EmptySet DEF SlotsAccounted
<1>10. count' <= MaxConcurrent
  BY <1>4, <1>7, MaxAssumption DEF TypeOK
<1>11. queue' # << >> => count' = MaxConcurrent
  <2>1. queue = << >> /\ taken = Len(batch) => queue' = << >>
    BY <1>3, <1>7, <1>8
  <2>2. queue # << >> => taken = 0 /\ count' = MaxConcurrent
    BY <1>4, <1>7, MaxAssumption DEF SlotsAccounted, TypeOK
  <2> QED
    BY <1>3, <1>4, <1>7, <2>1, <2>2, MaxAssumption DEF TypeOK
<1>12. /\ Len(queue') = Len(queue) + Len(rest) /\ Len(queue) \in Nat /\ Len(rest) \in Nat
       /\ \A i \in 1 .. Len(queue) : queue'[i] = queue[i]
       /\ \A i \in 1 .. Len(rest) : queue'[Len(queue) + i] = batch[i + taken]
  <2>1. queue \in Seq(Node) /\ rest \in Seq(Node)
    BY <1>8 DEF TypeOK
  <2>2. /\ Len(queue') = Len(queue) + Len(rest)
        /\ \A i \in 1 .. Len(queue) + Len(rest) :
             queue'[i] = IF i <= Len(queue) THEN queue[i] ELSE rest[i - Len(queue)]
    BY <1>7, <2>1, ConcatProperties
  <2>3. \A i \in 1 .. Len(rest) : queue'[Len(queue) + i] = rest[i]
    BY <2>1, <2>2
  <2> QED
    BY <1>8, <2>1, <2>2, <2>3
<1>13. \A i \in 1 .. Len(queue) : queue[i] \in Node /\ task[queue[i]] = "queued"
  BY DEF SlotsAccounted, TypeOK
<1>14. \A i \in 1 .. Len(rest) : batch[i + taken] \in new /\ batch[i + taken] \notin first
  <2> TAKE i \in 1 .. Len(rest)
  <2>1. i + taken \in 1 .. Len(batch)
    BY <1>3, <1>4, <1>8
  <2>2. batch[i + taken] \in new
    BY <1>3, <2>1
  <2>3. \A j \in 1 .. taken : batch[j] # batch[i + taken]
    BY <1>3, <1>4, <2>1
  <2> QED
    BY <2>2, <2>3 DEF first
<1>15. \A n \in Node : task'[n] = "queued" => \E i \in 1 .. Len(queue') : queue'[i] = n
  <2> SUFFICES ASSUME NEW n \in Node, task'[n] = "queued"
               PROVE  \E i \in 1 .. Len(queue') : queue'[i] = n
    OBVIOUS
  <2>1. CASE n \notin new
    <3>1. PICK i \in 1 .. Len(queue) : queue[i] = n
      BY <1>7, <2>1 DEF SlotsAccounted
    <3> QED
      BY <1>12, <3>1
  <2>2. CASE n \in new
    <3>1. n \notin first
      BY <1>7, <2>2
    <3>2. PICK j \in 1 .. Len(batch) : batch[j] = n
      BY <1>3, <2>2
    <3>3. j > taken
      BY <1>4, <3>1, <3>2 DEF first
    <3>4. j - taken \in 1 .. Len(rest) /\ (j - taken) + taken = j
      BY <1>3, <1>4, <1>8, <3>3
    <3>5. Len(queue) + (j - taken) \in 1 .. Len(queue')
      BY <1>12, <3>4
    <3> QED
      BY <1>12, <3>2, <3>4, <3>5
  <2> QED
    BY <2>1, <2>2
<1>16. \A i \in 1 .. Len(queue') :
         \/ i \in 1 .. Len(queue)
         \/ i - Len(queue) \in 1 .. Len(rest) /\ queue'[i] = batch[(i - Len(queue)) + taken]
  BY <1>12
<1>17. \A i \in 1 .. Len(queue') : queue'[i] \in Node /\ task'[queue'[i]] = "queued"
  BY <1>1, <1>7, <1>12, <1>13, <1>14, <1>16
<1>18. \A i, j \in 1 .. Len(queue') : queue'[i] = queue'[j] => i = j
  <2> SUFFICES ASSUME NEW i \in 1 .. Len(queue'), NEW j \in 1 .. Len(queue'), queue'[i] = queue'[j]
               PROVE  i = j
    OBVIOUS
  <2>1. CASE i \in 1 .. Len(queue) /\ j \in 1 .. Len(queue)
    BY <1>12, <2>1 DEF SlotsAccounted
  <2>2. CASE i \notin 1 .. Len(queue) /\ j \notin 1 .. Len(queue)
    <3>1. (i - Len(queue)) + taken \in 1 .. Len(batch) /\ (j - Len(queue)) + taken \in 1 .. Len(batch)
      BY <1>4, <1>8, <1>12, <1>16, <2>2
    <3>2. (i - Len(queue)) + taken = (j - Len(queue)) + taken
      BY <1>3, <1>16, <2>2, <3>1
    <3> QED
      BY <1>4, <1>12, <3>2
  <2>3. CASE i \in 1 .. Len(queue) /\ j \notin 1 .. Len(queue)
    BY <1>1, <1>12, <1>13, <1>14, <1>16, <2>3
  <2>4. CASE i \notin 1 .. Len(queue) /\ j \in 1 .. Len(queue)
    BY <1>1, <1>12, <1>13, <1>14, <1>16, <2>4
  <2> QED
    BY <2>1, <2>2, <2>3, <2>4
<1>19. count' \in Nat /\ queue' \in Seq(Node)
  BY <1>4, <1>7, <1>8, ConcatProperties DEF TypeOK
<1> QED
  BY <1>9, <1>10, <1>11, <1>15, <1>17, <1>18, <1>19 DEF SlotsAccounted

(* A node that ends gives its slot to the oldest waiter, or back. *)
LEMMA ReleaseBooks ==
  ASSUME TypeOK, SlotsAccounted, NEW n \in Node, task[n] = "running", Release(n)
  PROVE  /\ SlotsAccounted' /\ count' \in Nat /\ queue' \in Seq(Node)
         /\ task' \in [Node -> Task]
         /\ \A m \in Node : \/ m = n /\ task'[m] = "settled"
                            \/ m # n /\ task'[m] = task[m]
                            \/ m # n /\ task[m] = "queued" /\ task'[m] = "running"
<1>1. IsFiniteSet(Running) /\ Cardinality(Running) \in Nat /\ n \in Running
  BY NodesFinite DEF Running
<1>2. IsFiniteSet(Running \ {n}) /\ Cardinality(Running \ {n}) = Cardinality(Running) - 1
  BY <1>1, FS_RemoveElement
<1>3. \A i \in 1 .. Len(queue) : queue[i] \in Node /\ task[queue[i]] = "queued"
  BY DEF SlotsAccounted, TypeOK
<1>4. CASE queue = << >>
  <2>1. queue' = << >> /\ task' = [task EXCEPT ![n] = "settled"]
    BY <1>4 DEF Release
  <2>2. Running' = Running \ {n}
    BY <2>1 DEF Running, TypeOK
  <2>3. count > 0 /\ count' = count - 1
    BY <1>1, <1>2, <1>4, FS_EmptySet DEF Release, SlotsAccounted
  <2>4. count' = Cardinality(Running')
    BY <1>2, <2>2, <2>3 DEF SlotsAccounted
  <2> QED
    BY <1>4, <2>1, <2>3, <2>4, MaxAssumption DEF SlotsAccounted, TypeOK, Task
<1>5. CASE queue # << >>
  <2> DEFINE h == Head(queue)
  <2>1. /\ Len(queue) \in Nat \ {0} /\ h = queue[1] /\ Len(Tail(queue)) = Len(queue) - 1
        /\ \A i \in 1 .. Len(queue) - 1 : Tail(queue)[i] = queue[i + 1]
    BY <1>5 DEF TypeOK
  <2>2. h \in Node /\ task[h] = "queued"
    BY <1>3, <2>1
  <2>3. /\ queue' = Tail(queue) /\ count' = count
        /\ task' = [task EXCEPT ![n] = "settled", ![h] = "running"]
    BY <1>5 DEF Release
  <2> HIDE DEF h
  <2>4. Running' = (Running \ {n}) \cup {h} /\ h \notin Running \ {n}
    BY <2>2, <2>3 DEF Running, TypeOK
  <2>5. count' = Cardinality(Running')
    <3>1. Cardinality((Running \ {n}) \cup {h}) = Cardinality(Running \ {n}) + 1
      BY <1>2, <2>4, FS_AddElement
    <3> QED
      BY <1>1, <1>2, <2>3, <2>4, <3>1 DEF SlotsAccounted
  <2>6. \A m \in Node : task'[m] = "queued" <=> task[m] = "queued" /\ m # h
    BY <2>2, <2>3 DEF TypeOK
  <2>7. \A m \in Node : task'[m] = "queued" => \E i \in 1 .. Len(queue') : queue'[i] = m
    <3> SUFFICES ASSUME NEW m \in Node, task'[m] = "queued"
                 PROVE  \E i \in 1 .. Len(queue') : queue'[i] = m
      OBVIOUS
    <3>1. PICK i \in 1 .. Len(queue) : queue[i] = m
      BY <2>6 DEF SlotsAccounted
    <3>2. i # 1
      BY <2>1, <2>6, <3>1
    <3>3. i - 1 \in 1 .. Len(queue') /\ (i - 1) + 1 = i
      BY <2>1, <2>3, <3>2
    <3> QED
      BY <2>1, <2>3, <3>1, <3>3
  <2>8. \A i \in 1 .. Len(queue') : i + 1 \in 1 .. Len(queue) /\ queue'[i] = queue[i + 1] /\ i + 1 # 1
    BY <2>1, <2>3
  <2>9. \A i \in 1 .. Len(queue') : queue'[i] \in Node /\ task'[queue'[i]] = "queued"
    BY <1>3, <2>1, <2>6, <2>8 DEF SlotsAccounted
  <2>10. \A i, j \in 1 .. Len(queue') : queue'[i] = queue'[j] => i = j
    BY <2>8 DEF SlotsAccounted
  <2>11. queue' # << >> => count' = MaxConcurrent
    BY <1>5, <2>3 DEF SlotsAccounted
  <2>12. SlotsAccounted'
    BY <2>3, <2>5, <2>7, <2>9, <2>10, <2>11 DEF SlotsAccounted
  <2>13. queue' \in Seq(Node)
    BY <1>5, <2>3, HeadTailProperties DEF TypeOK
  <2> QED
    BY <2>2, <2>3, <2>12, <2>13 DEF TypeOK, Task
<1> QED
  BY <1>4, <1>5

-----------------------------------------------------------------------------
(* The inductive invariant. *)

(* Nothing has been touched. *)
LEMMA InvInit == Init => Inv
<1> SUFFICES ASSUME Init PROVE Inv
  OBVIOUS
<1>1. TypeOK
  BY DEF Init, TypeOK, PC, Task
<1>2. Running = {} /\ Cardinality(Running) = 0
  BY FS_EmptySet DEF Init, Running
<1>3. SlotsAccounted
  BY <1>2, MaxAssumption DEF Init, SlotsAccounted
<1>4. TasksTracked /\ Debts /\ Untouched /\ LoopLeft /\ BlockersReleasedFirst
  BY DEF Init, TasksTracked, Debts, Untouched, LoopLeft, BlockersReleasedFirst
<1> QED
  BY <1>1, <1>3, <1>4 DEF Inv

(* A step that leaves tasks and semaphore alone leaves the books alone. *)
LEMMA SameBooks ==
  ASSUME SlotsAccounted, UNCHANGED <<task, count, queue>>
  PROVE  SlotsAccounted'
BY DEF SlotsAccounted, Running

(* A step that leaves the resolver alone leaves debts and releases alone. *)
LEMMA SameResolver ==
  ASSUME UNCHANGED resolverVars
  PROVE  /\ \A n \in Node : DebtCovered(n) => DebtCovered(n)'
         /\ \A n, b : Released(n, b) => Released(n, b)'
         /\ \A n \in Node : Blockers(graph', n) = Blockers(graph, n)
         /\ Ready' = Ready /\ Remaining' = Remaining
BY DEF resolverVars, DebtCovered, Unreleased, Released, Blockers, Ready, Remaining, NoDuplicates

(* The constructor: every entry of a list is one debt. *)
LEMMA ConstructInv ==
  ASSUME Inv, Construct
  PROVE  Inv'
<1> USE DEF Inv
<1>1. /\ UNCHANGED <<graph, bypass, status, resolved, dispatcherVars>>
      /\ pc = "new" /\ pc' \in {"built", "rejected"}
      /\ pc' = "built" => inDegree' = InitialDegrees(graph)
      /\ pc' = "rejected" => inDegree' = inDegree
  BY DEF Construct
<1>2. InitialDegrees(graph) \in [Node -> Nat]
  <2>1. \A n \in Node : Len(graph[n]) \in Nat
    BY Lists DEF TypeOK
  <2> QED
    BY <2>1 DEF InitialDegrees
<1>3. TypeOK'
  BY <1>1, <1>2 DEF TypeOK, PC, dispatcherVars
<1>4. TasksTracked' /\ Untouched' /\ LoopLeft' /\ BlockersReleasedFirst'
  BY <1>1 DEF TasksTracked, Untouched, LoopLeft, BlockersReleasedFirst, dispatcherVars
<1>5. SlotsAccounted'
  BY <1>1, SameBooks DEF dispatcherVars
<1>6. Debts'
  <2> SUFFICES ASSUME pc' = "built", NEW n \in Node PROVE DebtCovered(n)'
    BY <1>1 DEF Debts
  <2>1. \A b : ~Released(n, b)'
    BY <1>1 DEF Untouched, TasksTracked, Released, dispatcherVars
  <2>2. Unreleased(n)' = Blockers(graph, n)
    BY <1>1, <2>1 DEF Unreleased, Blockers
  <2>3. inDegree'[n] = Len(graph[n])
    BY <1>1 DEF InitialDegrees
  <2>4. /\ Cardinality(Blockers(graph, n)) <= Len(graph[n])
        /\ NoDuplicates(graph) => Cardinality(Blockers(graph, n)) = Len(graph[n])
    BY BlockersCounted DEF TypeOK
  <2> QED
    BY <1>1, <2>2, <2>3, <2>4 DEF DebtCovered, NoDuplicates
<1> QED
  BY <1>3, <1>4, <1>5, <1>6

(* An unknown blocker is resolved before the dispatch. *)
LEMMA ResolveInv ==
  ASSUME Inv, NEW n \in Node, NEW b \in External, ResolveExternal(n, b)
  PROVE  Inv'
<1> USE DEF Inv
<1>1. /\ pc = "built" /\ UNCHANGED <<pc, graph, bypass, status, dispatcherVars>>
      /\ ResolveExternalBlocker(n, b)
  BY DEF ResolveExternal, ResolveExternalBlocker
<1>2. TypeOK'
  BY <1>1 DEF TypeOK, dispatcherVars, ResolveExternalBlocker
<1>3. TasksTracked' /\ Untouched' /\ LoopLeft' /\ BlockersReleasedFirst'
  BY <1>1 DEF TasksTracked, Untouched, LoopLeft, BlockersReleasedFirst, dispatcherVars
<1>4. SlotsAccounted'
  BY <1>1, SameBooks DEF dispatcherVars
<1>5. Debts'
  BY <1>1, ResolveKeepsDebts DEF Debts
<1> QED
  BY <1>2, <1>3, <1>4, <1>5

(* The batch: what starts is ready, hence released. *)
LEMMA DispatchInv ==
  ASSUME Inv, DispatchReady
  PROVE  Inv'
<1> USE DEF Inv
<1>1. /\ pc = "loop" /\ pc' = "race" /\ UNCHANGED resolverVars
      /\ scheduled' = scheduled \cup NewlyReady
      /\ inflight' = inflight \cup NewlyReady /\ raced' = inflight'
  BY DEF DispatchReady
<1>2. \A n \in Node : IF n \in NewlyReady THEN task'[n] \in {"running", "queued"}
                                          ELSE task'[n] = task[n]
  BY DEF DispatchReady
<1>3. task' \in [Node -> Task]
  BY DEF DispatchReady, TypeOK, Task
<1>4. NewlyReady \subseteq Node /\ \A n \in NewlyReady : status[n] = "pending"
  BY DEF NewlyReady, Ready
<1>5. SlotsAccounted' /\ count' \in Nat /\ queue' \in Seq(Node)
  BY BatchBooks
<1>6. TypeOK'
  BY <1>1, <1>3, <1>4, <1>5 DEF TypeOK, PC, resolverVars
<1>7. TasksTracked'
  BY <1>1, <1>2, <1>4 DEF TasksTracked, resolverVars
<1>8. Untouched' /\ LoopLeft'
  BY <1>1 DEF Untouched, LoopLeft
<1>9. \A n \in Node : DebtCovered(n) /\ DebtCovered(n)'
  BY <1>1, SameResolver DEF Debts
<1>10. BlockersReleasedFirst'
  <2> SUFFICES ASSUME NEW n \in Node, task'[n] # "idle", NEW b \in Blockers(graph', n)
               PROVE  Released(n, b)'
    BY DEF BlockersReleasedFirst
  <2>1. b \in Blockers(graph, n)
    BY <1>1, SameResolver
  <2>2. CASE n \in NewlyReady
    <3>1. n \in Ready
      BY <2>2 DEF NewlyReady
    <3>2. Released(n, b)
      BY <1>9, <2>1, <3>1, ReadyIsReleased
    <3> QED
      BY <1>1, <3>2, SameResolver
  <2>3. CASE n \notin NewlyReady
    <3>1. Released(n, b)
      BY <1>2, <2>1, <2>3 DEF BlockersReleasedFirst
    <3> QED
      BY <1>1, <3>1, SameResolver
  <2> QED
    BY <2>2, <2>3
<1> QED
  BY <1>5, <1>6, <1>7, <1>8, <1>9, <1>10 DEF Debts

(* The loop's other turns move only pc and the race. *)
LEMMA LoopInv ==
  ASSUME Inv, BeginDispatch \/ AwaitInflight \/ LeaveLoop \/ Wake \/ Finish
  PROVE  Inv'
<1> USE DEF Inv
<1>1. /\ UNCHANGED <<resolverVars, scheduled, inflight, task, count, queue>>
      /\ pc' \in PC \ {"new", "rejected", "built"} /\ pc \notin {"new", "rejected"}
      /\ raced' \in SUBSET Node
  BY DEF BeginDispatch, AwaitInflight, LeaveLoop, Wake, Finish, dispatcherVars, TypeOK, PC
<1>2. TypeOK' /\ TasksTracked' /\ Untouched'
  BY <1>1 DEF TypeOK, TasksTracked, Untouched, resolverVars
<1>3. LoopLeft'
  <2>1. CASE pc' \notin {"settle", "done"}
    BY <2>1 DEF LoopLeft
  <2>2. CASE LeaveLoop
    BY <2>2, SameResolver DEF LeaveLoop, LoopLeft, LoopOver, NewlyReady, dispatcherVars
  <2>3. CASE Finish
    BY <2>3, SameResolver DEF Finish, LoopLeft, dispatcherVars
  <2> QED
    BY <2>1, <2>2, <2>3 DEF BeginDispatch, AwaitInflight, Wake
<1>4. SlotsAccounted'
  BY <1>1, SameBooks
<1>5. Debts'
  BY <1>1, SameResolver DEF Debts
<1>6. BlockersReleasedFirst'
  BY <1>1, SameResolver DEF BlockersReleasedFirst
<1> QED
  BY <1>2, <1>3, <1>4, <1>5, <1>6

(* A run ends: its node was pending, and dispatch() is under way. *)
LEMMA DoneInv ==
  ASSUME Inv, NEW n \in Node, BlueprintDone(n)
  PROVE  Inv'
<1> USE DEF Inv
<1>1. /\ task[n] = "running" /\ (MarkDone(n) \/ Shelve(n)) /\ Release(n)
      /\ UNCHANGED <<pc, scheduled, inflight, raced>>
  BY DEF BlueprintDone
<1>2. status[n] = "pending" /\ n \in inflight /\ n \in scheduled
  BY <1>1 DEF TasksTracked
<1>3. pc \notin {"new", "rejected", "built", "settle", "done"}
  BY <1>2 DEF Untouched, LoopLeft, Remaining
<1>4. /\ SlotsAccounted' /\ count' \in Nat /\ queue' \in Seq(Node)
      /\ task' \in [Node -> Task]
      /\ \A m \in Node : \/ m = n /\ task'[m] = "settled"
                         \/ m # n /\ task'[m] = task[m]
                         \/ m # n /\ task[m] = "queued" /\ task'[m] = "running"
  BY <1>1, ReleaseBooks
<1>5. /\ UNCHANGED <<graph, bypass, resolved>>
      /\ status' \in [Node -> {"pending", "done", "shelved"}]
      /\ inDegree' \in [Node -> Nat]
      /\ status'[n] # "pending" /\ \A m \in Node \ {n} : status'[m] = status[m]
  <2>1. Decremented(n) \in [Node -> Nat]
    BY DEF Decremented, TypeOK
  <2>2. /\ UNCHANGED <<graph, bypass, resolved>>
        /\ \E o \in {"done", "shelved"} : status' = [status EXCEPT ![n] = o]
        /\ inDegree' = Decremented(n) \/ inDegree' = inDegree
    BY <1>1, <1>2 DEF MarkDone, Shelve
  <2> QED
    BY <2>1, <2>2 DEF TypeOK
<1>6. TypeOK'
  BY <1>1, <1>4, <1>5 DEF TypeOK
<1>7. TasksTracked'
  BY <1>1, <1>2, <1>4, <1>5 DEF TasksTracked
<1>8. Untouched' /\ LoopLeft'
  BY <1>1, <1>3 DEF Untouched, LoopLeft
<1>9. Debts'
  BY <1>1, <1>2, <1>3, EndKeepsDebts DEF Debts
<1>10. BlockersReleasedFirst'
  <2> SUFFICES ASSUME NEW m \in Node, task'[m] # "idle", NEW b \in Blockers(graph', m)
               PROVE  Released(m, b)'
    BY DEF BlockersReleasedFirst
  <2>1. b \in Blockers(graph, m) /\ task[m] # "idle"
    BY <1>1, <1>4, <1>5
  <2>2. Released(m, b)
    BY <2>1 DEF BlockersReleasedFirst
  <2> QED
    BY <1>1, <2>2, ReleasedForGood
<1> QED
  BY <1>4, <1>6, <1>7, <1>8, <1>9, <1>10

(* A settled promise leaves the map. *)
LEMMA SettleInv ==
  ASSUME Inv, NEW n \in Node, Settle(n)
  PROVE  Inv'
<1> USE DEF Inv
<1>1. /\ task[n] = "settled" /\ inflight' = inflight \ {n}
      /\ UNCHANGED <<resolverVars, pc, scheduled, raced, task, count, queue>>
  BY DEF Settle
<1>2. TypeOK' /\ TasksTracked' /\ Untouched'
  BY <1>1 DEF TypeOK, TasksTracked, Untouched, resolverVars
<1>3. LoopLeft' /\ Debts' /\ BlockersReleasedFirst'
  BY <1>1, SameResolver DEF LoopLeft, Debts, BlockersReleasedFirst
<1>4. SlotsAccounted'
  BY <1>1, SameBooks
<1> QED
  BY <1>2, <1>3, <1>4

(* Nothing happens. *)
LEMMA StutterInv ==
  ASSUME Inv, UNCHANGED vars
  PROVE  Inv'
<1> USE DEF Inv, vars
<1>1. TypeOK' /\ TasksTracked' /\ Untouched'
  BY DEF TypeOK, TasksTracked, Untouched, resolverVars
<1>2. LoopLeft' /\ Debts' /\ BlockersReleasedFirst'
  BY SameResolver DEF LoopLeft, Debts, BlockersReleasedFirst
<1>3. SlotsAccounted'
  BY SameBooks
<1> QED
  BY <1>1, <1>2, <1>3

(* Every step keeps the invariant. *)
LEMMA InvNext == Inv /\ [Next]_vars => Inv'
<1> SUFFICES ASSUME Inv, [Next]_vars PROVE Inv'
  OBVIOUS
<1>1. CASE Construct
  BY <1>1, ConstructInv
<1>2. ASSUME NEW n \in Node, NEW b \in External, ResolveExternal(n, b) PROVE Inv'
  BY <1>2, ResolveInv
<1>3. CASE BeginDispatch
  BY <1>3, LoopInv
<1>4. CASE Loop
  BY <1>4, DispatchInv, LoopInv DEF Loop
<1>5. ASSUME NEW n \in Node, BlueprintDone(n) \/ Settle(n) PROVE Inv'
  BY <1>5, DoneInv, SettleInv
<1>6. CASE Terminated \/ UNCHANGED vars
  BY <1>6, StutterInv DEF Terminated
<1> QED
  BY <1>1, <1>2, <1>3, <1>4, <1>5, <1>6 DEF Next

(* The invariant of a dispatch holds in every behaviour. *)
THEOREM Invariant == Spec => []Inv
BY InvInit, InvNext, PTL DEF Spec

-----------------------------------------------------------------------------

(* Every variable of resolver and dispatcher keeps its type. *)
THEOREM TypeCorrect == Spec => []TypeOK
BY Invariant, PTL DEF Inv

(* The semaphore's count is the number of running nodes, at most the       *)
(* maximum, nobody waits while a slot is free, and each waiter waits once. *)
THEOREM SlotsAlwaysAccounted == Spec => []SlotsAccounted
BY Invariant, PTL DEF Inv

(* No node is dispatched before everything it waits for is released. *)
THEOREM BlockersFirst == Spec => []BlockersReleasedFirst
BY Invariant, PTL DEF Inv

(* dispatch() leaves nothing runnable behind. *)
THEOREM LeavesNothingRunnable == Spec => []NothingRunnableLeft
<1>1. Inv => NothingRunnableLeft
  <2> SUFFICES ASSUME Inv, pc = "done" PROVE
                 /\ Running = {} /\ queue = << >>
                 /\ NoDuplicates(graph) =>
                      \A n \in Remaining : \E b \in Blockers(graph, n) : ~Released(n, b)
    BY DEF NothingRunnableLeft
  <2> USE DEF Inv
  <2>1. inflight = {} /\ \A n \in Node : task[n] \notin {"queued", "running"}
    BY DEF LoopLeft, TasksTracked
  <2>2. Running = {}
    BY <2>1 DEF Running
  <2>3. queue = << >>
    <3>1. Len(queue) \in Nat /\ \A i \in 1 .. Len(queue) : queue[i] \in Node
      BY DEF TypeOK
    <3>2. queue # << >> => 1 \in 1 .. Len(queue)
      BY <3>1 DEF TypeOK
    <3> QED
      BY <2>1, <3>1, <3>2 DEF SlotsAccounted
  <2>4. \A n \in Remaining : n \notin Ready
    BY <2>1 DEF LoopLeft, TasksTracked, Remaining, TypeOK, Task
  <2>5. \A n \in Remaining : DebtCovered(n)
    BY DEF Debts, Remaining
  <2> QED
    BY <2>2, <2>3, <2>4, <2>5, NotReadyWaits
<1> QED
  BY <1>1, Invariant, PTL

(* A node's Blueprint runs at most once. *)
THEOREM EachRunsOnce == Spec => RunsOnce
<1>1. Inv /\ [Next]_vars =>
        [\A n \in Node :
           /\ task[n] = "running" => task'[n] \in {"running", "settled"}
           /\ task[n] = "settled" => task'[n] = "settled"]_vars
  <2> SUFFICES ASSUME Inv, [Next]_vars, NEW n \in Node
               PROVE  /\ task[n] = "running" => task'[n] \in {"running", "settled"}
                      /\ task[n] = "settled" => task'[n] = "settled"
    OBVIOUS
  <2> USE DEF Inv
  <2>1. CASE DispatchReady
    <3>1. n \in NewlyReady => task[n] = "idle"
      BY DEF NewlyReady, TasksTracked
    <3>2. n \notin NewlyReady => task'[n] = task[n]
      BY <2>1 DEF DispatchReady
    <3> QED
      BY <3>1, <3>2
  <2>2. ASSUME NEW m \in Node, BlueprintDone(m)
        PROVE  /\ task[n] = "running" => task'[n] \in {"running", "settled"}
               /\ task[n] = "settled" => task'[n] = "settled"
    <3>1. \/ n = m /\ task'[n] = "settled"
          \/ n # m /\ task'[n] = task[n]
          \/ n # m /\ task[n] = "queued" /\ task'[n] = "running"
      BY <2>2, ReleaseBooks DEF BlueprintDone
    <3> QED
      BY <3>1
  <2>3. CASE task' = task
    BY <2>3
  <2> QED
    BY <2>1, <2>2, <2>3 DEF Next, Loop, vars, Construct, ResolveExternal, BeginDispatch,
       AwaitInflight, LeaveLoop, Wake, Finish, Settle, Terminated, dispatcherVars
<1> QED
  BY <1>1, Invariant, PTL DEF Spec, RunsOnce

-----------------------------------------------------------------------------
(* The constructor's cycle check. *)

(* A set of naturals that is not empty has a least element. *)
LEMMA Smallest ==
  ASSUME NEW T \in SUBSET Nat, T # {}
  PROVE  \E x \in T : \A y \in T : x <= y
<1> DEFINE R == OpToRel(<, Nat)
<1>1. IsWellFoundedOn(R, Nat)
  BY NatLessThanWellFounded
<1>2. \A x, y \in Nat : y < x => <<y, x>> \in R
  BY DEF OpToRel
<1> HIDE DEF R
<1>3. PICK x \in T : \A y \in T : ~ (<<y, x>> \in R)
  BY <1>1, WFMin
<1>4. \A y \in T : ~ (y < x)
  BY <1>2, <1>3
<1> QED
  BY <1>4

(* f lists the first m layers that validateNoCycles takes off g. *)
LayersUpTo(g, m, f) ==
  /\ f \in [0 .. m -> SUBSET Node]
  /\ f[0] = {}
  /\ \A k \in 1 .. m : f[k] = Freed(g, f[k - 1])

LEMMA LayersAgree ==
  ASSUME NEW g, NEW m \in Nat, NEW f, LayersUpTo(g, m, f),
         NEW l \in Nat, NEW h, LayersUpTo(g, l, h)
  PROVE  \A k \in (0 .. m) \cap (0 .. l) : f[k] = h[k]
<1> DEFINE T == {k \in (0 .. m) \cap (0 .. l) : f[k] # h[k]}
<1> SUFFICES ASSUME T # {} PROVE FALSE
  OBVIOUS
<1>1. PICK k \in T : \A j \in T : k <= j
  <2>1. T \in SUBSET Nat
    OBVIOUS
  <2> QED
    BY <2>1, Smallest
<1>2. k # 0
  BY DEF LayersUpTo
<1>3. k - 1 \in (0 .. m) \cap (0 .. l) /\ k \in 1 .. m /\ k \in 1 .. l
  BY <1>2
<1>4. k - 1 \notin T
  BY <1>1
<1>5. f[k - 1] = h[k - 1]
  BY <1>3, <1>4
<1> QED
  BY <1>3, <1>5 DEF LayersUpTo

LEMMA LayersExist ==
  ASSUME NEW g
  PROVE  \A m \in Nat : \E f : LayersUpTo(g, m, f)
<1> DEFINE T == {m \in Nat : ~ \E f : LayersUpTo(g, m, f)}
<1> SUFFICES ASSUME T # {} PROVE FALSE
  OBVIOUS
<1>1. PICK m \in T : \A j \in T : m <= j
  BY Smallest
<1>2. m # 0
  <2>1. LayersUpTo(g, 0, [k \in 0 .. 0 |-> {}])
    BY DEF LayersUpTo
  <2> QED
    BY <2>1
<1>3. m - 1 \in Nat /\ m - 1 \notin T
  BY <1>1, <1>2
<1>4. PICK f : LayersUpTo(g, m - 1, f)
  BY <1>3
<1> DEFINE h == [k \in 0 .. m |-> IF k = m THEN Freed(g, f[m - 1]) ELSE f[k]]
<1>5. LayersUpTo(g, m, h)
  <2>1. Freed(g, f[m - 1]) \in SUBSET Node
    BY DEF Freed
  <2>2. h \in [0 .. m -> SUBSET Node] /\ h[0] = {}
    BY <1>2, <1>3, <1>4, <2>1 DEF LayersUpTo
  <2>3. ASSUME NEW k \in 1 .. m PROVE h[k] = Freed(g, h[k - 1])
    <3>1. k - 1 \in 0 .. m /\ k - 1 # m /\ k \in 0 .. m
      OBVIOUS
    <3>2. h[k - 1] = f[k - 1]
      BY <3>1
    <3>3. CASE k = m
      BY <3>1, <3>2, <3>3
    <3>4. CASE k # m
      <4>1. k \in 1 .. m - 1
        BY <3>4
      <4> QED
        BY <3>1, <3>2, <3>4, <4>1, <1>4 DEF LayersUpTo
    <3> QED
      BY <3>3, <3>4
  <2> QED
    BY <2>2, <2>3 DEF LayersUpTo
<1> QED
  BY <1>5

(* What the search has visited after each layer, as the code computes it. *)
LEMMA LayersOf ==
  ASSUME NEW g
  PROVE  \E F \in [Nat -> SUBSET Node] :
           /\ F[0] = {}
           /\ \A k \in Nat : F[k + 1] = Freed(g, F[k])
           /\ Visited(g) = F[Cardinality(Node)]
<1> DEFINE layer[k \in Nat] == IF k = 0 THEN {} ELSE Freed(g, layer[k - 1])
           Some(k) == CHOOSE f : LayersUpTo(g, k, f)
           F == [k \in Nat |-> Some(k)[k]]
<1>1. \A k \in Nat : LayersUpTo(g, k, Some(k))
  BY LayersExist
<1> HIDE DEF Some
<1>2. F \in [Nat -> SUBSET Node] /\ F[0] = {}
  BY <1>1 DEF LayersUpTo
<1>3. ASSUME NEW k \in Nat PROVE F[k + 1] = Freed(g, F[k])
  <2>1. k + 1 \in Nat /\ k + 1 \in 1 .. k + 1 /\ (k + 1) - 1 = k
        /\ k \in (0 .. k) \cap (0 .. k + 1)
    OBVIOUS
  <2>2. LayersUpTo(g, k, Some(k)) /\ LayersUpTo(g, k + 1, Some(k + 1))
    BY <1>1, <2>1
  <2>3. Some(k + 1)[k + 1] = Freed(g, Some(k + 1)[k])
    BY <2>1, <2>2 DEF LayersUpTo
  <2>4. Some(k + 1)[k] = Some(k)[k]
    BY <2>1, <2>2, LayersAgree
  <2> QED
    BY <2>1, <2>3, <2>4
<1>4. F = [k \in Nat |-> IF k = 0 THEN {} ELSE Freed(g, F[k - 1])]
  <2>1. ASSUME NEW k \in Nat, k # 0 PROVE F[k] = Freed(g, F[k - 1])
    <3>1. k - 1 \in Nat /\ (k - 1) + 1 = k
      BY <2>1
    <3> QED
      BY <1>3, <3>1
  <2> QED
    BY <1>2, <2>1
<1> HIDE DEF F
<1>5. layer = [k \in Nat |-> IF k = 0 THEN {} ELSE Freed(g, layer[k - 1])]
  BY <1>4
<1>6. Visited(g) = layer[Cardinality(Node)]
  BY DEF Visited
<1> HIDE DEF layer
<1>7. layer[0] = {}
  BY <1>5
<1>8. layer \in [Nat -> SUBSET Node]
  BY <1>5 DEF Freed
<1>9. ASSUME NEW k \in Nat PROVE layer[k + 1] = Freed(g, layer[k])
  <2>1. k + 1 \in Nat /\ k + 1 # 0 /\ (k + 1) - 1 = k
    OBVIOUS
  <2> QED
    BY <1>5, <2>1
<1> QED
  BY <1>6, <1>7, <1>8, <1>9

(* The known blockers of n. *)
Known(g, n) == Blockers(g, n) \cap Node

(* No known blocker is listed twice by n. *)
ListedOnce(g, n) ==
  \A i, j \in 1 .. Len(g[n]) : g[n][i] = g[n][j] /\ g[n][i] \in Node => i = j

(***************************************************************************)
(* The count validateNoCycles starts from is the number of distinct known  *)
(* blockers exactly when none is listed twice; otherwise it is greater.    *)
(***************************************************************************)
LEMMA KnownCounted ==
  ASSUME NEW g \in Graphs, NEW n \in Node
  PROVE  /\ IsFiniteSet(Known(g, n))
         /\ Cardinality(Known(g, n)) <= KnownCount(g, n)
         /\ Cardinality(Known(g, n)) = KnownCount(g, n) <=> ListedOnce(g, n)
<1> DEFINE I == {i \in 1 .. Len(g[n]) : g[n][i] \in Node}
           f == [i \in I |-> g[n][i]]
<1>1. Len(g[n]) \in Nat
  BY Lists
<1>2. IsFiniteSet(I)
  <2>1. IsFiniteSet(1 .. Len(g[n]))
    BY <1>1, FS_Interval
  <2>2. I \subseteq 1 .. Len(g[n])
    OBVIOUS
  <2> HIDE DEF I
  <2> QED
    BY <2>1, <2>2, FS_Subset
<1>3. f \in Surjection(I, Known(g, n))
  BY DEF Known, Blockers, Surjection
<1>4. /\ IsFiniteSet(Known(g, n))
      /\ Cardinality(Known(g, n)) <= Cardinality(I)
      /\ Cardinality(Known(g, n)) = Cardinality(I) <=> f \in Injection(I, Known(g, n))
  <2> HIDE DEF I, f
  <2> QED
    BY <1>2, <1>3, FS_Surjection
<1>5. ListedOnce(g, n) <=> f \in Injection(I, Known(g, n))
  BY <1>3 DEF ListedOnce, Injection, IsInjective, Surjection
<1> QED
  BY <1>4, <1>5 DEF KnownCount

(* A node is freed once its known blockers are visited, if it lists each once. *)
LEMMA FreedWhenVisited ==
  ASSUME NEW g \in Graphs, NEW L \in SUBSET Node, NEW n \in Node
  PROVE  n \in Freed(g, L) <=> Known(g, n) \subseteq L /\ ListedOnce(g, n)
<1> DEFINE B == Blockers(g, n) \cap L
<1>1. B \subseteq Known(g, n)
  BY DEF Known
<1>2. /\ IsFiniteSet(B) /\ Cardinality(B) \in Nat /\ Cardinality(Known(g, n)) \in Nat
      /\ Cardinality(B) <= Cardinality(Known(g, n))
      /\ Cardinality(B) = Cardinality(Known(g, n)) => B = Known(g, n)
  BY <1>1, KnownCounted, FS_Subset, FS_CardinalityType
<1>3. n \in Freed(g, L) <=> KnownCount(g, n) = Cardinality(B)
  BY DEF Freed
<1>4. B = Known(g, n) <=> Known(g, n) \subseteq L
  BY DEF Known
<1>5. KnownCount(g, n) \in Nat
  <2>1. Len(g[n]) \in Nat
    BY Lists
  <2> DEFINE I == {i \in 1 .. Len(g[n]) : g[n][i] \in Node}
  <2>2. IsFiniteSet(1 .. Len(g[n]))
    BY <2>1, FS_Interval
  <2>3. I \subseteq 1 .. Len(g[n])
    OBVIOUS
  <2> HIDE DEF I
  <2>4. IsFiniteSet(I) /\ Cardinality(I) \in Nat
    BY <2>2, <2>3, FS_Subset, FS_CardinalityType
  <2> QED
    BY <2>4 DEF KnownCount, I
<1> HIDE DEF B
<1> QED
  BY <1>2, <1>3, <1>4, <1>5, KnownCounted

(* Each layer holds the one before it. *)
LEMMA LayersGrow ==
  ASSUME NEW g \in Graphs, NEW F \in [Nat -> SUBSET Node], F[0] = {},
         \A k \in Nat : F[k + 1] = Freed(g, F[k])
  PROVE  \A k \in Nat : F[k] \subseteq F[k + 1]
<1> DEFINE T == {k \in Nat : ~ (F[k] \subseteq F[k + 1])}
<1> SUFFICES ASSUME T # {} PROVE FALSE
  OBVIOUS
<1>1. PICK k \in T : \A j \in T : k <= j
  BY Smallest
<1>2. k # 0
  OBVIOUS
<1>3. k - 1 \in Nat /\ (k - 1) + 1 = k /\ k - 1 \notin T
  BY <1>1, <1>2
<1>4. F[k - 1] \subseteq F[k] /\ F[k] = Freed(g, F[k - 1]) /\ F[k + 1] = Freed(g, F[k])
  BY <1>3
<1>5. F[k - 1] \in SUBSET Node /\ F[k] \in SUBSET Node
  BY <1>3
<1>6. ASSUME NEW n \in F[k] PROVE n \in F[k + 1]
  BY <1>4, <1>5, <1>6, FreedWhenVisited
<1> QED
  BY <1>6

(* The search has settled after one layer per node. *)
LEMMA LayersSettle ==
  ASSUME NEW g \in Graphs, NEW F \in [Nat -> SUBSET Node], F[0] = {},
         \A k \in Nat : F[k + 1] = Freed(g, F[k])
  PROVE  F[Cardinality(Node)] = Freed(g, F[Cardinality(Node)])
<1> DEFINE Settled(k) == F[k] = F[k + 1] \/ Cardinality(F[k + 1]) >= k + 1
           T == {k \in Nat : ~ Settled(k)}
<1>1. /\ Cardinality(Node) \in Nat
      /\ \A S \in SUBSET Node : /\ IsFiniteSet(S) /\ Cardinality(S) \in Nat
                                /\ Cardinality(S) <= Cardinality(Node)
  BY NodeAssumption, FS_Subset, FS_CardinalityType
<1>2. ASSUME NEW k \in Nat, F[k] # F[k + 1]
      PROVE  Cardinality(F[k]) + 1 <= Cardinality(F[k + 1])
  <2>1. F[k] \in SUBSET Node /\ F[k + 1] \in SUBSET Node /\ F[k] \subseteq F[k + 1]
    BY LayersGrow
  <2>2. /\ Cardinality(F[k]) <= Cardinality(F[k + 1])
        /\ Cardinality(F[k]) # Cardinality(F[k + 1])
    BY <1>1, <1>2, <2>1, FS_Subset
  <2> QED
    BY <1>1, <2>1, <2>2
<1>3. T = {}
  <2> SUFFICES ASSUME T # {} PROVE FALSE
    OBVIOUS
  <2>1. PICK k \in T : \A j \in T : k <= j
    BY Smallest
  <2>2. F[k] \in SUBSET Node /\ F[k + 1] \in SUBSET Node
    OBVIOUS
  <2>3. Cardinality(F[k]) + 1 <= Cardinality(F[k + 1])
    BY <1>2
  <2>4. Cardinality(F[k]) \in Nat /\ Cardinality(F[k + 1]) \in Nat
    BY <1>1, <2>2
  <2>5. k # 0
    BY <2>3, <2>4
  <2>6. k - 1 \in Nat /\ (k - 1) + 1 = k /\ k - 1 \notin T
    BY <2>1, <2>5
  <2>7. F[k - 1] = F[k] \/ Cardinality(F[k]) >= k
    BY <2>6
  <2>8. F[k - 1] = F[k] => F[k] = F[k + 1]
    BY <2>6
  <2> QED
    BY <2>3, <2>4, <2>7, <2>8
<1>4. Settled(Cardinality(Node))
  BY <1>1, <1>3
<1> QED
  <2>1. F[Cardinality(Node) + 1] \in SUBSET Node
    BY <1>1
  <2>2. Cardinality(F[Cardinality(Node) + 1]) <= Cardinality(Node)
    BY <1>1, <2>1
  <2> QED
    BY <1>1, <1>4, <2>1, <2>2

(* A graph the search does not exhaust has a cycle or a duplicated blocker. *)
LEMMA RejectedIsCyclic ==
  ASSUME NEW g \in Graphs, ~ Accepts(g)
  PROVE  Cyclic(g) \/ DuplicatedKnown(g)
<1> SUFFICES ASSUME ~ DuplicatedKnown(g) PROVE Cyclic(g)
  OBVIOUS
<1>1. PICK F \in [Nat -> SUBSET Node] :
        /\ F[0] = {}
        /\ \A k \in Nat : F[k + 1] = Freed(g, F[k])
        /\ Visited(g) = F[Cardinality(Node)]
  BY LayersOf
<1> DEFINE S == Node \ Visited(g)
<1>2. Cardinality(Node) \in Nat
  BY NodeAssumption, FS_CardinalityType
<1>3. Visited(g) \in SUBSET Node /\ Visited(g) = Freed(g, Visited(g))
  BY <1>1, <1>2, LayersSettle
<1>4. S # {}
  BY <1>3 DEF Accepts
<1>5. ASSUME NEW n \in S PROVE Blockers(g, n) \cap S # {}
  <2>1. ListedOnce(g, n)
    BY DEF DuplicatedKnown, ListedOnce
  <2>2. ~ (Known(g, n) \subseteq Visited(g))
    BY <1>3, <2>1, FreedWhenVisited
  <2> QED
    BY <2>2 DEF Known
<1> QED
  BY <1>4, <1>5 DEF Cyclic

(* In a graph the search exhausts nothing waits for itself, or twice. *)
LEMMA AcceptedIsAcyclic ==
  ASSUME NEW g \in Graphs, Accepts(g)
  PROVE  ~ Cyclic(g) /\ ~ DuplicatedKnown(g)
<1>1. PICK F \in [Nat -> SUBSET Node] :
        /\ F[0] = {}
        /\ \A k \in Nat : F[k + 1] = Freed(g, F[k])
        /\ Visited(g) = F[Cardinality(Node)]
  BY LayersOf
<1>2. Cardinality(Node) \in Nat /\ F[Cardinality(Node)] = Node
  BY <1>1, NodeAssumption, FS_CardinalityType DEF Accepts
<1>3. ASSUME NEW n \in Node, NEW k \in Nat, n \in F[k]
      PROVE  \E l \in Nat : l + 1 = k /\ Known(g, n) \subseteq F[l] /\ ListedOnce(g, n)
  <2>1. k # 0
    BY <1>1, <1>3
  <2>2. k - 1 \in Nat /\ (k - 1) + 1 = k
    BY <2>1
  <2>3. F[k - 1] \in SUBSET Node /\ n \in Freed(g, F[k - 1])
    BY <1>1, <1>3, <2>2
  <2> QED
    BY <2>2, <2>3, FreedWhenVisited
<1>4. ~ DuplicatedKnown(g)
  <2>1. \A n \in Node : ListedOnce(g, n)
    BY <1>2, <1>3
  <2> QED
    BY <2>1 DEF DuplicatedKnown, ListedOnce
<1>5. ASSUME NEW S \in SUBSET Node, S # {}, \A n \in S : Blockers(g, n) \cap S # {}
      PROVE  FALSE
  <2> DEFINE T == {k \in Nat : F[k] \cap S # {}}
  <2>1. Cardinality(Node) \in T
    BY <1>2, <1>5
  <2>2. PICK k \in T : \A j \in T : k <= j
    BY <2>1, Smallest
  <2>3. PICK n \in F[k] \cap S : TRUE
    OBVIOUS
  <2>4. PICK l \in Nat : l + 1 = k /\ Known(g, n) \subseteq F[l]
    BY <1>3, <2>3
  <2>5. PICK b \in Blockers(g, n) \cap S : TRUE
    BY <1>5, <2>3
  <2>6. l \in T
    BY <2>4, <2>5 DEF Known
  <2> QED
    BY <2>2, <2>4, <2>6
<1> QED
  BY <1>4, <1>5 DEF Cyclic

(***************************************************************************)
(* validateNoCycles accepts exactly the graphs without a cycle among known *)
(* nodes and without a known blocker listed twice, whatever their size.    *)
(***************************************************************************)
THEOREM AcceptsExactlyAcyclic ==
  \A g \in Graphs : Accepts(g) <=> ~ Cyclic(g) /\ ~ DuplicatedKnown(g)
BY RejectedIsCyclic, AcceptedIsAcyclic

(***************************************************************************)
(* The constructor throws exactly on the graphs it must reject: only on a  *)
(* cycle among known nodes or a known blocker listed twice, and a          *)
(* dispatcher that got past it has neither.                                *)
(***************************************************************************)
THEOREM OnlyCyclesRejected == Spec => []RejectsExactlyCycles
<1>1. Init => RejectsExactlyCycles
  BY DEF Init, RejectsExactlyCycles
<1>2. Inv /\ RejectsExactlyCycles /\ [Next]_vars => RejectsExactlyCycles'
  <2> SUFFICES ASSUME Inv, RejectsExactlyCycles, [Next]_vars
               PROVE  RejectsExactlyCycles'
    OBVIOUS
  <2>1. graph' = graph /\ graph \in Graphs
    BY DEF Inv, TypeOK, Next, Loop, vars, resolverVars, Construct, ResolveExternal,
       ResolveExternalBlocker, BeginDispatch, DispatchReady, AwaitInflight, LeaveLoop, Wake,
       Finish, BlueprintDone, MarkDone, Shelve, Settle, Terminated, dispatcherVars
  <2>2. Cyclic(graph)' = Cyclic(graph) /\ DuplicatedKnown(graph)' = DuplicatedKnown(graph)
    BY <2>1 DEF Cyclic, DuplicatedKnown, Blockers
  <2>3. CASE Construct
    <3>1. pc' = IF Accepts(graph) THEN "built" ELSE "rejected"
      BY <2>3 DEF Construct
    <3> QED
      BY <2>1, <2>2, <3>1, AcceptsExactlyAcyclic DEF RejectsExactlyCycles
  <2>4. CASE pc' = pc
    BY <2>2, <2>4 DEF RejectsExactlyCycles
  <2>5. CASE pc \notin {"new", "rejected"} /\ pc' \notin {"new", "rejected"}
    BY <2>2, <2>5 DEF RejectsExactlyCycles
  <2>6. \/ Construct \/ pc' = pc
        \/ pc \notin {"new", "rejected"} /\ pc' \notin {"new", "rejected"}
    BY DEF Next, Loop, vars, ResolveExternal, BeginDispatch, DispatchReady,
       AwaitInflight, LeaveLoop, Wake, Finish, BlueprintDone, Settle, Terminated
  <2> QED
    BY <2>3, <2>4, <2>5, <2>6
<1> QED
  BY <1>1, <1>2, Invariant, PTL DEF Spec

-----------------------------------------------------------------------------
(* The refinement of the abstract schedule. *)

Needs == [n \in Node |-> Blockers(graph, n) \ resolved[n]]
Stage == [n \in Node |-> IF task[n] = "running" THEN "running"
                         ELSE IF status[n] = "pending" THEN "waiting"
                         ELSE status[n]]

(* The abstract variables are those of the refinement mapping. *)
LEMMA Mapped ==
  /\ Schedule!vars = <<bypass, Needs, Stage>>
  /\ \A b : Schedule!Released(b) <=>
       b \in Node /\ (Stage[b] = "done" \/ (bypass /\ Stage[b] = "shelved"))
  /\ \A n : Schedule!Startable(n) <=>
       Stage[n] = "waiting" /\ \A b \in Needs[n] : Schedule!Released(b)
<1>1. Schedule!vars = <<bypass, Needs, Stage>>
  BY DEF Schedule!vars, Needs, Stage
<1>2. \A b : Schedule!Released(b) <=>
        b \in Node /\ (Stage[b] = "done" \/ (bypass /\ Stage[b] = "shelved"))
  BY DEF Schedule!Released, Stage
<1>3. \A n : Schedule!Startable(n) <=>
        Stage[n] = "waiting" /\ \A b \in Needs[n] : Schedule!Released(b)
  BY DEF Schedule!Startable, Needs, Stage
<1> QED
  BY <1>1, <1>2, <1>3

(* A start of the schedule, in terms of the mapping. *)
LEMMA StartMapped ==
  ASSUME NEW T, T # {}, \A n \in T : Schedule!Startable(n),
         Cardinality(Schedule!Running \cup T) <= MaxConcurrent,
         Stage' = [n \in Node |-> IF n \in T THEN "running" ELSE Stage[n]],
         Needs' = Needs, bypass' = bypass
  PROVE  Schedule!Start(T)
<1>1. Schedule!Cardinality(Schedule!Running \cup T) = Cardinality(Schedule!Running \cup T)
  BY DEF Schedule!Cardinality, Cardinality
<1> QED
  BY <1>1 DEF Schedule!Start, Needs, Stage

(* What runs in the schedule runs in the dispatcher. *)
LEMMA RunningMapped ==
  ASSUME TypeOK
  PROVE  Schedule!Running = Running
<1>1. \A n \in Node : status[n] # "running"
  BY DEF TypeOK
<1> QED
  BY <1>1 DEF Schedule!Running, Running

(* A queued or ready node may start in the schedule. *)
LEMMA MayStart ==
  ASSUME Inv, NEW n \in Node, task[n] \in {"idle", "queued"},
         \A b \in Blockers(graph, n) : Released(n, b)
  PROVE  Schedule!Startable(n)
<1> USE DEF Inv
<1>1. Stage[n] = "waiting"
  BY DEF Stage, TasksTracked
<1>2. ASSUME NEW b \in Needs[n] PROVE Schedule!Released(b)
  <2>1. b \in Blockers(graph, n) /\ b \notin resolved[n]
    BY <1>2 DEF Needs
  <2>2. b \in Node /\ (status[b] = "done" \/ (bypass /\ status[b] = "shelved"))
    BY <2>1 DEF Released
  <2>3. Stage[b] = status[b]
    BY <2>2 DEF Stage, TasksTracked
  <2> QED
    BY <2>2, <2>3, Mapped
<1> QED
  BY <1>1, <1>2, Mapped

(* A step that changes no task, status or need is a stutter. *)
LEMMA StageStutters ==
  ASSUME UNCHANGED <<graph, bypass, resolved, task, status>>
  PROVE  UNCHANGED <<bypass, Needs, Stage>>
BY DEF Needs, Stage, Blockers

(* A batch is the start of the nodes that got a slot. *)
LEMMA BatchStarts ==
  ASSUME Inv, Inv', DispatchReady
  PROVE  (\E S \in SUBSET Node : Schedule!Start(S)) \/ UNCHANGED <<bypass, Needs, Stage>>
<1> DEFINE S == {n \in NewlyReady : task'[n] = "running"}
<1>1. UNCHANGED resolverVars
  BY DEF DispatchReady
<1>2. /\ \A n \in NewlyReady : n \in Node /\ n \in Ready /\ task[n] = "idle"
      /\ \A n \in Node \ NewlyReady : task'[n] = task[n]
      /\ \A n \in NewlyReady : task'[n] \in {"running", "queued"}
  BY DEF DispatchReady, NewlyReady, Ready, Inv, TasksTracked
<1>3. Needs' = Needs /\ bypass' = bypass
  BY <1>1 DEF Needs, Blockers, resolverVars
<1>4. \A n \in NewlyReady : status[n] = "pending"
  BY DEF NewlyReady, Ready
<1>5. Stage' = [n \in Node |-> IF n \in S THEN "running" ELSE Stage[n]]
  BY <1>1, <1>2, <1>4 DEF Stage, resolverVars
<1>6. CASE S = {}
  BY <1>3, <1>5, <1>6 DEF Stage
<1>7. CASE S # {}
  <2>1. S \in SUBSET Node
    BY <1>2
  <2>2. ASSUME NEW n \in S PROVE Schedule!Startable(n)
    <3>1. n \in Node /\ n \in Ready /\ task[n] = "idle" /\ DebtCovered(n)
      BY <1>2 DEF Inv, Debts, DispatchReady
    <3> QED
      BY <3>1, ReadyIsReleased, MayStart DEF Inv
  <2>3. Running' = Running \cup S
    BY <1>2 DEF Running
  <2>4. Cardinality(Running \cup S) <= MaxConcurrent
    BY <2>3 DEF Inv, SlotsAccounted
  <2>5. PICK T \in SUBSET Node : T = S
    BY <2>1
  <2> HIDE DEF S
  <2>6. Cardinality(Schedule!Running \cup T) <= MaxConcurrent
    BY <2>4, <2>5, RunningMapped DEF Inv
  <2>7. Schedule!Start(T)
    BY <1>3, <1>5, <1>7, <2>2, <2>5, <2>6, StartMapped
  <2> QED
    BY <2>7
<1> QED
  BY <1>6, <1>7

(* A node's end is one in the schedule, with the hand-off of its slot. *)
LEMMA DoneEnds ==
  ASSUME Inv, NEW n \in Node, BlueprintDone(n)
  PROVE  \E outcome \in {"done", "shelved"} : Schedule!End(n, outcome)
<1> USE DEF Inv
<1>1. /\ task[n] = "running" /\ (MarkDone(n) \/ Shelve(n)) /\ Release(n)
      /\ status[n] = "pending"
  BY DEF BlueprintDone, TasksTracked
<1>2. PICK outcome \in {"done", "shelved"} : status' = [status EXCEPT ![n] = outcome]
  BY <1>1 DEF MarkDone, Shelve
<1>3. UNCHANGED <<graph, bypass, resolved>>
  BY <1>1 DEF MarkDone, Shelve
<1>4. Needs' = Needs
  BY <1>3 DEF Needs, Blockers
<1>5. Stage[n] = "running"
  BY <1>1 DEF Stage
<1>6. CASE queue = << >>
  <2>1. task' = [task EXCEPT ![n] = "settled"]
    BY <1>1, <1>6 DEF Release
  <2>2. Stage' = [Stage EXCEPT ![n] = outcome]
    BY <1>2, <2>1 DEF Stage, TypeOK
  <2> QED
    BY <1>3, <1>4, <1>5, <2>2 DEF Schedule!End, Needs, Stage
<1>7. CASE queue # << >>
  <2> DEFINE h == Head(queue)
  <2>1. 1 \in 1 .. Len(queue) /\ h = queue[1] /\ h \in Node
    BY <1>7 DEF TypeOK
  <2>2. task[h] = "queued" /\ h # n
    BY <1>1, <2>1 DEF SlotsAccounted
  <2>3. task' = [task EXCEPT ![n] = "settled", ![h] = "running"]
    BY <1>1, <1>7 DEF Release
  <2> HIDE DEF h
  <2>4. Schedule!Startable(h)
    BY <2>1, <2>2, MayStart DEF BlockersReleasedFirst
  <2>5. Stage' = [Stage EXCEPT ![n] = outcome, ![h] = "running"]
    BY <1>2, <2>1, <2>2, <2>3 DEF Stage, TypeOK
  <2> QED
    BY <1>3, <1>4, <1>5, <2>1, <2>4, <2>5 DEF Schedule!End, Needs, Stage
<1> QED
  BY <1>6, <1>7

(* Resolving an unknown blocker lifts a need. *)
LEMMA ResolveLifts ==
  ASSUME Inv, NEW n \in Node, NEW b \in External, ResolveExternal(n, b)
  PROVE  Schedule!Lift(n)
<1> USE DEF Inv
<1>1. /\ pc = "built" /\ b \in Blockers(graph, n) \ Node /\ b \notin resolved[n]
      /\ resolved' = [resolved EXCEPT ![n] = @ \cup {b}]
      /\ UNCHANGED <<graph, bypass, status, task>>
  BY DEF ResolveExternal, ResolveExternalBlocker, dispatcherVars
<1>2. \A m \in Node : Stage[m] = "waiting"
  BY <1>1 DEF Untouched, TasksTracked, Stage
<1>3. b \in Needs[n] \ Node
  BY <1>1 DEF Needs
<1>4. Needs' = [Needs EXCEPT ![n] = @ \ {b}]
  <2>1. \A m \in Node : resolved'[m] = IF m = n THEN resolved[n] \cup {b} ELSE resolved[m]
    BY <1>1 DEF TypeOK
  <2>2. \A m \in Node : Blockers(graph', m) = Blockers(graph, m)
    BY <1>1 DEF Blockers
  <2>3. \A m \in Node : Blockers(graph', m) \ resolved'[m] =
          IF m = n THEN (Blockers(graph, n) \ resolved[n]) \ {b} ELSE Blockers(graph, m) \ resolved[m]
    BY <2>1, <2>2
  <2> QED
    BY <2>3 DEF Needs
<1>5. Stage' = Stage
  BY <1>1 DEF Stage
<1> QED
  BY <1>1, <1>2, <1>3, <1>4, <1>5 DEF Schedule!Lift, Needs, Stage

(* The dispatcher implements the schedule. *)
THEOREM ScheduleImplemented == Spec => ImplementsSchedule
<1>1. Init => Schedule!Init
  BY DEF Init, Schedule!Init
<1>2. Inv /\ Inv' /\ [Next]_vars => [Schedule!Next]_(Schedule!vars)
  <2> SUFFICES ASSUME Inv, Inv', [Next]_vars
               PROVE  Schedule!Next \/ UNCHANGED <<bypass, Needs, Stage>>
    BY Mapped DEF Schedule!vars, Needs, Stage
  <2>1. ASSUME NEW n \in Node, NEW b \in External, ResolveExternal(n, b) PROVE Schedule!Next
    BY <2>1, ResolveLifts DEF Schedule!Next
  <2>2. CASE DispatchReady
    BY <2>2, BatchStarts DEF Schedule!Next
  <2>3. ASSUME NEW n \in Node, BlueprintDone(n) PROVE Schedule!Next
    BY <2>3, DoneEnds DEF Schedule!Next
  <2>4. CASE UNCHANGED <<graph, bypass, resolved, task, status>>
    BY <2>4, StageStutters
  <2> QED
    BY <2>1, <2>2, <2>3, <2>4 DEF Next, Loop, vars, resolverVars, Construct, BeginDispatch,
       AwaitInflight, LeaveLoop, Wake, Finish, Settle, Terminated, dispatcherVars
<1> QED
  BY <1>1, <1>2, Invariant, PTL DEF Spec, ImplementsSchedule, Schedule!Spec
=============================================================================
