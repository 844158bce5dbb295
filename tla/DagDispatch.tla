----------------------------- MODULE DagDispatch -----------------------------
(***************************************************************************)
(* DagDispatcher.dispatch of packages/edge-worker over the resolver and    *)
(* the counting Semaphore of packages/core.  A step is one synchronous     *)
(* turn of the event loop: the code between two awaits.                    *)
(*                                                                         *)
(* The order of one batch of ready nodes is the caller's node order; it is *)
(* left open here, so every order is covered.                              *)
(***************************************************************************)
EXTENDS DagResolver

CONSTANT MaxConcurrent   \* the Semaphore's max

ASSUME MaxAssumption == MaxConcurrent \in Nat \ {0}

VARIABLES
  pc,         \* where dispatch() stands
  scheduled,  \* ids handed to dispatchOne
  inflight,   \* ids whose dispatchOne promise is still in the map
  raced,      \* the promises the pending Promise.race was given
  task,       \* id -> where its dispatchOne stands
  count,      \* Semaphore.count
  queue       \* Semaphore.queue: the waiters, oldest first

vars == <<resolverVars, pc, scheduled, inflight, raced, task, count, queue>>

PC   == {"new", "rejected", "built", "loop", "race", "settle", "done"}
Task == {"idle", "queued", "running", "settled"}

TypeOK ==
  /\ graph \in Graphs
  /\ bypass \in BOOLEAN
  /\ status \in [Node -> {"pending", "done", "shelved"}]
  /\ inDegree \in [Node -> Nat]
  /\ resolved \in [Node -> SUBSET External]
  /\ pc \in PC
  /\ scheduled \in SUBSET Node
  /\ inflight \in SUBSET Node
  /\ raced \in SUBSET Node
  /\ task \in [Node -> Task]
  /\ count \in Nat
  /\ queue \in Seq(Node)

Init ==
  /\ graph \in Graphs
  /\ bypass \in BOOLEAN
  /\ status = [n \in Node |-> "pending"]
  /\ inDegree = [n \in Node |-> 0]
  /\ resolved = [n \in Node |-> {}]
  /\ pc = "new"
  /\ scheduled = {}
  /\ inflight = {}
  /\ raced = {}
  /\ task = [n \in Node |-> "idle"]
  /\ count = 0
  /\ queue = << >>

dispatcherVars == <<scheduled, inflight, raced, task, count, queue>>

(* new DagResolver(nodes): throws on a graph validateNoCycles rejects. *)
Construct ==
  /\ pc = "new"
  /\ pc' = IF Accepts(graph) THEN "built" ELSE "rejected"
  /\ inDegree' = IF Accepts(graph) THEN InitialDegrees(graph) ELSE inDegree
  /\ UNCHANGED <<graph, bypass, status, resolved, dispatcherVars>>

(* The resolver's owner clears external blockers before it dispatches. *)
ResolveExternal(n, b) ==
  /\ pc = "built"
  /\ ResolveExternalBlocker(n, b)
  /\ UNCHANGED <<pc, dispatcherVars>>

(* dispatch() is called and prunes orphans before its first look. *)
BeginDispatch ==
  /\ pc = "built"
  /\ pc' = "loop"
  /\ UNCHANGED <<resolverVars, dispatcherVars>>

(* A bug: a node that is already running is still pending, hence "ready". *)
NewlyReadyUnfiltered == Ready

(* Ready nodes this dispatch has not started yet. *)
NewlyReady == Ready \ scheduled

Orders(S) ==
  {s \in [1 .. Cardinality(S) -> S] :
     \A i, j \in 1 .. Cardinality(S) : s[i] = s[j] => i = j}

Least(a, b) == IF a <= b THEN a ELSE b

(* A bug: acquire lets one caller too many through. *)
FreeSlotsOffByOne == IF count <= MaxConcurrent THEN MaxConcurrent + 1 - count ELSE 0

(* Semaphore.acquire: how many of the callers to come get a slot at once. *)
FreeSlots == IF count < MaxConcurrent THEN MaxConcurrent - count ELSE 0

(***************************************************************************)
(* The batch: every newly ready node enters dispatchOne, which acquires    *)
(* its slot or joins the semaphore's queue; then the loop races.           *)
(***************************************************************************)
DispatchReady ==
  /\ pc = "loop"
  /\ NewlyReady # {}
  /\ \E batch \in Orders(NewlyReady) :
       LET taken == Least(FreeSlots, Len(batch))
       IN /\ count' = count + taken
          /\ queue' = queue \o SubSeq(batch, taken + 1, Len(batch))
          /\ task' = [n \in Node |->
               IF n \notin NewlyReady THEN task[n]
               ELSE IF \E i \in 1 .. taken : batch[i] = n THEN "running" ELSE "queued"]
  /\ scheduled' = scheduled \cup NewlyReady
  /\ inflight' = inflight \cup NewlyReady
  /\ raced' = inflight'
  /\ pc' = "race"
  /\ UNCHANGED resolverVars

(* Nothing new to start while some node is in flight: race again. *)
AwaitInflight ==
  /\ pc = "loop"
  /\ Remaining # {}
  /\ NewlyReady = {}
  /\ inflight # {}
  /\ raced' = inflight
  /\ pc' = "race"
  /\ UNCHANGED <<resolverVars, scheduled, inflight, task, count, queue>>

(* A bug: an empty ready list ends the loop although nodes are in flight. *)
LoopOverEager == Remaining = {} \/ NewlyReady = {}

(* The while condition, and the break when nothing is ready or in flight. *)
LoopOver == Remaining = {} \/ (NewlyReady = {} /\ inflight = {})

LeaveLoop ==
  /\ pc = "loop"
  /\ LoopOver
  /\ pc' = "settle"
  /\ UNCHANGED <<resolverVars, dispatcherVars>>

(* Promise.race settles once one of the promises it was given has. *)
Wake ==
  /\ pc = "race"
  /\ raced \ inflight # {}
  /\ pc' = "loop"
  /\ raced' = {}
  /\ UNCHANGED <<resolverVars, scheduled, inflight, task, count, queue>>

(* Promise.allSettled over what is left, the cleanup, and the result. *)
Finish ==
  /\ pc = "settle"
  /\ inflight = {}
  /\ pc' = "done"
  /\ UNCHANGED <<resolverVars, dispatcherVars>>

(* A bug: the slot goes back to the pool and the waiter is never woken. *)
ReleaseNoHandoff(n) ==
  /\ count' = count - 1
  /\ queue' = queue
  /\ task' = [task EXCEPT ![n] = "settled"]

(* A bug: a release counts down although it handed its slot on. *)
ReleaseCountsTwice(n) ==
  /\ count' = count - 1
  /\ queue' = IF queue # << >> THEN Tail(queue) ELSE queue
  /\ task' = [m \in Node |->
       IF m = n THEN "settled"
       ELSE IF queue # << >> /\ m = Head(queue) THEN "running" ELSE task[m]]

(* Semaphore.release: the slot goes straight to the oldest waiter. *)
Release(n) ==
  IF queue # << >>
  THEN /\ queue' = Tail(queue)
       /\ task' = [task EXCEPT ![n] = "settled", ![Head(queue)] = "running"]
       /\ count' = count
  ELSE /\ queue' = queue
       /\ task' = [task EXCEPT ![n] = "settled"]
       /\ count' = IF count > 0 THEN count - 1 ELSE count

(* blueprint.run answered: success marks done, a failure or a throw shelves. *)
BlueprintDone(n) ==
  /\ task[n] = "running"
  /\ MarkDone(n) \/ Shelve(n)
  /\ Release(n)
  /\ UNCHANGED <<pc, scheduled, inflight, raced>>

(* dispatchOne's promise settles, and its finally drops the map entry. *)
Settle(n) ==
  /\ task[n] = "settled"
  /\ n \in inflight
  /\ inflight' = inflight \ {n}
  /\ UNCHANGED <<resolverVars, pc, scheduled, raced, task, count, queue>>

Loop == DispatchReady \/ AwaitInflight \/ LeaveLoop \/ Wake \/ Finish

(* A dispatcher that is done, or a constructor that threw, stays so. *)
Terminated ==
  /\ pc \in {"done", "rejected"}
  /\ UNCHANGED vars

Next ==
  \/ Construct
  \/ \E n \in Node, b \in External : ResolveExternal(n, b)
  \/ BeginDispatch
  \/ Loop
  \/ \E n \in Node : BlueprintDone(n) \/ Settle(n)
  \/ Terminated

(***************************************************************************)
(* The event loop runs every ready continuation, and a Blueprint run ends  *)
(* (its adapters carry their own timeouts); nobody has to call dispatch.   *)
(***************************************************************************)
Fairness ==
  /\ WF_vars(Loop)
  /\ \A n \in Node : WF_vars(BlueprintDone(n)) /\ WF_vars(Settle(n))

Spec == Init /\ [][Next]_vars /\ Fairness

Running == {n \in Node : task[n] = "running"}

(***************************************************************************)
(* The semaphore's books agree with reality: the count is the number of    *)
(* nodes inside blueprint.run, it never passes the maximum, nobody waits   *)
(* while a slot is free, and the queue holds each waiter exactly once.     *)
(***************************************************************************)
SlotsAccounted ==
  /\ count = Cardinality(Running)
  /\ count <= MaxConcurrent
  /\ queue # << >> => count = MaxConcurrent
  /\ \A n \in Node : task[n] = "queued" <=> \E i \in 1 .. Len(queue) : queue[i] = n
  /\ \A i, j \in 1 .. Len(queue) : queue[i] = queue[j] => i = j

(***************************************************************************)
(* No node enters dispatchOne before every id it is blocked by has been    *)
(* released: an unknown blocker blocks until it is resolved, a failed one  *)
(* blocks unless bypass is on.                                             *)
(***************************************************************************)
BlockersReleasedFirst ==
  \A n \in Node : task[n] # "idle" => \A b \in Blockers(graph, n) : Released(n, b)

(***************************************************************************)
(* A node's Blueprint runs at most once in a dispatch, although the node   *)
(* stays "pending" and so "ready" in the resolver while it runs.           *)
(***************************************************************************)
RunsOnce ==
  [][\A n \in Node :
       /\ task[n] = "running" => task'[n] \in {"running", "settled"}
       /\ task[n] = "settled" => task'[n] = "settled"]_vars

(***************************************************************************)
(* dispatch() returns only when nothing runnable is left: a node still     *)
(* pending then has a blocker that was never released, and nothing is      *)
(* still running.  Lists that name a blocker twice are the exception: an   *)
(* unknown blocker is counted twice and released once.                     *)
(***************************************************************************)
NoDuplicates(g) ==
  \A n \in Node : \A i, j \in 1 .. Len(g[n]) : g[n][i] = g[n][j] => i = j

NothingRunnableLeft ==
  pc = "done" =>
    /\ Running = {} /\ queue = << >>
    /\ NoDuplicates(graph) =>
         \A n \in Remaining : \E b \in Blockers(graph, n) : ~Released(n, b)

(***************************************************************************)
(* The constructor throws exactly on the graphs it must reject: those with *)
(* a cycle among known nodes, where a duplicated known blocker also counts *)
(* as one.                                                                 *)
(***************************************************************************)
Cyclic(g) ==
  \E S \in SUBSET Node :
    S # {} /\ \A n \in S : Blockers(g, n) \cap S # {}

DuplicatedKnown(g) ==
  \E n \in Node : \E i, j \in 1 .. Len(g[n]) :
    i # j /\ g[n][i] = g[n][j] /\ g[n][i] \in Node

RejectsExactlyCycles ==
  /\ pc = "rejected" => Cyclic(graph) \/ DuplicatedKnown(graph)
  /\ pc \notin {"new", "rejected"} => ~Cyclic(graph) /\ ~DuplicatedKnown(graph)

(***************************************************************************)
(* A dispatch that began returns, whatever its nodes' outcomes.            *)
(***************************************************************************)
Returns == pc = "loop" ~> pc = "done"

(***************************************************************************)
(* The dispatcher implements the abstract schedule: what is queued for a   *)
(* slot is still waiting, and a node's outcome is the resolver's status.   *)
(***************************************************************************)
Schedule ==
  INSTANCE DagSchedule WITH
    needs <- [n \in Node |-> Blockers(graph, n) \ resolved[n]],
    st    <- [n \in Node |-> IF task[n] = "running" THEN "running"
                             ELSE IF status[n] = "pending" THEN "waiting"
                             ELSE status[n]]

ImplementsSchedule == Schedule!Spec

=============================================================================
