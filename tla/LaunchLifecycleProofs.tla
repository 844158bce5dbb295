----------------------- MODULE LaunchLifecycleProofs -----------------------
(***************************************************************************)
(* Safety of park versus start, for any set of executions and roles and    *)
(* any number of parks, unparks, crashes and teardown faults.              *)
(***************************************************************************)
EXTENDS LaunchLifecycle, TLAPS

(* Whoever runs a closeout holds the mutex, so nobody else's ticket is at  *)
(* its head.                                                               *)
LockHeld ==
  stage # "idle" => lock # <<>> /\ Head(lock).op \in {"park", "replay"}

TypeInv == TypeOK /\ LockHeld

(* The bridge starts with an empty mutex, no rows and nothing running. *)
LEMMA TypeInit == Init => TypeInv
<1> SUFFICES ASSUME Init PROVE TypeInv
  OBVIOUS
<1>1. TypeOK
  BY DEF Init, TypeOK, ClaimState, SessionState, IntentState, Target, PC, Stage, Tick
<1>2. LockHeld
  BY DEF Init, LockHeld
<1> QED
  BY <1>1, <1>2 DEF TypeInv

(* A queued ticket is a ticket, and what was at the head stays there. *)
LEMMA QueueForTyped ==
  ASSUME lock \in Seq(Ticket), NEW op \in Operation, NEW x \in Exec \cup {None},
         QueueFor(op, x)
  PROVE  /\ lock' \in Seq(Ticket) /\ lock' # <<>>
         /\ lock # <<>> => Head(lock') = Head(lock)
BY DEF QueueFor, Ticket

(* Taking a ticket off leaves a queue of tickets. *)
LEMMA UnlockTyped ==
  ASSUME lock \in Seq(Ticket), lock # <<>>, Unlock
  PROVE  lock' \in Seq(Ticket)
BY DEF Unlock

(* A step of a launch keeps every variable in its type, and takes only its *)
(* own ticket off the mutex.                                               *)
LEMMA LaunchTyped ==
  ASSUME TypeInv, NEW e \in Exec, Launching(e)
  PROVE  TypeInv'
<1> USE RoleAssumption DEF TypeInv, TypeOK, LockHeld, closeoutVars, tickVars
<1>0. UNCHANGED <<closeoutVars, tickVars>>
  BY DEF Launching
<1>1. CASE StartCheck(e)
  <2>1. lock' \in Seq(Ticket) /\ lock' # <<>> /\ (lock # <<>> => Head(lock') = Head(lock))
    BY <1>1, QueueForTyped DEF StartCheck, Operation
  <2> QED
    BY <1>0, <1>1, <2>1 DEF StartCheck, At, PC, rows, outside
<1>2. CASE RefuseAdmission(e)
  <2>1. stage = "idle" /\ lock' \in Seq(Ticket)
    BY <1>2, UnlockTyped DEF RefuseAdmission, Holds
  <2> QED
    BY <1>0, <1>2, <2>1 DEF RefuseAdmission, At, PC, Over, rows, outside
<1>3. CASE Admit(e)
  <2>1. stage = "idle" /\ lock' \in Seq(Ticket)
    BY <1>3, UnlockTyped DEF Admit, Holds
  <2> QED
    BY <1>0, <1>3, <2>1 DEF Admit, At, PC, BeforeCommit, ClaimState, outside
<1>4. CASE Prepare(e)
  <2>1. lock' \in Seq(Ticket) /\ lock' # <<>> /\ (lock # <<>> => Head(lock') = Head(lock))
    BY <1>4, QueueForTyped DEF Prepare, Operation
  <2> QED
    BY <1>0, <1>4, <2>1 DEF Prepare, At, PC, BeforeCommit, Target, rows
<1>5. CASE PrepareFails(e)
  BY <1>0, <1>5 DEF PrepareFails, At, PC, Over, Forget, storeVars, rows, outside
<1>6. CASE Commit(e)
  <2>1. stage = "idle" /\ lock' \in Seq(Ticket)
    BY <1>6, UnlockTyped DEF Commit, Holds
  <2> QED
    BY <1>0, <1>6, <2>1 DEF Commit, At, PC, Committed, rows, outside
<1>7. CASE AbortCommit(e)
  <2>1. stage = "idle" /\ lock' \in Seq(Ticket)
    BY <1>7, UnlockTyped DEF AbortCommit, Holds
  <2> QED
    BY <1>0, <1>7, <2>1 DEF AbortCommit, At, PC, Over, Forget, Unregistered, Target, rows
<1>8. CASE HydrateFails(e)
  BY <1>0, <1>8 DEF HydrateFails, At, PC, Over, Forget, Unregistered, Target, ClaimState
<1>9. CASE EmitStarted(e)
  BY <1>0, <1>9 DEF EmitStarted, At, PC, Committed, SessionState, outside
<1>10. CASE WorktreeReady(e)
  <2>1. lock' \in Seq(Ticket) /\ lock' # <<>> /\ (lock # <<>> => Head(lock') = Head(lock))
    BY <1>10, QueueForTyped DEF WorktreeReady, Operation
  <2> QED
    BY <1>0, <1>10, <2>1 DEF WorktreeReady, At, PC, Committed, outside
<1>11. CASE WorktreeUnmarked(e)
  BY <1>0, <1>11 DEF WorktreeUnmarked, At, PC, Committed, storeVars, rows, outside
<1>12. CASE Activate(e)
  <2>1. stage = "idle" /\ lock' \in Seq(Ticket)
    BY <1>12, UnlockTyped DEF Activate, Holds
  <2> QED
    BY <1>0, <1>12, <2>1 DEF Activate, At, PC, Committed, ClaimState, outside
<1>13. CASE Launch(e)
  BY <1>0, <1>13 DEF Launch, At, PC, Committed, Target, rows
<1>14. CASE BlueprintFails(e)
  BY <1>0, <1>14 DEF BlueprintFails, At, PC, Committed, SessionState, outside
<1>15. CASE RunnerCompletes(e)
  <2>1. session' \in [Exec -> SessionState]
    BY <1>15 DEF RunnerCompletes, SessionState
  <2>2. alive' \in SUBSET Exec
    BY <1>15 DEF RunnerCompletes
  <2>3. pc' \in [Exec -> PC]
    BY <1>15 DEF RunnerCompletes, At, PC, Committed
  <2> QED
    BY <1>0, <1>15, <2>1, <2>2, <2>3 DEF RunnerCompletes
<1>16. CASE RunnerFails(e)
  BY <1>0, <1>16 DEF RunnerFails, At, PC, Committed, SessionState
<1>17. CASE SpawnFailed(e)
  BY <1>0, <1>17 DEF SpawnFailed, At, PC, Over, Forget, Unregistered, Target, ClaimState
<1>18. CASE Settle(e)
  BY <1>0, <1>18 DEF Settle, At, PC, Over, Forget, storeVars, rows, outside
<1>19. CASE LostRunnerExits(e)
  BY <1>0, <1>19 DEF LostRunnerExits, launchVars, rows
<1> QED
  BY <1>1, <1>2, <1>3, <1>4, <1>5, <1>6, <1>7, <1>8, <1>9, <1>10, <1>11, <1>12, <1>13,
     <1>14, <1>15, <1>16, <1>17, <1>18, <1>19
  DEF Launching, PromptStep, AwaitedStep

(* Collecting the nodes gives sets of executions. *)
LEMMA CollectTyped ==
  ASSUME TypeOK, Collect
  PROVE  /\ stage' = "turn" /\ todo' \in SUBSET Exec /\ rowless' \in SUBSET Exec
         /\ midLaunch' \in SUBSET Exec /\ seen' \in SUBSET Exec
         /\ blocked' = {} /\ unread' = {}
         /\ UNCHANGED <<cur, target, faults>>
BY DEF Collect, TypeOK, SessionRows, OpenClaims

(* A teardown call counts its failures in the natural numbers. *)
LEMMA AttemptTyped ==
  ASSUME faults \in Nat, NEW ok \in BOOLEAN, Attempt(ok)
  PROVE  faults' \in Nat
BY DEF Attempt

(* Concluding a node keeps the closeout's variables in their types and the *)
(* closeout running.                                                       *)
LEMMA ConcludeTyped ==
  ASSUME TypeOK, NEW e \in Exec, NEW c \in Target, NEW ok \in BOOLEAN,
         NEW sure \in BOOLEAN, Conclude(e, c, ok, sure)
  PROVE  /\ claim' \in [Exec -> ClaimState]
         /\ blocked' \in SUBSET Exec /\ todo' \in SUBSET Exec
         /\ stage' \in {"turn", "nodes"} /\ cur' = None /\ target' = "none"
         /\ UNCHANGED <<rowless, midLaunch, seen>>
<1>1. claim' \in [Exec -> ClaimState]
  BY DEF Conclude, TypeOK, ClaimState
<1>2. blocked' \in SUBSET Exec /\ todo' \in SUBSET Exec
  BY DEF Conclude, TypeOK
<1>3. stage' \in {"turn", "nodes"} /\ cur' = None /\ target' = "none"
  BY DEF Conclude
<1> QED
  BY <1>1, <1>2, <1>3 DEF Conclude

(* A step of the closeout keeps every variable in its type, and releases   *)
(* the mutex only when it ends.                                            *)
LEMMA CloseoutTyped ==
  ASSUME TypeInv, CloseoutGoesOn
  PROVE  TypeInv'
<1> USE FaultsAssumption DEF TypeInv, TypeOK, LockHeld
<1>0. tick' \in Tick /\ UNCHANGED <<launchVars, parks, unparks, crashes>>
  BY DEF CloseoutGoesOn, Tick
<1>1. ASSUME NEW e \in Exec, CloseRowless(e)
      PROVE  TypeInv'
  <2>1. PICK ok \in BOOLEAN :
          /\ Attempt(ok)
          /\ comm' = IF Open(e) \/ ~ok THEN comm ELSE [comm EXCEPT ![e] = "none"]
          /\ blocked' = IF Open(e) \/ ~ok THEN blocked \cup {e} ELSE blocked
    BY <1>1 DEF CloseRowless
  <2>2. faults' \in Nat
    BY <2>1, AttemptTyped
  <2>3. comm' \in [Exec -> Target] /\ blocked' \in SUBSET Exec
    BY <2>1 DEF Target
  <2>4. stage # "idle" /\ stage' = "turn"
    BY <1>1 DEF CloseRowless, NextNode, Iterating
  <2> QED
    BY <1>0, <1>1, <2>2, <2>3, <2>4 DEF CloseRowless, Stage, ClaimState, launchVars
<1>2. ASSUME NEW e \in Exec, CloseGone(e)
      PROVE  TypeInv'
  <2>1. PICK read \in BOOLEAN, ok \in BOOLEAN, sure \in BOOLEAN :
          /\ Attempt(read /\ ok /\ sure)
          /\ unread' = IF read THEN unread ELSE unread \cup {e}
          /\ comm' = IF ok THEN [comm EXCEPT ![e] = "none"] ELSE comm
          /\ Conclude(e, IF ok THEN "none" ELSE comm[e], ok, sure)
    BY <1>2 DEF CloseGone
  <2>2. faults' \in Nat
    BY <2>1, AttemptTyped
  <2>5. /\ comm' \in [Exec -> Target] /\ unread' \in SUBSET Exec
        /\ (IF ok THEN "none" ELSE comm[e]) \in Target
    BY <2>1 DEF Target
  <2>3. /\ claim' \in [Exec -> ClaimState]
        /\ blocked' \in SUBSET Exec /\ todo' \in SUBSET Exec
        /\ stage' \in {"turn", "nodes"} /\ cur' = None /\ target' = "none"
        /\ UNCHANGED <<rowless, midLaunch, seen>>
    BY <2>1, <2>5, ConcludeTyped
  <2>4. stage # "idle"
    BY <1>2 DEF CloseGone, NextNode, Iterating
  <2> QED
    BY <1>0, <1>2, <2>2, <2>3, <2>4, <2>5
    DEF CloseGone, Stage, Target, Terminated, SessionState, launchVars
<1>3. ASSUME NEW e \in Exec, CloseFound(e)
      PROVE  TypeInv'
  <2>1. stage # "idle"
    BY <1>3 DEF CloseFound, NextNode, Iterating
  <2> QED
    BY <1>0, <1>3, <2>1 DEF CloseFound, Stage, Terminated, SessionState, launchVars, outside
<1>4. CASE Kill
  BY <1>0, <1>4 DEF Kill, Stage, launchVars, rows
<1>5. CASE KillFails
  <2>1. faults' \in Nat
    BY <1>5, AttemptTyped DEF KillFails
  <2>2. cur \in Exec /\ comm[cur] \in Target
    BY <1>5 DEF KillFails
  <2>3. /\ claim' \in [Exec -> ClaimState]
        /\ blocked' \in SUBSET Exec /\ todo' \in SUBSET Exec
        /\ stage' \in {"turn", "nodes"} /\ cur' = None /\ target' = "none"
        /\ UNCHANGED <<rowless, midLaunch, seen>>
    <3>1. PICK sure \in BOOLEAN : Conclude(cur, comm[cur], FALSE, sure)
      BY <1>5 DEF KillFails
    <3> QED
      BY <2>2, <3>1, ConcludeTyped
  <2> QED
    BY <1>0, <1>5, <2>1, <2>3 DEF KillFails, Stage, Target, launchVars, outside
<1>6. CASE Finalize
  <2>1. cur \in Exec
    BY <1>6 DEF Finalize
  <2>2. PICK ok \in BOOLEAN, sure \in BOOLEAN :
          /\ Attempt(ok /\ sure)
          /\ comm' = IF ok THEN [comm EXCEPT ![cur] = "none"] ELSE comm
          /\ Conclude(cur, IF ok THEN "none" ELSE comm[cur], ok, sure)
    BY <1>6 DEF Finalize
  <2>3. faults' \in Nat
    BY <2>2, AttemptTyped
  <2>4. comm' \in [Exec -> Target] /\ (IF ok THEN "none" ELSE comm[cur]) \in Target
    BY <2>1, <2>2 DEF Target
  <2>5. /\ claim' \in [Exec -> ClaimState]
        /\ blocked' \in SUBSET Exec /\ todo' \in SUBSET Exec
        /\ stage' \in {"turn", "nodes"} /\ cur' = None /\ target' = "none"
        /\ UNCHANGED <<rowless, midLaunch, seen>>
    BY <2>1, <2>2, <2>4, ConcludeTyped
  <2> QED
    BY <1>0, <1>6, <2>3, <2>4, <2>5 DEF Finalize, Stage, Target, launchVars
<1>7. ASSUME NEW outcome \in IntentState, Record(outcome), faults' \in Nat, stage # "idle"
      PROVE  TypeInv'
  <2>1. lock' \in Seq(Ticket)
    BY <1>7, UnlockTyped DEF Record
  <2> QED
    BY <1>0, <1>7, <2>1 DEF Record, Stage, launchVars, outside
<1>8. CASE EndBlocked
  BY <1>7, <1>8 DEF EndBlocked, IntentState, Iterating
<1>9. CASE StartItems
  BY <1>0, <1>9 DEF StartItems, Stage, launchVars, storeVars, rows, outside, Iterating
<1>10. CASE EndItems
  <2>1. PICK outcome \in IntentState : Record(outcome)
    BY <1>10 DEF EndItems, IntentState
  <2>2. faults' \in Nat
    BY <1>10, AttemptTyped DEF EndItems
  <2> QED
    BY <1>7, <1>10, <2>1, <2>2 DEF EndItems
<1> QED
  BY <1>1, <1>2, <1>3, <1>4, <1>5, <1>6, <1>8, <1>9, <1>10 DEF CloseoutGoesOn, CloseoutStep

(* The type invariant, with the mutex discipline, is inductive. *)
LEMMA TypeStep == TypeInv /\ [Next]_vars => TypeInv'
<1> SUFFICES ASSUME TypeInv, [Next]_vars
             PROVE  TypeInv'
  OBVIOUS
<1> USE DEF TypeInv, TypeOK, LockHeld
<1>1. ASSUME NEW e \in Exec, Launching(e)
      PROVE  TypeInv'
  BY <1>1, LaunchTyped
<1>2. ASSUME NEW op \in {"park", "unpark", "replay"}, QueueFor(op, None)
      PROVE  lock' \in Seq(Ticket) /\ lock' # <<>> /\ (lock # <<>> => Head(lock') = Head(lock))
  BY <1>2, QueueForTyped DEF Operation
<1>3. CASE ParkRequest
  BY <1>2, <1>3, BoundsAssumption DEF ParkRequest, rows, outside, launchVars, closeoutVars
<1>4. CASE Park
  BY <1>4, CollectTyped DEF Park, Holds, IntentState, Stage, Target, outside, launchVars, tickVars
<1>5. CASE UnparkRequest
  BY <1>2, <1>5, BoundsAssumption DEF UnparkRequest, rows, outside, launchVars, closeoutVars
<1>6. CASE Unpark
  <2>1. stage = "idle" /\ lock' \in Seq(Ticket)
    BY <1>6, UnlockTyped DEF Unpark, Holds
  <2> QED
    BY <1>6, <2>1 DEF Unpark, IntentState, outside, launchVars, closeoutVars, tickVars
<1>7. CASE CloseoutGoesOn
  BY <1>7, CloseoutTyped
<1>8. CASE TickLists
  BY <1>8 DEF TickLists, Tick, storeVars, rows, outside, launchVars, closeoutVars
<1>9. CASE TickReplays
  BY <1>2, <1>9 DEF TickReplays, Tick, rows, outside, launchVars, closeoutVars
<1>10. CASE Replay
  BY <1>10, CollectTyped DEF Replay, Holds, Stage, storeVars, rows, outside, launchVars, tickVars
<1>11. CASE ReapStale
  BY <1>11 DEF ReapStale, Tick, ClaimState, outside, launchVars, closeoutVars
<1>12. CASE Crash
  <2>1. pc' \in [Exec -> PC] /\ inflight' \in [Role -> Exec \cup {None}]
    BY <1>12 DEF Crash, PC, Over
  <2>2. lock' \in Seq(Ticket) /\ crashes' \in Nat
    BY <1>12, BoundsAssumption DEF Crash
  <2> QED
    BY <1>12, <2>1, <2>2 DEF Crash, Stage, Tick, Target, rows, outside
<1>13. CASE UNCHANGED vars
  BY <1>13 DEF vars, storeVars, rows, outside, launchVars, closeoutVars, tickVars
<1> QED
  BY <1>1, <1>3, <1>4, <1>5, <1>6, <1>7, <1>8, <1>9, <1>10, <1>11, <1>12, <1>13 DEF Next

(* Every variable keeps its type, and a running closeout holds the mutex,  *)
(* in every behaviour of the bridge.                                       *)
THEOREM TypeInvariant == Spec => []TypeInv
BY TypeInit, TypeStep, PTL DEF Spec

THEOREM TypeCorrect == Spec => []TypeOK
BY TypeInvariant, PTL DEF TypeInv

-----------------------------------------------------------------------------
(***************************************************************************)
(* The safety properties of park versus start, from one inductive          *)
(* invariant in four parts: what a launch has written by the time it       *)
(* reaches each point, what a tombstone means for launches before their    *)
(* commit gate, what a running closeout still owes to open claims, and     *)
(* what it owes to the runners it saw alive.                               *)
(***************************************************************************)

(* Before emitStarted there is no session row; from the worktree on there  *)
(* are both rows.                                                          *)
RowsWritten ==
  \A e \in Exec :
    /\ pc[e] \in {"idle", "admitting", "denied", "threw", "hydrating"} \cup BeforeCommit
         => session[e] = "none"
    /\ pc[e] \in {"creating", "activating"} => session[e] # "none"
    /\ pc[e] = "activating" => e \in bound

LaunchInv == RowsWritten /\ ActiveIsDurable /\ InflightIsLive

(* Where a closeout stands: a node under teardown has a session row, and   *)
(* the issue items come after every node.                                  *)
CloseoutShape ==
  /\ stage \in {"kill", "finalize"} => session[cur] # "none" /\ cur \in todo
  /\ stage = "items" => todo = {} /\ blocked = {}

(* Under a tombstone, an open claim before its commit gate is one that the *)
(* running closeout has yet to cancel.                                     *)
TombstoneInv ==
  Parked => \A e \in Exec :
    pc[e] \in BeforeCommit /\ Open(e) => stage # "idle" /\ e \in todo

(* A park closeout that nothing blocks still has every open claim to do,   *)
(* and a complete tombstone has none.                                      *)
ClaimsOwed ==
  /\ stage # "idle" /\ Parked /\ blocked = {} => OpenClaims \subseteq todo
  /\ CompleteHasNoOpenClaims

(* The places a start() can be in once its window existed. *)
PastLaunch == {"working", "succeeding", "failing", "ended", "lost"}

(* A runner that was alive and registered when the nodes were collected is *)
(* still to be torn down, being torn down, gone, blocks the issue, or had  *)
(* a row that could not be read.                                           *)
RunnersOwed ==
  /\ \A e \in alive : pc[e] \in PastLaunch
  /\ stage = "idle" => seen = {}
  /\ \A e \in seen :
       /\ session[e] # "none" /\ pc[e] \in PastLaunch
       /\ e \in todo => comm[e] = "window"
       /\ e \notin todo => e \notin alive \/ e \in blocked \/ e \in unread
       /\ stage = "kill" /\ cur = e => target = "window"
       /\ stage = "finalize" /\ cur = e => e \notin alive

SafetyInv ==
  /\ TypeInv
  /\ LaunchInv
  /\ CloseoutShape
  /\ TombstoneInv
  /\ ClaimsOwed
  /\ RunnersOwed

(* Nothing has happened when the bridge first starts. *)
LEMMA SafetyInit == Init => SafetyInv
<1> SUFFICES ASSUME Init PROVE SafetyInv
  OBVIOUS
<1>1. LaunchInv
  BY NoneAssumption DEF Init, LaunchInv, RowsWritten, ActiveIsDurable, InflightIsLive, BeforeCommit
<1>2. CloseoutShape /\ TombstoneInv
  BY DEF Init, CloseoutShape, TombstoneInv, Parked, BeforeCommit
<1>3. ClaimsOwed /\ RunnersOwed
  BY DEF Init, ClaimsOwed, CompleteHasNoOpenClaims, RunnersOwed
<1> QED
  BY <1>1, <1>2, <1>3, TypeInit DEF SafetyInv

(* The steps of a closeout leave the launches alone, never create or lose  *)
(* a session row, and never open a claim.                                  *)
LEMMA CloseoutFrame ==
  ASSUME TypeInv, CloseoutGoesOn
  PROVE  /\ UNCHANGED <<pc, inflight, bound>>
         /\ \A e \in Exec : session'[e] = "none" <=> session[e] = "none"
         /\ \A e \in Exec : claim'[e] = claim[e] \/ claim'[e] \in {"cancelled", "closed"}
<1> USE DEF TypeInv, TypeOK, rows, outside, storeVars
<1>1. UNCHANGED <<pc, inflight>>
  BY DEF CloseoutGoesOn, launchVars
<1>2. ASSUME NEW e \in Exec, NEW c, NEW ok, NEW sure, Conclude(e, c, ok, sure)
      PROVE  \A x \in Exec : claim'[x] = claim[x] \/ claim'[x] \in {"cancelled", "closed"}
  BY <1>2 DEF Conclude
<1>3. ASSUME NEW e \in Exec, CloseRowless(e) \/ CloseGone(e) \/ CloseFound(e)
      PROVE  /\ UNCHANGED bound
             /\ \A x \in Exec : session'[x] = "none" <=> session[x] = "none"
             /\ \A x \in Exec : claim'[x] = claim[x] \/ claim'[x] \in {"cancelled", "closed"}
  BY <1>2, <1>3 DEF CloseRowless, CloseGone, CloseFound, Terminated
<1>4. CASE Kill \/ StartItems \/ EndBlocked \/ EndItems
  <2>1. UNCHANGED <<claim, session, bound>>
    BY <1>4 DEF Kill, StartItems, EndBlocked, EndItems, Record
  <2> QED
    BY <1>1, <2>1
<1>5. CASE KillFails \/ Finalize
  <2>1. cur \in Exec
    BY <1>5 DEF KillFails, Finalize
  <2> QED
    BY <1>1, <1>2, <1>5, <2>1 DEF KillFails, Finalize
<1> QED
  BY <1>1, <1>3, <1>4, <1>5 DEF CloseoutGoesOn, CloseoutStep

(* What a launch has written by each point: every step of every actor.     *)
LEMMA LaunchInvStep ==
  ASSUME TypeInv, TypeInv', LaunchInv, Next
  PROVE  LaunchInv'
<1> USE DEF LaunchInv, RowsWritten, ActiveIsDurable, TypeInv, TypeOK, rows, outside, storeVars,
            BeforeCommit
<1>1. ASSUME NEW e \in Exec, Launching(e)
      PROVE  RowsWritten' /\ ActiveIsDurable'
  <2>1. CASE StartCheck(e) \/ RefuseAdmission(e) \/ Admit(e)
    BY <2>1 DEF StartCheck, RefuseAdmission, Admit, At
  <2>2. CASE Prepare(e) \/ PrepareFails(e) \/ Commit(e) \/ AbortCommit(e)
    BY <2>2 DEF Prepare, PrepareFails, Commit, AbortCommit, At
  <2>3. CASE HydrateFails(e) \/ EmitStarted(e)
    BY <2>3 DEF HydrateFails, EmitStarted, At
  <2>4. CASE WorktreeReady(e) \/ WorktreeUnmarked(e) \/ Activate(e)
    BY <2>4 DEF WorktreeReady, WorktreeUnmarked, Activate, At
  <2>5. CASE Launch(e) \/ BlueprintFails(e) \/ RunnerFails(e)
    BY <2>5 DEF Launch, BlueprintFails, RunnerFails, At
  <2>6. CASE RunnerCompletes(e)
    BY <2>6 DEF RunnerCompletes, At
  <2>7. CASE SpawnFailed(e) \/ Settle(e) \/ LostRunnerExits(e)
    BY <2>7 DEF SpawnFailed, Settle, LostRunnerExits, At, launchVars
  <2> QED
    BY <1>1, <2>1, <2>2, <2>3, <2>4, <2>5, <2>6, <2>7 DEF Launching, PromptStep, AwaitedStep
<1>2. ASSUME NEW e \in Exec, Launching(e)
      PROVE  InflightIsLive'
  <2> USE RoleAssumption, NoneAssumption DEF InflightIsLive, Committed
  <2>1. CASE StartCheck(e) \/ RefuseAdmission(e) \/ Admit(e)
    BY <2>1 DEF StartCheck, RefuseAdmission, Admit, At
  <2>2. CASE Prepare(e)
    BY <2>2 DEF Prepare, At
  <2>3. CASE PrepareFails(e) \/ AbortCommit(e) \/ HydrateFails(e)
    BY <2>3 DEF PrepareFails, AbortCommit, HydrateFails, At, Forget
  <2>4. CASE Commit(e) \/ EmitStarted(e) \/ WorktreeReady(e) \/ WorktreeUnmarked(e)
    BY <2>4 DEF Commit, EmitStarted, WorktreeReady, WorktreeUnmarked, At
  <2>5. CASE Activate(e) \/ Launch(e) \/ BlueprintFails(e) \/ RunnerFails(e) \/ RunnerCompletes(e)
    BY <2>5 DEF Activate, Launch, BlueprintFails, RunnerFails, RunnerCompletes, At
  <2>6. CASE SpawnFailed(e) \/ Settle(e)
    BY <2>6 DEF SpawnFailed, Settle, At, Forget
  <2>7. CASE LostRunnerExits(e)
    BY <2>7 DEF LostRunnerExits, launchVars
  <2> QED
    BY <1>2, <2>1, <2>2, <2>3, <2>4, <2>5, <2>6, <2>7 DEF Launching, PromptStep, AwaitedStep
<1>3. CASE CloseoutGoesOn
  BY <1>3, CloseoutFrame DEF InflightIsLive
<1>4. CASE ParkRequest \/ Park \/ UnparkRequest \/ Unpark
  BY <1>4 DEF ParkRequest, Park, UnparkRequest, Unpark, launchVars, InflightIsLive
<1>5. CASE TickLists \/ TickReplays \/ Replay
  BY <1>5 DEF TickLists, TickReplays, Replay, launchVars, InflightIsLive
<1>6. CASE ReapStale
  BY <1>6 DEF ReapStale, launchVars, InflightIsLive
<1>7. CASE Crash
  BY <1>7 DEF Crash, Over, InflightIsLive
<1> QED
  BY <1>1, <1>2, <1>3, <1>4, <1>5, <1>6, <1>7 DEF Next

(* A step of a launch leaves the tombstone and the closeout alone, loses   *)
(* no session row, opens no claim and enters no commit gate under a        *)
(* tombstone, and never comes back from a window that existed.             *)
LEMMA LaunchFrame ==
  ASSUME TypeInv, NEW e \in Exec, Launching(e)
  PROVE  /\ UNCHANGED <<intent, closeoutVars, tickVars>>
         /\ \A x \in Exec : session[x] # "none" => session'[x] # "none"
         /\ \A x \in Exec : claim'[x] \in {"starting", "active"} => Open(x) \/ ~Parked
         /\ \A x \in Exec : pc'[x] \in BeforeCommit => pc[x] \in BeforeCommit \/ ~Parked
         /\ \A x \in Exec : pc[x] \in PastLaunch => pc'[x] \in PastLaunch
         /\ \A x \in alive' : x \in alive \/ (pc[x] = "launching" /\ pc'[x] = "working")
         /\ \A x \in Exec :
              pc[x] \in PastLaunch /\ comm[x] = "window" => comm'[x] = "window"
<1> USE DEF TypeInv, TypeOK, rows, outside, storeVars, BeforeCommit, PastLaunch, Open
<1>0. UNCHANGED <<closeoutVars, tickVars>>
  BY DEF Launching
<1>1. CASE StartCheck(e) \/ RefuseAdmission(e)
  BY <1>0, <1>1 DEF StartCheck, RefuseAdmission, At
<1>2. CASE Admit(e)
  BY <1>0, <1>2 DEF Admit, At
<1>3. CASE Prepare(e) \/ PrepareFails(e)
  BY <1>0, <1>3 DEF Prepare, PrepareFails, At
<1>4. CASE Commit(e) \/ AbortCommit(e)
  BY <1>0, <1>4 DEF Commit, AbortCommit, At, Unregistered
<1>5. CASE HydrateFails(e) \/ EmitStarted(e)
  BY <1>0, <1>5 DEF HydrateFails, EmitStarted, At, Unregistered
<1>6. CASE WorktreeReady(e) \/ WorktreeUnmarked(e) \/ Activate(e)
  BY <1>0, <1>6 DEF WorktreeReady, WorktreeUnmarked, Activate, At
<1>7. CASE Launch(e) \/ BlueprintFails(e)
  BY <1>0, <1>7 DEF Launch, BlueprintFails, At
<1>8. CASE RunnerFails(e)
  BY <1>0, <1>8 DEF RunnerFails, At
<1>9. CASE RunnerCompletes(e)
  <2>1. PICK s \in SessionState \ {"none"} :
          session' = [session EXCEPT ![e] = IF session[e] = "none" THEN session[e] ELSE s]
    BY <1>9 DEF RunnerCompletes, SessionState
  <2>2. alive' \subseteq alive /\ UNCHANGED <<claim, intent, comm>>
    BY <1>9 DEF RunnerCompletes
  <2>3. pc' = [pc EXCEPT ![e] = "succeeding"] \/ pc' = [pc EXCEPT ![e] = "failing"]
    BY <1>9 DEF RunnerCompletes, At
  <2>4. pc[e] = "working"
    BY <1>9 DEF RunnerCompletes, At
  <2> QED
    BY <1>0, <2>1, <2>2, <2>3, <2>4
<1>10. CASE SpawnFailed(e) \/ Settle(e)
  BY <1>0, <1>10 DEF SpawnFailed, Settle, At, Unregistered
<1>11. CASE LostRunnerExits(e)
  BY <1>0, <1>11 DEF LostRunnerExits, launchVars
<1> QED
  BY <1>1, <1>2, <1>3, <1>4, <1>5, <1>6, <1>7, <1>8, <1>9, <1>10, <1>11
  DEF Launching, PromptStep, AwaitedStep

(* A node under teardown keeps its row and its place in the work list, and *)
(* the issue items wait for every node.                                    *)
LEMMA CloseoutShapeStep ==
  ASSUME TypeInv, CloseoutShape, Next
  PROVE  CloseoutShape'
<1> USE DEF TypeInv, TypeOK, CloseoutShape
<1>1. ASSUME NEW e \in Exec, Launching(e)
      PROVE  CloseoutShape'
  BY <1>1, LaunchFrame DEF closeoutVars
<1>2. CASE CloseoutGoesOn
  <2>1. \A e \in Exec : session'[e] = "none" <=> session[e] = "none"
    BY <1>2, CloseoutFrame
  <2>2. ASSUME NEW e \in Exec, CloseRowless(e) \/ CloseGone(e)
        PROVE  stage' \in {"turn", "nodes"}
    BY <2>2 DEF CloseRowless, CloseGone, Conclude
  <2>3. ASSUME NEW e \in Exec, CloseFound(e)
        PROVE  CloseoutShape'
    BY <2>1, <2>3 DEF CloseFound, NextNode
  <2>4. CASE Kill
    BY <2>1, <2>4 DEF Kill
  <2>5. CASE KillFails \/ Finalize
    BY <2>5 DEF KillFails, Finalize, Conclude
  <2>6. CASE EndBlocked \/ StartItems \/ EndItems
    BY <2>6 DEF EndBlocked, StartItems, EndItems, Record, Iterating
  <2> QED
    BY <1>2, <2>2, <2>3, <2>4, <2>5, <2>6 DEF CloseoutGoesOn, CloseoutStep
<1>3. CASE Park \/ Replay
  BY <1>3 DEF Park, Replay, Collect
<1>4. CASE ParkRequest \/ UnparkRequest \/ Unpark \/ TickLists \/ TickReplays \/ ReapStale
  BY <1>4 DEF ParkRequest, UnparkRequest, Unpark, TickLists, TickReplays, ReapStale,
     rows, storeVars, closeoutVars
<1>5. CASE Crash
  BY <1>5 DEF Crash
<1> QED
  BY <1>1, <1>2, <1>3, <1>4, <1>5 DEF Next

(* A closeout step takes at most one node off the work list: one with a    *)
(* session row, or a bare claim that it leaves cancelled, closed or        *)
(* active.  Unless the step blocks the issue, that node's claim is not     *)
(* open any more.                                                          *)
LEMMA CloseoutWork ==
  ASSUME TypeInv, CloseoutShape, CloseoutGoesOn, stage' # "idle"
  PROVE  /\ stage # "idle" /\ intent' = intent
         /\ blocked \subseteq blocked'
         /\ \A e \in todo \ todo' :
              /\ session[e] # "none" \/ claim'[e] # "starting"
              /\ blocked' = {} => claim'[e] \notin {"starting", "active"}
<1> USE DEF TypeInv, TypeOK, rows, outside, storeVars
<1>1. ASSUME NEW e \in Exec, NEW c, NEW ok, NEW sure, Conclude(e, c, ok, sure), session[e] # "none"
      PROVE  /\ blocked \subseteq blocked'
             /\ \A x \in todo \ todo' :
                  /\ session[x] # "none" \/ claim'[x] # "starting"
                  /\ blocked' = {} => claim'[x] \notin {"starting", "active"}
  BY <1>1 DEF Conclude
<1>2. ASSUME NEW e \in Exec, CloseRowless(e)
      PROVE  /\ stage # "idle" /\ intent' = intent /\ blocked \subseteq blocked'
             /\ \A x \in todo \ todo' :
                  /\ session[x] # "none" \/ claim'[x] # "starting"
                  /\ blocked' = {} => claim'[x] \notin {"starting", "active"}
  BY <1>2 DEF CloseRowless, NextNode, Iterating, Open
<1>3. ASSUME NEW e \in Exec, CloseGone(e)
      PROVE  /\ stage # "idle" /\ intent' = intent /\ blocked \subseteq blocked'
             /\ \A x \in todo \ todo' :
                  /\ session[x] # "none" \/ claim'[x] # "starting"
                  /\ blocked' = {} => claim'[x] \notin {"starting", "active"}
  BY <1>1, <1>3 DEF CloseGone, NextNode, Iterating
<1>4. ASSUME NEW e \in Exec, CloseFound(e)
      PROVE  stage # "idle" /\ intent' = intent /\ UNCHANGED <<blocked, todo>>
  BY <1>4 DEF CloseFound, NextNode, Iterating
<1>5. CASE Kill \/ StartItems
  BY <1>5 DEF Kill, StartItems, Iterating
<1>6. CASE KillFails \/ Finalize
  <2>1. cur \in Exec /\ session[cur] # "none" /\ stage # "idle" /\ intent' = intent
    BY <1>6 DEF KillFails, Finalize, CloseoutShape
  <2> QED
    BY <1>1, <1>6, <2>1 DEF KillFails, Finalize
<1>7. CASE EndBlocked \/ EndItems
  BY <1>7 DEF EndBlocked, EndItems, Record
<1> QED
  BY <1>2, <1>3, <1>4, <1>5, <1>6, <1>7 DEF CloseoutGoesOn, CloseoutStep

(* A closeout ends only when its work list is empty.                       *)
LEMMA CloseoutEnds ==
  ASSUME TypeInv, CloseoutShape, CloseoutGoesOn, stage' = "idle"
  PROVE  /\ todo = {} /\ stage # "idle"
         /\ UNCHANGED claim /\ (Parked' <=> Parked)
         /\ intent' = "complete" => intent = "complete" \/ (Parked /\ blocked = {})
<1>1. ASSUME NEW e \in Exec, CloseRowless(e) \/ CloseGone(e) \/ CloseFound(e)
      PROVE  FALSE
  BY <1>1 DEF CloseRowless, CloseGone, CloseFound, Conclude
<1>2. CASE Kill \/ KillFails \/ Finalize \/ StartItems
  BY <1>2 DEF Kill, KillFails, Finalize, StartItems, Conclude
<1>3. CASE EndBlocked
  BY <1>3 DEF EndBlocked, Record, Iterating, Parked
<1>4. CASE EndItems
  BY <1>4 DEF EndItems, Record, CloseoutShape, Parked
<1> QED
  BY <1>1, <1>2, <1>3, <1>4 DEF CloseoutGoesOn, CloseoutStep

(* Admission is refused under a tombstone, and a park works through every  *)
(* open claim before it lets the mutex go.                                 *)
LEMMA TombstoneStep ==
  ASSUME TypeInv, LaunchInv, CloseoutShape, TombstoneInv, Next
  PROVE  TombstoneInv'
<1> USE DEF TypeInv, TypeOK, TombstoneInv, Parked, Open
<1>1. ASSUME NEW e \in Exec, Launching(e)
      PROVE  TombstoneInv'
  BY <1>1, LaunchFrame DEF closeoutVars
<1>2. CASE CloseoutGoesOn
  <2>1. /\ UNCHANGED pc
        /\ \A e \in Exec : claim'[e] = claim[e] \/ claim'[e] \in {"cancelled", "closed"}
    BY <1>2, CloseoutFrame
  <2>2. CASE stage' = "idle"
    BY <1>2, <2>1, <2>2, CloseoutEnds
  <2>3. CASE stage' # "idle"
    <3>1. \A e \in Exec : pc[e] \in BeforeCommit => session[e] = "none" /\ claim[e] # "active"
      BY DEF LaunchInv, RowsWritten, ActiveIsDurable
    <3> QED
      BY <1>2, <2>1, <2>3, <3>1, CloseoutWork
  <2> QED
    BY <2>2, <2>3
<1>3. CASE Park \/ Replay
  BY <1>3 DEF Park, Replay, Collect, OpenClaims, storeVars, rows, launchVars
<1>4. CASE ParkRequest \/ UnparkRequest \/ Unpark \/ TickLists \/ TickReplays
  BY <1>4 DEF ParkRequest, UnparkRequest, Unpark, TickLists, TickReplays,
     rows, storeVars, launchVars, closeoutVars
<1>5. CASE ReapStale
  BY <1>5 DEF ReapStale, launchVars, closeoutVars
<1>6. CASE Crash
  BY <1>6 DEF Crash, BeforeCommit, Over
<1> QED
  BY <1>1, <1>2, <1>3, <1>4, <1>5, <1>6 DEF Next

(* No claim is lost from the work list of a park that may complete.        *)
LEMMA ClaimsOwedStep ==
  ASSUME TypeInv, CloseoutShape, ClaimsOwed, Next
  PROVE  ClaimsOwed'
<1> USE DEF TypeInv, TypeOK, ClaimsOwed, CompleteHasNoOpenClaims, Parked, Open, OpenClaims
<1>1. ASSUME NEW e \in Exec, Launching(e)
      PROVE  ClaimsOwed'
  BY <1>1, LaunchFrame DEF closeoutVars
<1>2. CASE CloseoutGoesOn
  <2>1. \A e \in Exec : claim'[e] = claim[e] \/ claim'[e] \in {"cancelled", "closed"}
    BY <1>2, CloseoutFrame
  <2>2. CASE stage' = "idle"
    BY <1>2, <2>1, <2>2, CloseoutEnds
  <2>3. CASE stage' # "idle"
    BY <1>2, <2>1, <2>3, CloseoutWork
  <2> QED
    BY <2>2, <2>3
<1>3. CASE Park \/ Replay
  BY <1>3 DEF Park, Replay, Collect, storeVars, rows
<1>4. CASE ParkRequest \/ UnparkRequest \/ Unpark \/ TickLists \/ TickReplays
  BY <1>4 DEF ParkRequest, UnparkRequest, Unpark, TickLists, TickReplays,
     rows, storeVars, closeoutVars
<1>5. CASE ReapStale
  BY <1>5 DEF ReapStale, closeoutVars
<1>6. CASE Crash
  BY <1>6 DEF Crash, rows
<1> QED
  BY <1>1, <1>2, <1>3, <1>4, <1>5, <1>6 DEF Next

(* What RunnersOwed says of one runner the closeout has seen alive.        *)
Owed(e) ==
  /\ session[e] # "none" /\ pc[e] \in PastLaunch
  /\ e \in todo => comm[e] = "window"
  /\ e \notin todo => e \notin alive \/ e \in blocked \/ e \in unread
  /\ stage = "kill" /\ cur = e => target = "window"
  /\ stage = "finalize" /\ cur = e => e \notin alive

(* A closeout never forgets a runner it has seen alive: it takes the node  *)
(* off its list only with the window gone, the issue blocked or its row    *)
(* unread.                                                                 *)
LEMMA CloseoutOwes ==
  ASSUME TypeInv, CloseoutShape, RunnersOwed, CloseoutGoesOn, stage' # "idle"
  PROVE  /\ stage # "idle" /\ seen' = seen /\ alive' \subseteq alive
         /\ \A e \in seen : Owed(e)'
<1> USE DEF TypeInv, TypeOK, rows, outside, storeVars, RunnersOwed, Owed
<1>0. UNCHANGED pc /\ (\A e \in Exec : session'[e] = "none" <=> session[e] = "none")
  BY CloseoutFrame
<1>1. ASSUME NEW e \in Exec, CloseRowless(e)
      PROVE  stage # "idle" /\ seen' = seen /\ alive' \subseteq alive /\ \A x \in seen : Owed(x)'
  <2>1. e \notin seen /\ stage # "idle" /\ UNCHANGED <<seen, alive>> /\ stage' = "turn"
    BY <1>1 DEF CloseRowless, NextNode, Iterating
  <2>2. \A x \in seen : comm'[x] = comm[x] /\ (x \in todo' <=> x \in todo)
    BY <1>1, <2>1 DEF CloseRowless
  <2>3. blocked \subseteq blocked' /\ UNCHANGED unread
    BY <1>1 DEF CloseRowless
  <2> QED
    BY <1>0, <2>1, <2>2, <2>3
<1>2. ASSUME NEW e \in Exec, CloseGone(e)
      PROVE  stage # "idle" /\ seen' = seen /\ alive' \subseteq alive /\ \A x \in seen : Owed(x)'
  <2>1. stage # "idle" /\ UNCHANGED <<seen, alive>>
    BY <1>2 DEF CloseGone, NextNode, Iterating, Conclude
  <2>2. /\ todo' = todo \ {e} /\ blocked \subseteq blocked'
        /\ stage' \in {"turn", "nodes"}
    BY <1>2 DEF CloseGone, Conclude
  <2>3. /\ unread \subseteq unread' /\ (e \in seen => e \in unread')
        /\ \A x \in Exec \ {e} : comm'[x] = comm[x]
    BY <1>2 DEF CloseGone, NextNode
  <2> QED
    BY <1>0, <2>1, <2>2, <2>3
<1>3. ASSUME NEW e \in Exec, CloseFound(e)
      PROVE  stage # "idle" /\ seen' = seen /\ alive' \subseteq alive /\ \A x \in seen : Owed(x)'
  BY <1>0, <1>3 DEF CloseFound, NextNode, Iterating
<1>4. CASE Kill
  BY <1>0, <1>4 DEF Kill
<1>5. CASE KillFails
  <2>1. /\ cur \in Exec /\ todo' = todo \ {cur} /\ blocked' = blocked \cup {cur}
        /\ stage' \in {"turn", "nodes"} /\ UNCHANGED <<seen, alive, comm, unread>>
    BY <1>5 DEF KillFails, Conclude
  <2> QED
    BY <1>0, <1>5, <2>1 DEF KillFails
<1>6. CASE Finalize
  <2>1. /\ cur \in Exec /\ todo' = todo \ {cur} /\ blocked \subseteq blocked'
        /\ stage' \in {"turn", "nodes"} /\ UNCHANGED <<seen, alive, unread>>
        /\ stage = "finalize"
    BY <1>6 DEF Finalize, Conclude
  <2>2. \A x \in Exec \ {cur} : comm'[x] = comm[x]
    BY <1>6, <2>1 DEF Finalize
  <2> QED
    BY <1>0, <2>1, <2>2
<1>7. CASE StartItems
  BY <1>0, <1>7 DEF StartItems, Iterating
<1>8. CASE EndBlocked \/ EndItems
  BY <1>8 DEF EndBlocked, EndItems, Record
<1> QED
  BY <1>1, <1>2, <1>3, <1>4, <1>5, <1>6, <1>7, <1>8 DEF CloseoutGoesOn, CloseoutStep

(* Runners seen alive stay accounted for while launches, requests and the  *)
(* tick interleave with the closeout.                                      *)
LEMMA RunnersOwedStep ==
  ASSUME TypeInv, CloseoutShape, RunnersOwed, Next
  PROVE  RunnersOwed'
<1> USE DEF TypeInv, TypeOK, RunnersOwed
<1>1. ASSUME NEW e \in Exec, Launching(e)
      PROVE  RunnersOwed'
  <2>1. UNCHANGED <<stage, todo, cur, target, blocked, seen, unread>>
    BY <1>1, LaunchFrame DEF closeoutVars
  <2>2. \A x \in alive' : pc'[x] \in PastLaunch
    BY <1>1, LaunchFrame DEF PastLaunch
  <2>3. ASSUME NEW x \in seen
        PROVE  /\ session'[x] # "none" /\ pc'[x] \in PastLaunch
               /\ comm[x] = "window" => comm'[x] = "window"
               /\ x \notin alive => x \notin alive'
    BY <1>1, <2>3, LaunchFrame DEF PastLaunch
  <2> QED
    BY <2>1, <2>2, <2>3
<1>2. CASE CloseoutGoesOn
  <2>1. CASE stage' # "idle"
    BY <1>2, <2>1, CloseoutOwes, CloseoutFrame DEF Owed
  <2>2. CASE stage' = "idle"
    <3>1. UNCHANGED <<alive, pc>> /\ seen' = {}
      <4>1. CASE EndBlocked \/ EndItems
        BY <1>2, <4>1, CloseoutFrame DEF EndBlocked, EndItems, Record, outside
      <4>2. CASE Kill \/ KillFails \/ Finalize \/ StartItems
        BY <2>2, <4>2 DEF Kill, KillFails, Finalize, StartItems, Conclude
      <4>3. ASSUME NEW e \in Exec, CloseRowless(e) \/ CloseGone(e) \/ CloseFound(e)
            PROVE  FALSE
        BY <2>2, <4>3 DEF CloseRowless, CloseGone, CloseFound, Conclude
      <4> QED
        BY <1>2, <4>1, <4>2, <4>3 DEF CloseoutGoesOn, CloseoutStep
    <3> QED
      BY <2>2, <3>1
  <2> QED
    BY <2>1, <2>2
<1>3. CASE Park \/ Replay
  BY <1>3 DEF Park, Replay, Collect, SessionRows, storeVars, rows, outside, launchVars
<1>4. CASE ParkRequest \/ UnparkRequest \/ Unpark \/ TickLists \/ TickReplays
  BY <1>4 DEF ParkRequest, UnparkRequest, Unpark, TickLists, TickReplays,
     rows, outside, storeVars, launchVars, closeoutVars
<1>5. CASE ReapStale
  BY <1>5 DEF ReapStale, outside, launchVars, closeoutVars
<1>6. CASE Crash
  BY <1>6 DEF Crash, rows, outside, PastLaunch, Over
<1> QED
  BY <1>1, <1>2, <1>3, <1>4, <1>5, <1>6 DEF Next

(* The four parts together are inductive.                                  *)
LEMMA SafetyStep == SafetyInv /\ [Next]_vars => SafetyInv'
<1> SUFFICES ASSUME SafetyInv, [Next]_vars
             PROVE  SafetyInv'
  OBVIOUS
<1>1. TypeInv'
  BY TypeStep DEF SafetyInv
<1>2. CASE Next
  BY <1>1, <1>2, LaunchInvStep, CloseoutShapeStep, TombstoneStep, ClaimsOwedStep, RunnersOwedStep
  DEF SafetyInv
<1>3. CASE UNCHANGED vars
  <2> USE <1>3 DEF SafetyInv, vars, storeVars, rows, outside, launchVars, closeoutVars, tickVars
  <2>1. LaunchInv'
    BY DEF LaunchInv, RowsWritten, ActiveIsDurable, InflightIsLive
  <2>2. CloseoutShape' /\ RunnersOwed'
    BY DEF CloseoutShape, RunnersOwed
  <2>3. TombstoneInv' /\ ClaimsOwed'
    BY DEF TombstoneInv, ClaimsOwed, CompleteHasNoOpenClaims, OpenClaims, Open, Parked
  <2> QED
    BY <1>1, <2>1, <2>2, <2>3
<1> QED
  BY <1>2, <1>3

(* Park versus start keeps its invariant in every behaviour.               *)
THEOREM SafetyInvariant == Spec => []SafetyInv
BY SafetyInit, SafetyStep, PTL DEF Spec

------------------------------------------------------------------------------
(* An active claim has a durable session row and worktree binding.         *)
THEOREM ActiveClaimsAreDurable == Spec => []ActiveIsDurable
<1>1. SafetyInv => ActiveIsDurable
  BY DEF SafetyInv, LaunchInv
<1> QED
  BY <1>1, SafetyInvariant, PTL

(* The dedup map only names launches that are under way.                   *)
THEOREM InflightIsAlwaysLive == Spec => []InflightIsLive
<1>1. SafetyInv => InflightIsLive
  BY DEF SafetyInv, LaunchInv
<1> QED
  BY <1>1, SafetyInvariant, PTL

(* A tombstone recorded complete leaves no open launch claim.              *)
THEOREM CompleteParkIsFinished == Spec => []CompleteHasNoOpenClaims
<1>1. SafetyInv => CompleteHasNoOpenClaims
  BY DEF SafetyInv, ClaimsOwed
<1> QED
  BY <1>1, SafetyInvariant, PTL

(* No launch passes its commit gate while the issue is parked.             *)
THEOREM ParkStopsCommits == Spec => NoCommitUnderTombstone
<1>1. ASSUME SafetyInv, Next, NEW e \in Exec, pc[e] = "committing", pc'[e] = "hydrating"
      PROVE  ~Parked
  <2> USE DEF SafetyInv, TypeInv, TypeOK
  <2>1. PICK x \in Exec : Launching(x)
    <3>1. CASE CloseoutGoesOn
      BY <1>1, <3>1, CloseoutFrame
    <3>2. CASE Crash
      BY <1>1, <3>2 DEF Crash
    <3>3. CASE ParkRequest \/ Park \/ UnparkRequest \/ Unpark \/ TickLists \/ TickReplays
               \/ Replay \/ ReapStale
      BY <1>1, <3>3 DEF ParkRequest, Park, UnparkRequest, Unpark, TickLists, TickReplays,
         Replay, ReapStale, launchVars
    <3> QED
      BY <1>1, <3>1, <3>2, <3>3 DEF Next
  <2>2. Commit(x)
    BY <1>1, <2>1 DEF Launching, PromptStep, AwaitedStep, StartCheck, RefuseAdmission, Admit,
       Prepare, PrepareFails, AbortCommit, HydrateFails, EmitStarted, WorktreeReady,
       WorktreeUnmarked, Activate, Launch, BlueprintFails, RunnerCompletes, RunnerFails,
       SpawnFailed, Settle, LostRunnerExits, At, launchVars
  <2>3. x = e /\ Open(e) /\ stage = "idle"
    BY <1>1, <2>2 DEF Commit, At, Holds, LockHeld
  <2> QED
    BY <1>1, <2>3 DEF TombstoneInv, BeforeCommit
<1>2. SafetyInv /\ [Next]_vars =>
        [\A e \in Exec : pc[e] = "committing" /\ pc'[e] = "hydrating" => ~Parked]_vars
  BY <1>1
<1> QED
  BY <1>2, SafetyInvariant, PTL DEF Spec, NoCommitUnderTombstone

(* A park is recorded complete only with every runner it saw alive gone,   *)
(* but for one whose registry row could not be read.                       *)
THEOREM CompleteParkTearsDown == Spec => RegisteredRunnersTornDown
<1>1. ASSUME SafetyInv, Next, intent # "complete", intent' = "complete"
      PROVE  \A e \in seen : e \notin alive \/ e \in unread
  <2>1. CloseoutGoesOn /\ EndItems
    <3>1. ASSUME NEW e \in Exec, Launching(e)
          PROVE  FALSE
      BY <1>1, <3>1, LaunchFrame DEF SafetyInv
    <3>2. CASE Crash \/ ParkRequest \/ Park \/ UnparkRequest \/ Unpark \/ TickLists
               \/ TickReplays \/ Replay \/ ReapStale
      BY <1>1, <3>2 DEF Crash, ParkRequest, Park, UnparkRequest, Unpark, TickLists,
         TickReplays, Replay, ReapStale, storeVars, rows
    <3>3. CASE CloseoutGoesOn
      <4>1. CASE stage' # "idle"
        BY <1>1, <3>3, <4>1, CloseoutWork DEF SafetyInv
      <4>2. CASE stage' = "idle"
        BY <1>1, <3>3, <4>2 DEF CloseoutGoesOn, CloseoutStep, CloseRowless, CloseGone,
           CloseFound, Kill, KillFails, Finalize, EndBlocked, StartItems, Conclude, Record
      <4> QED
        BY <4>1, <4>2
    <3> QED
      BY <1>1, <3>1, <3>2, <3>3 DEF Next
  <2> QED
    BY <1>1, <2>1 DEF EndItems, SafetyInv, CloseoutShape, RunnersOwed
<1>2. SafetyInv /\ [Next]_vars =>
        [intent # "complete" /\ intent' = "complete" =>
           \A e \in seen : e \notin alive \/ e \in unread]_vars
  BY <1>1
<1> QED
  BY <1>2, SafetyInvariant, PTL DEF Spec, RegisteredRunnersTornDown

=============================================================================
