---------------------------- MODULE RunnerLaunch ----------------------------
(***************************************************************************)
(* One start() of the RunDispatcher, from its dedup check to the end of    *)
(* the runner: the admission and commit gates of the lifecycle guard, then *)
(* Blueprint.run with the rows DirectEventSink writes on the way.  A step  *)
(* is the code between two awaits of the bridge's event loop.              *)
(***************************************************************************)
EXTENDS LifecycleStore

CONSTANTS
  Role,             \* session roles; start() allows one run per role
  RoleOf,           \* the role each execution is started in
  LegacyWorktrees   \* may a worktree come without a generation marker?

ASSUME RoleAssumption   == RoleOf \in [Exec -> Role]
ASSUME LegacyAssumption == LegacyWorktrees \in BOOLEAN

VARIABLES
  pc,        \* where each start() stands
  inflight   \* RunDispatcher.inflight: role -> execution

launchVars == <<pc, inflight>>

BeforeCommit == {"admitted", "committing"}
Committed    == {"hydrating", "creating", "activating", "launching",
                 "working", "failing", "succeeding"}
Over         == {"denied", "threw", "ended", "lost"}
PC           == {"idle", "admitting"} \cup BeforeCommit \cup Committed \cup Over

At(e, from, to) == pc[e] = from /\ pc' = [pc EXCEPT ![e] = to]

(* inflight.delete(key): whichever execution the key now names. *)
Forget(e) == inflight' = [inflight EXCEPT ![RoleOf[e]] = None]

(* start(): the dedup check, then the ticket for the admission mutex. *)
StartCheck(e) ==
  /\ At(e, "idle", "admitting")
  /\ inflight[RoleOf[e]] = None
  /\ QueueFor("admit", e)
  /\ UNCHANGED <<rows, outside, inflight>>

(* assertIssueNotLifecycleClosed finds the tombstone. *)
RefuseAdmission(e) ==
  /\ Holds("admit", e) /\ Parked
  /\ At(e, "admitting", "denied")
  /\ Unlock
  /\ UNCHANGED <<rows, outside, inflight>>

(* ... or leaves a durable starting claim before the mutex is released. *)
Admit(e) ==
  /\ Holds("admit", e) /\ ~Parked
  /\ At(e, "admitting", "admitted")
  /\ claim' = [claim EXCEPT ![e] = "starting"]
  /\ Unlock
  /\ UNCHANGED <<session, bound, intent, outside, inflight>>

(* The dedup entry, the ":pending" CommDB row, and commitLaunch's ticket:  *)
(* nothing is awaited in between.                                          *)
Prepare(e) ==
  /\ At(e, "admitted", "committing")
  /\ inflight' = [inflight EXCEPT ![RoleOf[e]] = e]
  /\ comm' = [comm EXCEPT ![e] = "pending"]
  /\ QueueFor("commit", e)
  /\ UNCHANGED <<rows, alive>>

(* The workflow claim or the TURN grant fails: start() throws, and the     *)
(* launch claim stays as it is.                                            *)
PrepareFails(e) ==
  /\ At(e, "admitted", "threw")
  /\ Forget(e)
  /\ UNCHANGED storeVars

(* commitLaunch finds the claim still open: Blueprint.run starts. *)
Commit(e) ==
  /\ Holds("commit", e) /\ Open(e)
  /\ At(e, "committing", "hydrating")
  /\ Unlock
  /\ UNCHANGED <<rows, outside, inflight>>

(* A bug: an aborted launch leaves its dedup entry behind. *)
AbortCommitKeepsEntry(e) ==
  /\ Holds("commit", e) /\ ~Open(e)
  /\ At(e, "committing", "threw")
  /\ Unlock
  /\ comm' = Unregistered(e)
  /\ UNCHANGED <<rows, alive, inflight>>

(* ... or finds it cancelled or closed: start() throws. *)
AbortCommit(e) ==
  /\ Holds("commit", e) /\ ~Open(e)
  /\ At(e, "committing", "threw")
  /\ Unlock
  /\ Forget(e)
  /\ comm' = Unregistered(e)
  /\ UNCHANGED <<rows, alive>>

(* hydrate() rejects: run() rejects before any session row is written. *)
HydrateFails(e) ==
  /\ At(e, "hydrating", "ended")
  /\ claim' = [claim EXCEPT ![e] = "closed"]
  /\ comm' = Unregistered(e)
  /\ Forget(e)
  /\ UNCHANGED <<session, bound, intent, alive, lock>>

(* A bug: the launch claim is activated as soon as the session row is in. *)
EmitStartedActivates(e) ==
  /\ At(e, "hydrating", "creating")
  /\ session' = [session EXCEPT ![e] = "running"]
  /\ claim' = [claim EXCEPT ![e] = IF @ = "starting" THEN "active" ELSE @]
  /\ UNCHANGED <<bound, intent, outside, lock, inflight>>

(* emitStarted: the session row, before there is a worktree. *)
EmitStarted(e) ==
  /\ At(e, "hydrating", "creating")
  /\ session' = [session EXCEPT ![e] = "running"]
  /\ UNCHANGED <<claim, bound, intent, outside, lock, inflight>>

(* emitWorktreeReady with a binding: bindWorktreeOnce, then activateLaunch *)
(* asks for the mutex.                                                     *)
WorktreeReady(e) ==
  /\ At(e, "creating", "activating")
  /\ bound' = bound \cup {e}
  /\ QueueFor("activate", e)
  /\ UNCHANGED <<claim, session, intent, outside, inflight>>

(* emitWorktreeReady without a generation: nothing bound nor activated. *)
WorktreeUnmarked(e) ==
  /\ LegacyWorktrees
  /\ At(e, "creating", "launching")
  /\ UNCHANGED <<storeVars, inflight>>

(* activateLaunch: starting -> active; a refusal is only audited. *)
Activate(e) ==
  /\ Holds("activate", e)
  /\ At(e, "activating", "launching")
  /\ claim' = [claim EXCEPT ![e] = IF @ = "starting" THEN "active" ELSE @]
  /\ Unlock
  /\ UNCHANGED <<session, bound, intent, outside, inflight>>

(* TmuxAdapter.execute: the window and its CommDB row, in one turn. *)
Launch(e) ==
  /\ At(e, "launching", "working")
  /\ alive' = alive \cup {e}
  /\ comm' = [comm EXCEPT ![e] = "window"]
  /\ UNCHANGED <<rows, lock, inflight>>

(* A throw or a failed result before the window exists; emitFailed. *)
BlueprintFails(e) ==
  /\ \/ At(e, "creating", "failing")
     \/ At(e, "launching", "failing")
  /\ session' = [session EXCEPT ![e] = "failed"]
  /\ UNCHANGED <<claim, bound, intent, outside, lock, inflight>>

(* The runner is done and emitCompleted moves a session that is not yet    *)
(* terminal; a result may carry a decision and still count as failed.  The *)
(* window may stay open.                                                   *)
RunnerCompletes(e) ==
  /\ \/ At(e, "working", "succeeding")
     \/ At(e, "working", "failing")
  /\ session' \in {[session EXCEPT ![e] = s] :
       s \in IF session[e] = "running" THEN {"running", "failed", "completed"}
             ELSE {session[e]}}
  /\ alive' \in {alive, alive \ {e}}
  /\ UNCHANGED <<claim, bound, intent, comm, lock, inflight>>

(* A timeout, a crash or a killed window; emitFailed overwrites any row. *)
RunnerFails(e) ==
  /\ At(e, "working", "failing")
  /\ session' = [session EXCEPT ![e] = "failed"]
  /\ alive' \in {alive, alive \ {e}}
  /\ UNCHANGED <<claim, bound, intent, comm, lock, inflight>>

(* A bug: the failed run's dedup entry is left behind. *)
SpawnFailedKeepsEntry(e) ==
  /\ At(e, "failing", "ended")
  /\ claim' = [claim EXCEPT ![e] = "closed"]
  /\ comm' = Unregistered(e)
  /\ UNCHANGED <<session, bound, intent, alive, lock, inflight>>

(* onSpawnFailed, cleanupPreRegistration and the finally. *)
SpawnFailed(e) ==
  /\ At(e, "failing", "ended")
  /\ claim' = [claim EXCEPT ![e] = "closed"]
  /\ comm' = Unregistered(e)
  /\ Forget(e)
  /\ UNCHANGED <<session, bound, intent, alive, lock>>

(* The finally of a successful run: the claim is left as it is. *)
Settle(e) ==
  /\ At(e, "succeeding", "ended")
  /\ Forget(e)
  /\ UNCHANGED storeVars

(* The runner of a bridge that crashed exits on its own. *)
LostRunnerExits(e) ==
  /\ pc[e] = "lost" /\ e \in alive
  /\ alive' = alive \ {e}
  /\ UNCHANGED <<rows, comm, lock, launchVars>>

(* Steps that run as soon as the mutex is handed over.  *)
PromptStep(e) ==
  \/ RefuseAdmission(e) \/ Admit(e)
  \/ Prepare(e) \/ PrepareFails(e)
  \/ Commit(e) \/ AbortCommit(e)
  \/ Activate(e)

(* Steps that wait for hydration, git, tmux or the runner. *)
AwaitedStep(e) ==
  \/ HydrateFails(e) \/ EmitStarted(e)
  \/ WorktreeReady(e) \/ WorktreeUnmarked(e)
  \/ Launch(e) \/ BlueprintFails(e)
  \/ RunnerCompletes(e) \/ RunnerFails(e)
  \/ SpawnFailed(e) \/ Settle(e)

=============================================================================
