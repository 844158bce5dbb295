--------------------------- MODULE LifecycleStore ---------------------------
(***************************************************************************)
(* What the bridge keeps about the executions of one issue root: the       *)
(* durable StateStore rows (launch claims, sessions, worktree bindings,    *)
(* the founder's park tombstone), the CommDB session registry, the tmux    *)
(* windows, and the in-memory issue mutex that most writers queue on.      *)
(***************************************************************************)
EXTENDS Naturals, Sequences, FiniteSets

CONSTANTS
  Exec,     \* execution ids, one per start() call
  None      \* no execution

ASSUME NoneAssumption == None \notin Exec

VARIABLES
  claim,    \* lifecycle_launch_claims.state, "none" when there is no row
  session,  \* sessions.status, folded to the classes park tells apart
  bound,    \* the executions with a worktree binding
  intent,   \* closeout_status of the active tombstone, "none" without one
  comm,     \* the CommDB row: "none", a ":pending" target, or a real window
  alive,    \* the executions whose tmux window is alive
  lock      \* the issue mutex: tickets in arrival order, the head holds it

rows       == <<claim, session, bound, intent>>
outside    == <<comm, alive>>
storeVars  == <<rows, outside, lock>>

ClaimState  == {"none", "starting", "active", "cancelled", "closed"}
(* "running" is every status CANCELED_STATUS_ACTIONS maps to terminate,    *)
(* "failed" those it preserves, the rest are already terminal.             *)
SessionState == {"none", "running", "failed", "completed", "terminated"}
IntentState  == {"none", "pending", "partial", "complete", "needs_operator"}
Target       == {"none", "pending", "window"}
Operation    == {"admit", "commit", "activate", "park", "unpark", "replay"}
Ticket       == [op : Operation, exec : Exec \cup {None}]

Open(e)    == claim[e] \in {"starting", "active"}
(* listOpenLaunchClaims *)
OpenClaims == {e \in Exec : Open(e)}
(* getSessionsForIssueAliases *)
SessionRows == {e \in Exec : session[e] # "none"}
(* getActiveIssueDispositionIntent finds a row *)
Parked == intent # "none"
(* listReplayableDispositionIntents *)
Replayable == intent \in {"pending", "partial"}

(* unregisterPendingSession: only a ":pending" row is removed. *)
Unregistered(e) == [comm EXCEPT ![e] = IF @ = "pending" THEN "none" ELSE @]

(* createIssueMutex: a keyed FIFO lock; all writers here share one root. *)
QueueFor(op, e) == lock' = Append(lock, [op |-> op, exec |-> e])
Holds(op, e)    == lock # <<>> /\ Head(lock) = [op |-> op, exec |-> e]
Unlock          == lock' = Tail(lock)

=============================================================================
