--------------------------- MODULE IssueCloseout ---------------------------
(***************************************************************************)
(* closeoutIssueLocked with disposition founder_parked: collect the nodes  *)
(* of the issue, take each through transition, teardown and confirmation,  *)
(* then record the outcome on the tombstone.  It runs under the issue      *)
(* mutex, but launches past their commit gate go on meanwhile.  The park   *)
(* paths pass neither a budget nor a fresh-authority probe.                *)
(***************************************************************************)
EXTENDS LifecycleStore

CONSTANTS
  OperatorItems,  \* may openPrDisposal leave items for an operator?
  MaxFaults       \* bound: turns of the closeout in which a call fails

ASSUME OperatorAssumption == OperatorItems \in BOOLEAN
ASSUME FaultsAssumption   == MaxFaults \in Nat

VARIABLES
  stage,      \* where the running closeout stands
  todo,       \* collected nodes not yet closed
  rowless,    \* nodes collected as launch claims without a session row
  midLaunch,  \* nodes collected with claimInFlight
  cur,        \* the node being torn down
  target,     \* the tmux target closeRunner read for cur
  blocked,    \* nodes that set anyBlocked
  seen,       \* history: live registered runners when nodes were collected
  unread,     \* history: nodes whose CommDB row could not be read since
  faults

closeoutVars ==
  <<stage, todo, rowless, midLaunch, cur, target, blocked, seen, unread, faults>>

(* "turn": in the middle of a synchronous turn; "nodes": back from an      *)
(* awaited liveness probe; the others: awaiting an external call.          *)
Stage     == {"idle", "turn", "nodes", "kill", "finalize", "items"}
Iterating == stage \in {"turn", "nodes"}

(* A bug: nodes come from the session rows alone. *)
CollectRowsOnly ==
  /\ stage = "idle" /\ stage' = "turn"
  /\ todo' = SessionRows
  /\ rowless' = {}
  /\ midLaunch' = {e \in SessionRows \cap OpenClaims : e \notin bound}
  /\ seen' = {e \in SessionRows : e \in alive /\ comm[e] = "window"}
  /\ blocked' = {} /\ unread' = {}
  /\ UNCHANGED <<cur, target, faults>>

(* collectIssueCloseoutNodes *)
Collect ==
  /\ stage = "idle" /\ stage' = "turn"
  /\ todo' = SessionRows \cup OpenClaims
  /\ rowless' = OpenClaims \ SessionRows
  /\ midLaunch' = {e \in SessionRows \cap OpenClaims : e \notin bound}
  /\ seen' = {e \in SessionRows : e \in alive /\ comm[e] = "window"}
  /\ blocked' = {} /\ unread' = {}
  /\ UNCHANGED <<cur, target, faults>>

(* Session rows come first in the collected map, bare claims after them. *)
NextNode(e) ==
  /\ Iterating /\ e \in todo
  /\ e \in rowless => todo \subseteq rowless

(* The external calls of a turn all work, or some fail: counted as one. *)
Attempt(ok) ==
  \/ ok /\ UNCHANGED faults
  \/ ~ok /\ faults < MaxFaults /\ faults' = faults + 1

(* The last part of the loop body: confirm with a fresh CommDB lookup and  *)
(* liveness probe (awaited only when there is a row to probe), where c is  *)
(* the CommDB row; close the claim if the runner is gone.  Not sure: the   *)
(* lookup or the probe fails, which counts as not gone.                    *)
Conclude(e, c, ok, sure) ==
  LET gone == sure /\ e \notin midLaunch /\ ~(c = "window" /\ e \in alive)
  IN /\ claim' = [claim EXCEPT ![e] = IF gone THEN "closed" ELSE @]
     /\ blocked' = IF ok /\ gone THEN blocked ELSE blocked \cup {e}
     /\ todo' = todo \ {e}
     /\ stage' \in IF c = "none" \/ e \in midLaunch THEN {"turn"}
                  ELSE IF sure THEN {"nodes"} ELSE {"turn", "nodes"}
     /\ cur' = None /\ target' = "none"
     /\ UNCHANGED <<rowless, midLaunch, seen>>

(* A bug: the starting claim of a rowless node is left for the dispatcher. *)
CloseRowlessWaits(e) ==
  /\ NextNode(e) /\ session[e] = "none"
  /\ todo' = todo \ {e}
  /\ blocked' = IF Open(e) THEN blocked \cup {e} ELSE blocked
  /\ \E ok \in IF Open(e) THEN {TRUE} ELSE BOOLEAN :
       /\ Attempt(ok)
       /\ comm' = IF Open(e) \/ ~ok THEN comm ELSE [comm EXCEPT ![e] = "none"]
  /\ stage' = "turn"
  /\ UNCHANGED <<claim, session, bound, intent, alive, lock>>
  /\ UNCHANGED <<rowless, midLaunch, cur, target, seen, unread>>

(* closeoutOneNode, no session row: cancel a starting claim and wait one   *)
(* more pass, wait for an active one, or finalize the communications.      *)
CloseRowless(e) ==
  /\ NextNode(e) /\ session[e] = "none"
  /\ claim' = [claim EXCEPT ![e] = IF @ = "starting" THEN "cancelled" ELSE @]
  /\ todo' = todo \ {e}
  /\ \E ok \in IF Open(e) THEN {TRUE} ELSE BOOLEAN :
       /\ Attempt(ok)
       /\ comm' = IF Open(e) \/ ~ok THEN comm ELSE [comm EXCEPT ![e] = "none"]
       /\ blocked' = IF Open(e) \/ ~ok THEN blocked \cup {e} ELSE blocked
  /\ stage' = "turn"
  /\ UNCHANGED <<session, bound, intent, alive, lock>>
  /\ UNCHANGED <<rowless, midLaunch, cur, target, seen, unread>>

Terminated(e) == [session EXCEPT ![e] = IF @ = "running" THEN "terminated" ELSE @]

(* A session node without a target: closeRunner reports it already gone    *)
(* and finalizes its row, kill and window untouched.  A row that is absent *)
(* and a row that could not be read look alike (getTmuxTargetFromCommDb).  *)
CloseGone(e) ==
  /\ NextNode(e) /\ session[e] # "none"
  /\ session' = Terminated(e)
  /\ \E read, ok, sure \in BOOLEAN :
       /\ read => comm[e] = "none"
       /\ Attempt(read /\ ok /\ sure)
       /\ unread' = IF read THEN unread ELSE unread \cup {e}
       /\ comm' = IF ok THEN [comm EXCEPT ![e] = "none"] ELSE comm
       /\ Conclude(e, IF ok THEN "none" ELSE comm[e], ok, sure)
  /\ UNCHANGED <<bound, intent, alive, lock>>

(* A bug: the node under teardown is not remembered across the kill. *)
CloseFoundForgetsNode(e) ==
  /\ NextNode(e) /\ session[e] # "none" /\ comm[e] # "none"
  /\ session' = Terminated(e)
  /\ stage' = "kill" /\ target' = comm[e]
  /\ UNCHANGED <<claim, bound, intent, outside, lock>>
  /\ UNCHANGED <<todo, rowless, midLaunch, cur, blocked, seen, unread, faults>>

(* A session node whose target was read: closeRunner starts the kill       *)
(* sequence.                                                               *)
CloseFound(e) ==
  /\ NextNode(e) /\ session[e] # "none" /\ comm[e] # "none"
  /\ session' = Terminated(e)
  /\ stage' = "kill" /\ cur' = e /\ target' = comm[e]
  /\ UNCHANGED <<claim, bound, intent, outside, lock>>
  /\ UNCHANGED <<todo, rowless, midLaunch, blocked, seen, unread, faults>>

(* killTmuxWindow: a ":pending" target names no window, which counts as    *)
(* killed.                                                                 *)
Kill ==
  /\ stage = "kill" /\ stage' = "finalize"
  /\ alive' = IF target = "window" THEN alive \ {cur} ELSE alive
  /\ UNCHANGED <<rows, comm, lock>>
  /\ UNCHANGED <<todo, rowless, midLaunch, cur, target, blocked, seen, unread, faults>>

(* A bug: a window that could not be killed does not block the issue. *)
KillFailsUnnoticed ==
  /\ stage = "kill"
  /\ Attempt(FALSE)
  /\ Conclude(cur, "none", TRUE, TRUE)
  /\ UNCHANGED <<session, bound, intent, outside, lock, unread>>

(* killTmuxWindow returns an error: nothing is finalized. *)
KillFails ==
  /\ stage = "kill"
  /\ Attempt(FALSE)
  /\ \E sure \in BOOLEAN : Conclude(cur, comm[cur], FALSE, sure)
  /\ UNCHANGED <<session, bound, intent, outside, lock, unread>>

(* finalizeCommDbSession: delete the execution's row, whatever it says. *)
Finalize ==
  /\ stage = "finalize"
  /\ \E ok, sure \in BOOLEAN :
       /\ Attempt(ok /\ sure)
       /\ comm' = IF ok THEN [comm EXCEPT ![cur] = "none"] ELSE comm
       /\ Conclude(cur, IF ok THEN "none" ELSE comm[cur], ok, sure)
  /\ UNCHANGED <<session, bound, intent, alive, lock, unread>>

(* A founder park records the outcome on the tombstone that was active     *)
(* when the closeout began, and the mutex is released.                     *)
Record(outcome) ==
  /\ intent' = IF Parked THEN outcome ELSE intent
  /\ Unlock
  /\ stage' = "idle"
  /\ rowless' = {} /\ midLaunch' = {} /\ seen' = {} /\ unread' = {} /\ blocked' = {}
  /\ UNCHANGED <<claim, session, bound, outside, todo, cur, target>>

(* Some node is not confirmed gone: the issue-level items are not touched. *)
EndBlocked ==
  /\ Iterating /\ todo = {} /\ blocked # {}
  /\ Record("partial")
  /\ UNCHANGED faults

(* The PR disposal is awaited. *)
StartItems ==
  /\ Iterating /\ todo = {} /\ blocked = {}
  /\ stage' = "items"
  /\ UNCHANGED storeVars
  /\ UNCHANGED <<todo, rowless, midLaunch, cur, target, blocked, seen, unread, faults>>

(* It went through, left items for an operator, or threw. *)
EndItems ==
  /\ stage = "items"
  /\ \/ Record("complete") /\ Attempt(TRUE)
     \/ OperatorItems /\ Record("needs_operator") /\ Attempt(TRUE)
     \/ Record("partial") /\ Attempt(FALSE)

CloseoutStep ==
  \/ \E e \in Exec : CloseRowless(e) \/ CloseGone(e) \/ CloseFound(e)
  \/ Kill \/ KillFails \/ Finalize
  \/ EndBlocked \/ StartItems \/ EndItems

=============================================================================
