----------------------------- MODULE RetryStore -----------------------------
(***************************************************************************)
(* What the lead gateway and the bridge share when a founder-confirmed     *)
(* retry is dispatched: the HTTP calls, the successor ids bound to the     *)
(* gateway's requests, the CommDB row and the tmux panes of the successors. *)
(* A request names its successor: the binding is write-once, one to one.   *)
(***************************************************************************)
EXTENDS Naturals, Sequences, FiniteSets

CONSTANTS
  Request,    \* retry requests for one issue and role
  Call,       \* POST /api/actions/retry calls the gateway may make
  RequestOf,  \* the request each call carries
  None        \* no request, no call

ASSUME RequestAssumption == RequestOf \in [Call -> Request]
ASSUME NameAssumption ==
  /\ None \notin Request \cup Call
  /\ Call \cap {"none", "pending", "empty"} = {}
  /\ Call \cap {"idle", "create", "drive", "consumed", "recover"} = {}

VARIABLES
  call,    \* where each HTTP call stands
  bound,   \* the requests with a bound successor id
  target,  \* the successor's CommDB row: none, ":pending", or a call's window
  shell,   \* the pane each call's launch opened
  up       \* is the bridge process up?

Handled   == {"probing", "closing", "queued", "committing", "launched"}
Answered  == {"success", "refused", "lost"}
CallState == {"unused", "sent"} \cup Handled \cup Answered
(* "dead": a gated shell that gave up or was killed; "exited": a runner    *)
(* that has come to its end.                                               *)
PaneState == {"none", "waiting", "runner", "exited", "dead"}

Moves(c, from, to) == call[c] = from /\ call' = [call EXCEPT ![c] = to]

PaneAlive(c) == shell[c] \in {"waiting", "runner"}

(* What checkStartedEvidence may find for the successor of r.  A lookup or *)
(* a probe may fail; a pane that has exited may still be listed.           *)
Evidence(r) ==
  {"lookup_error"} \cup
    IF target[r] \in Call
      THEN {"started"} \cup (IF PaneAlive(target[r]) THEN {} ELSE {"not_started"})
      ELSE {"not_started"}

=============================================================================
