---------------------------- MODULE RetryLaunch ----------------------------
(***************************************************************************)
(* Founder-confirmed retries end to end: the gateway and the bridge, each  *)
(* of which may crash and come back, and the panes that outlive both.      *)
(***************************************************************************)
EXTENDS RetryGateway

vars == <<call, bound, target, shell, up, bridgeVars, gatewayVars>>

Init ==
  /\ call = [c \in Call |-> "unused"]
  /\ bound = {}
  /\ target = [r \in Request |-> "none"]
  /\ shell = [c \in Call |-> "none"]
  /\ up = TRUE
  /\ wal = {} /\ claims = {}
  /\ token = [r \in Request |-> None]
  /\ sess = [r \in Request |-> "none"]
  /\ inflight = None /\ mutex = <<>>
  /\ run = [c \in Call |-> "none"]
  /\ bridgeCrashes = 0
  /\ req = [r \in Request |-> "none"]
  /\ consumed = {}
  /\ at = [r \in Request |-> "idle"]
  /\ gatewayCrashes = 0

BridgeStep ==
  \/ \E c \in Call : CallStep(c) \/ RunStep(c) \/ PaneStep(c)
  \/ \E r \in Request : ReapOrphan(r)
  \/ BridgeCrash \/ BridgeStart

(* The bridge, the panes and the crashes leave the gateway's state alone. *)
Next ==
  \/ \E r \in Request : RequestStep(r)
  \/ Crash
  \/ BridgeStep /\ UNCHANGED gatewayVars

(* Each process goes on as long as it is up and is started again when it   *)
(* is not.  Nobody has to request, to confirm or to crash.                 *)
Fairness ==
  /\ \A r \in Request : /\ WF_vars(Bind(r)) /\ WF_vars(Expire(r))
                        /\ WF_vars(DriveStep(r))
  /\ \A c \in Call : WF_vars(CallStep(c) /\ UNCHANGED gatewayVars)
  /\ \A c \in Call : WF_vars(RunStep(c) /\ UNCHANGED gatewayVars)
  /\ WF_vars(BridgeStart /\ UNCHANGED gatewayVars)

Spec     == Init /\ [][Next]_vars
FairSpec == Spec /\ Fairness

-----------------------------------------------------------------------------

TypeOK ==
  /\ call \in [Call -> CallState]
  /\ bound \subseteq Request
  /\ target \in [Request -> {"none", "pending"} \cup Call]
  /\ shell \in [Call -> PaneState]
  /\ up \in BOOLEAN
  /\ wal \subseteq Request /\ claims \subseteq Request
  /\ token \in [Request -> {None, "empty"} \cup Call]
  /\ sess \in [Request -> SessionState]
  /\ inflight \in Request \cup {None}
  /\ mutex \in Seq(Call)
  /\ run \in [Call -> RunState]
  /\ bridgeCrashes \in 0..MaxBridgeCrashes
  /\ req \in [Request -> RequestState]
  /\ consumed \subseteq Request
  /\ at \in [Request -> Position]
  /\ gatewayCrashes \in 0..MaxGatewayCrashes

(* The claim, checked before any worktree or window, makes a successor     *)
(* start exactly once: of all the launches of one request, across crashes  *)
(* of both processes, at most one shell ever became a runner.  So it is    *)
(* while no other operation holds the issue mutex for long.                *)
Ran(c) == shell[c] \in {"runner", "exited"}
OneRunner == \A c, d \in Call :
  Ran(c) /\ Ran(d) /\ RequestOf[c] = RequestOf[d] => c = d

(* A commit file that holds a token is a true adopt record: the shell that *)
(* waits for this token is there to become the runner, or has become it.   *)
AdoptRecordIsTrue == \A r \in Request :
  token[r] \in Call => shell[token[r]] \in {"waiting", "runner", "exited"}

(* No call reaches the bridge for a request whose founder's consent was    *)
(* not consumed, at whatever point the gateway crashed and drove on.       *)
ConsentFirst == \A c \in Call : call[c] # "unused" => RequestOf[c] \in consumed

(* handleRetry looks at the dedup map, then awaits the end of the old      *)
(* window; still the role never has two blueprint runs under way, of one   *)
(* request or of two.                                                      *)
OneRunAtATime == \A c, d \in Call :
  run[c] \in Running /\ run[d] \in Running => c = d

(* Whatever crashes, a request that was made is settled: it succeeds, is   *)
(* refused, or is handed back to the founder.                              *)
RequestsSettle == \A r \in Request :
  req[r] # "none" ~> req[r] \in Settled

(* The request as the founder sees it: open from the row to its outcome.   *)
Opened == [r \in Request |->
  IF req[r] \in Settled \cup {"none"} THEN req[r] ELSE "open"]

SentCalls == {c \in Call : call[c] # "unused"}
Runners   == {c \in Call : Ran(c)}

Contract == INSTANCE RetryContract WITH
  state <- Opened, sent <- SentCalls, started <- Runners

(* Gateway, bridge and panes keep the contract of a founder-confirmed      *)
(* retry at every step, while nobody else holds the issue mutex for long.  *)
ImplementsContract == Contract!Spec

=============================================================================
