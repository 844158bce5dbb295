---------------------------- MODULE RetryGateway ----------------------------
(***************************************************************************)
(* The lead gateway's side: a retry request is stored, bound to its        *)
(* successor, confirmed by the founder, its consent consumed once, and     *)
(* posted to the bridge; a restarted gateway classifies every stored       *)
(* request and drives it on.  Requests are handled concurrently, each by   *)
(* the code between two awaits.                                            *)
(***************************************************************************)
EXTENDS RetryDispatch

CONSTANT MaxGatewayCrashes

ASSUME GatewayCrashAssumption == MaxGatewayCrashes \in Nat

VARIABLES
  req,       \* lifecycle_requests.state, failed_retryable by its outcome
  consumed,  \* the requests whose consent was consumed in CommDB
  at,        \* where the gateway process stands with each request
  gatewayCrashes

gatewayVars == <<req, consumed, at, gatewayCrashes>>
bridgeSide  == <<target, shell, up, bridgeVars>>

(* "not_dispatched" and "refused" are both failed_retryable. *)
RequestState == {"none", "requested", "confirmed", "claimed", "executing",
                 "succeeded", "ambiguous", "not_dispatched", "refused"}
Settled      == {"succeeded", "ambiguous", "not_dispatched", "refused"}
Position     == {"idle", "create", "drive", "consumed", "recover"} \cup Call

Goes(r, from, to) == req[r] = from /\ req' = [req EXCEPT ![r] = to]
Stands(r, from, to) == at[r] = from /\ at' = [at EXCEPT ![r] = to]

gatewayRest == <<call, bound, consumed, gatewayCrashes, bridgeSide>>

(* createRequest: the row, then the binding of its successor. *)
Create(r) ==
  /\ Goes(r, "none", "requested") /\ Stands(r, "idle", "create")
  /\ UNCHANGED gatewayRest

Bind(r) ==
  /\ Stands(r, "create", "idle")
  /\ bound' = bound \cup {r}
  /\ UNCHANGED <<req, call, consumed, gatewayCrashes, bridgeSide>>

(* observeOnce sees the founder's confirmation. *)
Confirm(r) ==
  /\ Goes(r, "requested", "confirmed") /\ Stands(r, "idle", "drive")
  /\ UNCHANGED gatewayRest

(* The TTL is over, at an observation or at the recovery. *)
Expire(r) ==
  /\ \/ Goes(r, "requested", "refused") /\ Stands(r, "idle", "idle")
     \/ Goes(r, "requested", "refused") /\ Stands(r, "recover", "idle")
     \/ Goes(r, "confirmed", "refused") /\ Stands(r, "recover", "idle")
  /\ UNCHANGED gatewayRest

(* verify denies. *)
Deny(r) ==
  /\ Goes(r, "confirmed", "refused") /\ Stands(r, "drive", "idle")
  /\ UNCHANGED gatewayRest

(* A bug: the row says claimed before the consent is consumed. *)
ConsumeLate(r) ==
  /\ Goes(r, "confirmed", "claimed") /\ Stands(r, "drive", "consumed")
  /\ UNCHANGED gatewayRest

(* claimConsent: the consent is consumed before the row says so. *)
Consume(r) ==
  /\ req[r] = "confirmed" /\ Stands(r, "drive", "consumed")
  /\ r \notin consumed
  /\ consumed' = consumed \cup {r}
  /\ UNCHANGED <<req, call, bound, gatewayCrashes, bridgeSide>>

(* ... unless an earlier process consumed it: fail closed. *)
ClaimLost(r) ==
  /\ r \in consumed
  /\ Goes(r, "confirmed", "refused") /\ Stands(r, "drive", "idle")
  /\ UNCHANGED gatewayRest

Claim(r) ==
  /\ Goes(r, "confirmed", "claimed") /\ Stands(r, "consumed", "drive")
  /\ UNCHANGED gatewayRest

(* The lifecycle revision changed, or cannot be read. *)
Stale(r) ==
  /\ \/ Goes(r, "claimed", "refused")
     \/ Goes(r, "executing", "refused")
  /\ Stands(r, "drive", "idle")
  /\ UNCHANGED gatewayRest

(* The row says executing, and the call is sent. *)
Post(c) ==
  LET r == RequestOf[c] IN
  /\ up
  /\ \/ Goes(r, "claimed", "executing")
     \/ Goes(r, "executing", "executing")
  /\ Stands(r, "drive", c)
  /\ Moves(c, "unused", "sent")
  /\ UNCHANGED <<bound, consumed, gatewayCrashes, bridgeSide>>

(* Nobody listens: the connection is refused. *)
PostRefused(r) ==
  /\ ~up
  /\ \/ Goes(r, "claimed", "not_dispatched")
     \/ Goes(r, "executing", "not_dispatched")
  /\ Stands(r, "drive", "idle")
  /\ UNCHANGED gatewayRest

(* mapHttpDispatchOutcome: 2xx, 4xx, or a connection that broke. *)
Settle(r) ==
  /\ at[r] \in Call /\ at' = [at EXCEPT ![r] = "idle"]
  /\ \/ call[at[r]] = "success" /\ Goes(r, "executing", "succeeded")
     \/ call[at[r]] = "refused" /\ Goes(r, "executing", "not_dispatched")
     \/ call[at[r]] = "lost" /\ Goes(r, "executing", "ambiguous")
  /\ UNCHANGED gatewayRest

(* fetch gives up on a call the bridge is still handling. *)
GiveUp(r) ==
  /\ at[r] \in Call /\ at' = [at EXCEPT ![r] = "idle"]
  /\ call[at[r]] \notin Answered
  /\ Goes(r, "executing", "ambiguous")
  /\ UNCHANGED gatewayRest

(* The gateway dies and is started again.  It dies only while every        *)
(* request it may post again has a call left (a bound of the model).       *)
Crash ==
  /\ gatewayCrashes < MaxGatewayCrashes
  /\ \A r \in Request : at[r] \in Call =>
       \E c \in Call : RequestOf[c] = r /\ call[c] = "unused"
  /\ gatewayCrashes' = gatewayCrashes + 1
  /\ at' = [r \in Request |->
       IF req[r] \in Settled \cup {"none"} THEN "idle" ELSE "recover"]
  /\ UNCHANGED <<req, call, bound, consumed, bridgeSide>>

(* A bug: a request that was posted is left for somebody else. *)
RecoverUnposted(r) ==
  /\ \/ req[r] = "requested" /\ Stands(r, "recover", "idle")
     \/ req[r] \notin {"requested", "executing"} /\ Stands(r, "recover", "drive")
  /\ UNCHANGED <<req, gatewayRest>>

(* A bug: a successor that cannot be looked up is taken for started.       *)
RecoverFailOpen(r) ==
  /\ \/ req[r] = "requested" /\ Stands(r, "recover", "idle") /\ UNCHANGED req
     \/ req[r] = "confirmed" /\ Stands(r, "recover", "drive") /\ UNCHANGED req
     \/ /\ req[r] \in {"claimed", "executing"} /\ r \in bound
        /\ Stands(r, "recover", "idle") /\ req' = [req EXCEPT ![r] = "succeeded"]
  /\ UNCHANGED gatewayRest

(* recoverLifecycleRequests: a request whose consent may be consumed is    *)
(* classified by its successor's started evidence.                         *)
Recover(r) ==
  /\ \/ req[r] = "requested" /\ Stands(r, "recover", "idle") /\ UNCHANGED req
     \/ req[r] = "confirmed" /\ Stands(r, "recover", "drive") /\ UNCHANGED req
     \/ /\ req[r] \in {"claimed", "executing"}
        /\ \/ r \notin bound /\ Stands(r, "recover", "drive") /\ UNCHANGED req
           \/ \E found \in Evidence(r) :
                /\ r \in bound
                /\ \/ found = "started" /\ Stands(r, "recover", "idle")
                      /\ req' = [req EXCEPT ![r] = "succeeded"]
                   \/ found = "lookup_error" /\ Stands(r, "recover", "idle")
                      /\ req' = [req EXCEPT ![r] = "ambiguous"]
                   \/ found = "not_started" /\ Stands(r, "recover", "drive")
                      /\ UNCHANGED req
  /\ UNCHANGED gatewayRest

(* Steps the gateway takes by itself once a request is confirmed. *)
DriveStep(r) ==
  \/ Deny(r) \/ Consume(r) \/ ClaimLost(r) \/ Claim(r) \/ Stale(r)
  \/ \E c \in Call : RequestOf[c] = r /\ Post(c)
  \/ PostRefused(r) \/ Settle(r) \/ Recover(r)

RequestStep(r) ==
  \/ Create(r) \/ Bind(r) \/ Confirm(r) \/ Expire(r) \/ GiveUp(r)
  \/ DriveStep(r)

=============================================================================
