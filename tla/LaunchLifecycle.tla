-------------------------- MODULE LaunchLifecycle --------------------------
(***************************************************************************)
(* Park versus start: launches of runners for one issue, the founder's     *)
(* park and unpark, the maintenance tick that replays unfinished parks and *)
(* reaps stale claims, and a bridge that may crash between any two steps.  *)
(***************************************************************************)
EXTENDS RunnerLaunch, IssueCloseout

CONSTANTS
  MaxParks,     \* bound: park requests
  MaxUnparks,   \* bound: unpark requests
  MaxCrashes    \* bound: bridge crashes

ASSUME BoundsAssumption == MaxParks \in Nat /\ MaxUnparks \in Nat /\ MaxCrashes \in Nat

VARIABLES
  tick,      \* where the maintenance tick stands
  parks,
  unparks,
  crashes

tickVars == <<tick, parks, unparks, crashes>>
vars     == <<storeVars, launchVars, closeoutVars, tickVars>>

Tick == {"idle", "listed", "replaying", "reap"}

TypeOK ==
  /\ claim \in [Exec -> ClaimState]
  /\ session \in [Exec -> SessionState]
  /\ bound \in SUBSET Exec
  /\ intent \in IntentState
  /\ comm \in [Exec -> Target]
  /\ alive \in SUBSET Exec
  /\ lock \in Seq(Ticket)
  /\ pc \in [Exec -> PC]
  /\ inflight \in [Role -> Exec \cup {None}]
  /\ stage \in Stage
  /\ todo \in SUBSET Exec /\ rowless \in SUBSET Exec
  /\ midLaunch \in SUBSET Exec /\ seen \in SUBSET Exec /\ unread \in SUBSET Exec
  /\ cur \in Exec \cup {None}
  /\ stage \in {"kill", "finalize"} => cur \in Exec
  /\ target \in Target
  /\ blocked \in SUBSET Exec
  /\ faults \in Nat
  /\ tick \in Tick
  /\ parks \in Nat /\ unparks \in Nat /\ crashes \in Nat

Init ==
  /\ claim = [e \in Exec |-> "none"]
  /\ session = [e \in Exec |-> "none"]
  /\ bound = {}
  /\ intent = "none"
  /\ comm = [e \in Exec |-> "none"]
  /\ alive = {}
  /\ lock = <<>>
  /\ pc = [e \in Exec |-> "idle"]
  /\ inflight = [r \in Role |-> None]
  /\ stage = "idle"
  /\ todo = {} /\ rowless = {} /\ midLaunch = {} /\ seen = {} /\ unread = {}
  /\ cur = None /\ target = "none" /\ blocked = {}
  /\ faults = 0
  /\ tick = "idle" /\ parks = 0 /\ unparks = 0 /\ crashes = 0

(* The event loop is between turns: the mutex is free or its holder awaits *)
(* an external call, and no start() has just been resumed.  Only then does *)
(* a request, a timer or the end of an external call get its turn.         *)
Quiet ==
  /\ stage # "turn"
  /\ lock # <<>> => stage # "idle"
  /\ \A e \in Exec : pc[e] # "admitted"

------------------------------------------------------------------------------
(* The founder's two commands and their turn in the mutex. *)

ParkRequest ==
  /\ Quiet
  /\ parks < MaxParks /\ parks' = parks + 1
  /\ QueueFor("park", None)
  /\ UNCHANGED <<rows, outside, launchVars, closeoutVars, tick, unparks, crashes>>

(* parkIssue: the tombstone, then the closeout under the same hold. *)
Park ==
  /\ Holds("park", None)
  /\ intent' = "pending"
  /\ Collect
  /\ UNCHANGED <<claim, session, bound, outside, lock, launchVars, tickVars>>

UnparkRequest ==
  /\ Quiet
  /\ unparks < MaxUnparks /\ unparks' = unparks + 1
  /\ QueueFor("unpark", None)
  /\ UNCHANGED <<rows, outside, launchVars, closeoutVars, tick, parks, crashes>>

(* supersedeIssueDispositionIntent *)
Unpark ==
  /\ Holds("unpark", None)
  /\ intent' = "none"
  /\ Unlock
  /\ UNCHANGED <<claim, session, bound, outside, launchVars, closeoutVars, tickVars>>

(* A closeout that ends a replay lets the tick go on to the stale claims. *)
CloseoutGoesOn ==
  /\ stage = "turn" \/ Quiet
  /\ CloseoutStep
  /\ tick' = IF stage' = "idle" /\ Holds("replay", None) THEN "reap" ELSE tick
  /\ UNCHANGED <<launchVars, parks, unparks, crashes>>

------------------------------------------------------------------------------
(* The maintenance tick. *)

(* A bug: intents that are only partial are not listed for replay. *)
TickListsPending ==
  /\ Quiet /\ tick = "idle"
  /\ tick' = IF intent = "pending" THEN "listed" ELSE "reap"
  /\ UNCHANGED <<storeVars, launchVars, closeoutVars, parks, unparks, crashes>>

(* listReplayableDispositionIntents, read outside the mutex. *)
TickLists ==
  /\ Quiet /\ tick = "idle"
  /\ tick' = IF Replayable THEN "listed" ELSE "reap"
  /\ UNCHANGED <<storeVars, launchVars, closeoutVars, parks, unparks, crashes>>

(* closeoutIssue for the listed intent; other issues' replays may have     *)
(* been awaited since it was listed.                                       *)
TickReplays ==
  /\ Quiet /\ tick = "listed" /\ tick' = "replaying"
  /\ QueueFor("replay", None)
  /\ UNCHANGED <<rows, outside, launchVars, closeoutVars, parks, unparks, crashes>>

(* The replay gets the mutex; the tombstone is not looked up again before  *)
(* the nodes are collected.                                                *)
Replay ==
  /\ Holds("replay", None)
  /\ Collect
  /\ UNCHANGED <<storeVars, launchVars, tickVars>>

(* Claims of launches that ended an hour ago or died with the bridge; a    *)
(* start() still in progress is never that old.                            *)
Stale(e) == Open(e) /\ session[e] = "none" /\ pc[e] \in {"threw", "lost"}

(* A bug: the reaper only looks at claims that were activated. *)
ReapActiveOnly ==
  /\ Quiet /\ tick = "reap" /\ tick' = "idle"
  /\ claim' = [e \in Exec |-> IF Stale(e) /\ claim[e] = "active" THEN "closed" ELSE claim[e]]
  /\ UNCHANGED <<session, bound, intent, outside, lock, launchVars, closeoutVars>>
  /\ UNCHANGED <<parks, unparks, crashes>>

(* listStaleStartingClaims, each closed unless it has a session row. *)
ReapStale ==
  /\ Quiet /\ tick = "reap" /\ tick' = "idle"
  /\ claim' = [e \in Exec |-> IF Stale(e) THEN "closed" ELSE claim[e]]
  /\ UNCHANGED <<session, bound, intent, outside, lock, launchVars, closeoutVars>>
  /\ UNCHANGED <<parks, unparks, crashes>>

------------------------------------------------------------------------------
(* The bridge process dies and starts again: rows, CommDB and windows      *)
(* survive; the mutex, the dedup map and every pending promise do not.     *)
Crash ==
  /\ crashes < MaxCrashes /\ crashes' = crashes + 1
  /\ pc' = [e \in Exec |-> IF pc[e] \in Over \cup {"idle"} THEN pc[e] ELSE "lost"]
  /\ inflight' = [r \in Role |-> None]
  /\ lock' = <<>>
  /\ stage' = "idle" /\ tick' = "idle"
  /\ todo' = {} /\ rowless' = {} /\ midLaunch' = {} /\ seen' = {} /\ unread' = {}
  /\ cur' = None /\ target' = "none" /\ blocked' = {}
  /\ UNCHANGED <<rows, outside, faults, parks, unparks>>

Launching(e) ==
  /\ \/ PromptStep(e)
     \/ Quiet /\ (StartCheck(e) \/ AwaitedStep(e) \/ LostRunnerExits(e))
  /\ UNCHANGED <<closeoutVars, tickVars>>

Next ==
  \/ \E e \in Exec : Launching(e)
  \/ ParkRequest \/ Park \/ UnparkRequest \/ Unpark
  \/ CloseoutGoesOn
  \/ TickLists \/ TickReplays \/ Replay \/ ReapStale
  \/ Crash

Spec == Init /\ [][Next]_vars

(* Every await of the bridge settles (external commands have timeouts, the *)
(* mutex is FIFO), the event loop gets round to every settled promise, and *)
(* the maintenance timer keeps firing.  Nobody has to start, park or       *)
(* unpark, and the bridge need not crash.                                  *)
Fairness ==
  /\ \A e \in Exec :
       /\ WF_vars(PromptStep(e) /\ UNCHANGED <<closeoutVars, tickVars>>)
       /\ SF_vars(Quiet /\ AwaitedStep(e) /\ UNCHANGED <<closeoutVars, tickVars>>)
  /\ WF_vars(Park) /\ WF_vars(Unpark) /\ WF_vars(Replay)
  /\ SF_vars(CloseoutGoesOn)
  /\ SF_vars(TickLists) /\ SF_vars(TickReplays) /\ SF_vars(ReapStale)

FairSpec == Spec /\ Fairness

------------------------------------------------------------------------------
(* Properties *)

(* An active claim means the session row and the worktree binding are      *)
(* durable, so that a closeout that finds the claim can own the runner     *)
(* (setLaunchClaimState's contract, StateStore.ts).                        *)
ActiveIsDurable ==
  \A e \in Exec : claim[e] = "active" => e \in bound /\ session[e] # "none"

(* A tombstone recorded complete leaves no claim that could still turn     *)
(* into a runner: what the replay stops looking at is really finished.     *)
CompleteHasNoOpenClaims == intent = "complete" => OpenClaims = {}

(* The dedup map never names a start() that is over, whichever of its      *)
(* failure exits was taken and whoever deleted the shared key.             *)
InflightIsLive ==
  \A r \in Role : inflight[r] # None =>
     /\ RoleOf[inflight[r]] = r
     /\ pc[inflight[r]] \in (BeforeCommit \ {"admitted"}) \cup Committed

(* No launch passes its commit gate while the issue is parked, however the *)
(* park, its replays and the launch interleave.                            *)
NoCommitUnderTombstone ==
  [][\A e \in Exec : pc[e] = "committing" /\ pc'[e] = "hydrating" => ~Parked]_vars

(* When a park is recorded complete, every runner that was alive and       *)
(* registered when its nodes were collected has lost its window, whatever  *)
(* kill, finalization, lookup or probe failed on the way, with one         *)
(* exception: a runner whose row closeRunner could not read.  It takes     *)
(* that for "already gone", deletes the row, and the park completes over a *)
(* live runner.                                                            *)
RegisteredRunnersTornDown ==
  [][intent # "complete" /\ intent' = "complete" =>
       \A e \in seen : e \notin alive \/ e \in unread]_vars

(* A park keeps being replayed until it is complete, an operator is needed *)
(* or the founder unparks the issue, but for a launch that a crash left    *)
(* with a claim and a session row and no worktree binding: neither the     *)
(* closeout nor the reaper takes it on.                                    *)
Stranded(e) == Open(e) /\ session[e] # "none" /\ e \notin bound /\ pc[e] \in Over
ParkConvergesUnlessStranded ==
  Replayable ~> (~Replayable \/ \E e \in Exec : Stranded(e))

(* The claim of a launch that threw after admission does not stay open.    *)
OrphanClaimsConverge ==
  \A e \in Exec : (Open(e) /\ session[e] = "none" /\ pc[e] \in {"threw", "lost"}) ~> ~Open(e)

(* Every start() ends, and frees the role for the next one. *)
StartSettles ==
  \A e \in Exec : pc[e] = "admitting" ~>
     pc[e] \in Over /\ inflight[RoleOf[e]] # e
=============================================================================
