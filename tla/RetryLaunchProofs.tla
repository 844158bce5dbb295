-------------------------- MODULE RetryLaunchProofs --------------------------
(***************************************************************************)
(* Safety of gateway-bound retries, for any set of requests and calls and  *)
(* any number of crashes of either process, when nobody else holds the     *)
(* issue mutex for long.                                                   *)
(***************************************************************************)
EXTENDS RetryLaunch, TLAPS

(* Both processes start empty. *)
LEMMA TypeInit == Init => TypeOK
BY BridgeCrashAssumption, GatewayCrashAssumption
   DEF Init, TypeOK, CallState, PaneState, SessionState, RunState, RequestState, Position

-----------------------------------------------------------------------------
(* Type correctness, one lemma per kind of step. *)

(* A step of an HTTP call keeps every variable in its type. *)
LEMMA CallTyped ==
  ASSUME TypeOK, NEW c \in Call, CallStep(c), UNCHANGED gatewayVars
  PROVE  TypeOK'
<1> USE RequestAssumption DEF TypeOK, gatewayVars, durable, bridgeVars, Moves,
        CallState, Handled, Answered
<1>1. CASE Receive(c)
  BY <1>1 DEF Receive, Decide
<1>2. CASE Probe(c)
  <2>1. /\ call' \in [Call -> CallState]
        /\ UNCHANGED <<bound, target, shell, up, bridgeVars>>
    BY <1>2 DEF Probe, Decide
  <2> QED
    BY <2>1
<1>3. CASE Dispatch(c)
  <2>1. call' \in [Call -> CallState]
    BY <1>3 DEF Dispatch
  <2>2. mutex' \in Seq(Call)
    BY <1>3 DEF Dispatch
  <2> QED
    BY <1>3, <2>1, <2>2 DEF Dispatch
<1>4. CASE AdmissionDenied(c)
  BY <1>4 DEF AdmissionDenied, HasMutex
<1>5. CASE Adopt(c)
  BY <1>5 DEF Adopt, HasMutex
<1>6. CASE Admit(c)
  BY <1>6 DEF Admit, HasMutex
<1>7. CASE CommitLaunch(c)
  BY <1>7 DEF CommitLaunch, HasMutex, RunState, Running
<1>8. CASE CommitRefused(c)
  BY <1>8 DEF CommitRefused, HasMutex, Unregistered
<1>9. CASE Answer(c)
  BY <1>9 DEF Answer
<1> QED
  BY <1>1, <1>2, <1>3, <1>4, <1>5, <1>6, <1>7, <1>8, <1>9 DEF CallStep

(* ... so does a step of a blueprint run, *)
LEMMA RunTyped ==
  ASSUME TypeOK, NEW c \in Call, RunStep(c), UNCHANGED gatewayVars
  PROVE  TypeOK'
<1> USE RequestAssumption DEF TypeOK, gatewayVars, durable, RunGoes, RunState, Running
<1>1. CASE RunStarts(c)
  BY <1>1 DEF RunStarts, SessionState
<1>2. CASE RunFails(c)
  BY <1>2 DEF RunFails, SessionState, Unregistered
<1>3. CASE OpenWindow(c)
  BY <1>3 DEF OpenWindow, PaneState
<1>4. CASE WriteCommit(c)
  BY <1>4 DEF WriteCommit
<1>5. CASE WriteFails(c)
  BY <1>5 DEF WriteFails, SessionState, PaneState, Unregistered
<1>6. CASE Register(c)
  BY <1>6 DEF Register
<1>7. CASE RunEnds(c)
  BY <1>7 DEF RunEnds, SessionState, PaneState
<1> QED
  BY <1>1, <1>2, <1>3, <1>4, <1>5, <1>6, <1>7 DEF RunStep

(* ... and of a pane, the reaper, or a crash of the bridge, *)
LEMMA WorldTyped ==
  ASSUME TypeOK, UNCHANGED gatewayVars,
         \/ \E c \in Call : PaneStep(c)
         \/ \E r \in Request : ReapOrphan(r)
         \/ BridgeCrash \/ BridgeStart
  PROVE  TypeOK'
<1> USE DEF TypeOK, gatewayVars, durable, bridgeVars
<1>1. CASE \E c \in Call : PaneStep(c)
  BY <1>1 DEF PaneStep, Exec, GiveUpWaiting, RunnerExits, PaneState
<1>2. CASE \E r \in Request : ReapOrphan(r)
  BY <1>2 DEF ReapOrphan, SessionState
<1>3. CASE BridgeCrash
  <2>1. bridgeCrashes' \in 0..MaxBridgeCrashes
    BY <1>3, BridgeCrashAssumption DEF BridgeCrash
  <2>2. call' \in [Call -> CallState]
    BY <1>3 DEF BridgeCrash, CallState, Answered
  <2>3. run' \in [Call -> RunState]
    BY <1>3 DEF BridgeCrash, RunState
  <2>4. mutex' \in Seq(Call)
    BY <1>3 DEF BridgeCrash
  <2> QED
    BY <1>3, <2>1, <2>2, <2>3, <2>4 DEF BridgeCrash
<1>4. CASE BridgeStart
  BY <1>4 DEF BridgeStart
<1> QED
  BY <1>1, <1>2, <1>3, <1>4

(* ... and a step of the gateway. *)
LEMMA GatewayTyped ==
  ASSUME TypeOK, (\E r \in Request : RequestStep(r)) \/ Crash
  PROVE  TypeOK'
<1> USE RequestAssumption
    DEF TypeOK, gatewayRest, bridgeSide, bridgeVars, durable, Goes, Stands, Position,
        RequestState
<1>1. CASE Crash
  BY <1>1, GatewayCrashAssumption DEF Crash
<1>2. ASSUME NEW r \in Request, RequestStep(r) PROVE TypeOK'
  <2>1. CASE Create(r) \/ Bind(r) \/ Confirm(r) \/ Expire(r) \/ GiveUp(r)
    BY <2>1 DEF Create, Bind, Confirm, Expire, GiveUp
  <2>2. CASE Deny(r) \/ Consume(r) \/ ClaimLost(r) \/ Claim(r) \/ Stale(r)
    BY <2>2 DEF Deny, Consume, ClaimLost, Claim, Stale
  <2>3. CASE PostRefused(r) \/ Settle(r)
    BY <2>3 DEF PostRefused, Settle
  <2>4. CASE Recover(r)
    BY <2>4 DEF Recover
  <2>5. ASSUME NEW c \in Call, RequestOf[c] = r, Post(c) PROVE TypeOK'
    BY <2>5 DEF Post, Moves, CallState
  <2> QED
    BY <1>2, <2>1, <2>2, <2>3, <2>4, <2>5 DEF RequestStep, DriveStep
<1> QED
  BY <1>1, <1>2

(* Every step is a step of one of the four kinds, or a stutter. *)
LEMMA TypeNext == TypeOK /\ [Next]_vars => TypeOK'
<1> SUFFICES ASSUME TypeOK, [Next]_vars PROVE TypeOK'
  OBVIOUS
<1>1. CASE UNCHANGED vars
  BY <1>1 DEF TypeOK, vars, bridgeVars, durable, gatewayVars
<1>2. CASE Next
  BY <1>2, CallTyped, RunTyped, WorldTyped, GatewayTyped DEF Next, BridgeStep
<1> QED
  BY <1>1, <1>2

(* Every variable of the gateway, the bridge and the panes keeps its type. *)
THEOREM TypeCorrect == Spec => []TypeOK
BY TypeInit, TypeNext, PTL DEF Spec

-----------------------------------------------------------------------------
(* One runner per request.  At most one call is between its admission and  *)
(* the end of its run, and the dedup entry names its request; a successor  *)
(* is only driven while its commit file does not exist, so the file is     *)
(* written once, and only the launch whose token it holds can have run.    *)

Busy(c)    == run[c] \in Running \/ call[c] \in {"queued", "committing"}
Driving(c) == run[c] \in {"preparing", "starting", "opened"} \/ call[c] = "committing"

OneBusy      == \A c, d \in Call : Busy(c) /\ Busy(d) => c = d
EntryHeld    == \A c \in Call : run[c] \in Running \/ call[c] = "committing"
                                => inflight = RequestOf[c]
QueueIsShort == \A c \in Call : call[c] \in {"queued", "committing"} => mutex = <<c>>
RunIsLast    == \A c \in Call : run[c] # "none" => call[c] \in {"launched", "success", "lost"}
Uncommitted  == \A c \in Call :
  Driving(c) => token[RequestOf[c]] = None /\ RequestOf[c] \in claims
TokenClaimed == \A r \in Request : token[r] # None => r \in claims
TokenIsOwn   == \A r \in Request : token[r] \in Call => RequestOf[token[r]] = r
RanByToken   == \A c \in Call : Ran(c) => token[RequestOf[c]] = c
OpenedWaits  == \A c \in Call : run[c] = "opened" => shell[c] = "waiting"

DedupInv  == OneBusy /\ EntryHeld /\ QueueIsShort /\ RunIsLast
CommitInv == /\ Uncommitted /\ TokenClaimed /\ TokenIsOwn
             /\ RanByToken /\ OpenedWaits /\ AdoptRecordIsTrue
RetryInv  == TypeOK /\ DedupInv /\ CommitInv

(* Nothing is under way at first. *)
LEMMA RetryInit == Init => RetryInv
<1> SUFFICES ASSUME Init PROVE RetryInv
  OBVIOUS
<1>1. TypeOK
  BY TypeInit
<1>2. DedupInv
  BY DEF Init, DedupInv, OneBusy, EntryHeld, QueueIsShort, RunIsLast, Busy, Running
<1>3. CommitInv
  BY NameAssumption
     DEF Init, CommitInv, Uncommitted, TokenClaimed, TokenIsOwn, RanByToken, OpenedWaits,
         AdoptRecordIsTrue, Driving, Ran
<1> QED
  BY <1>1, <1>2, <1>3 DEF RetryInv

(* A step that starts no run, queues nobody and touches no commit file     *)
(* keeps the invariant: the gateway's steps, and answers of the bridge.    *)
LEMMA QuietSafe ==
  ASSUME RetryInv, TypeOK',
         UNCHANGED <<shell, token, inflight, mutex, run>>, claims \subseteq claims',
         \A c \in Call :
           /\ call'[c] \in {"queued", "committing"} => call'[c] = call[c]
           /\ call[c] \in {"launched", "success", "lost"} =>
                call'[c] \in {"launched", "success", "lost"}
  PROVE  RetryInv'
<1> USE DEF RetryInv
<1>1. DedupInv'
  BY DEF DedupInv, OneBusy, EntryHeld, QueueIsShort, RunIsLast, Busy
<1>2. CommitInv'
  BY DEF CommitInv, Uncommitted, TokenClaimed, TokenIsOwn, RanByToken, OpenedWaits,
         AdoptRecordIsTrue, Driving, Ran
<1> QED
  BY <1>1, <1>2

(* A step of an HTTP call: only the way through the mutex is not quiet. *)
LEMMA CallSafe ==
  ASSUME ~MutexHeld, RetryInv, TypeOK', NEW c \in Call, CallStep(c)
  PROVE  RetryInv'
<1> USE DEF RetryInv
<1>0. RequestOf[c] \in Request /\ None \notin Request /\ None \notin Call
  BY RequestAssumption, NameAssumption
<1>1. CASE Receive(c)
  BY <1>1, QuietSafe DEF Receive, Decide, Moves, TypeOK
<1>2. CASE Probe(c)
  <2>1. /\ call[c] = "probing"
        /\ \E s \in {"success", "refused", "closing"} : call' = [call EXCEPT ![c] = s]
        /\ UNCHANGED <<shell, bridgeVars>>
    BY <1>2 DEF Probe, Decide, Moves
  <2> QED
    BY <2>1, QuietSafe DEF TypeOK, bridgeVars, durable
<1>3. CASE Answer(c)
  BY <1>3, QuietSafe DEF Answer, Moves, TypeOK, bridgeVars, durable
<1>4. CASE Dispatch(c)
  <2>0. UNCHANGED <<shell, durable, inflight, run>>
    BY <1>4 DEF Dispatch
  <2>1. CASE inflight # None
    BY <1>4, <2>0, <2>1, QuietSafe DEF Dispatch, Moves, TypeOK, durable
  <2>2. CASE inflight = None
    <3>1. mutex = <<>> /\ mutex' = <<c>> /\ call' = [call EXCEPT ![c] = "queued"]
      BY <1>4, <2>2, <1>0 DEF Dispatch, Turn, MidTurn, Moves
    <3>2. \A d \in Call : ~Busy(d)
      BY <2>2, <3>1, <1>0, RequestAssumption
         DEF DedupInv, EntryHeld, QueueIsShort, RunIsLast, Busy
    <3>3. \A d \in Call : Busy(d)' => d = c
      BY <2>0, <3>1, <3>2 DEF Busy, TypeOK
    <3>4. DedupInv'
      <4>1. OneBusy'
        BY <3>3 DEF OneBusy
      <4>2. EntryHeld'
        BY <2>0, <3>1, <3>2 DEF EntryHeld, Busy, TypeOK
      <4>3. QueueIsShort'
        BY <3>1, <3>2 DEF QueueIsShort, Busy, TypeOK
      <4>4. RunIsLast'
        BY <2>0, <3>1, <3>2, <1>4 DEF DedupInv, RunIsLast, Dispatch, Moves, TypeOK
      <4> QED
        BY <4>1, <4>2, <4>3, <4>4 DEF DedupInv
    <3>5. CommitInv'
      BY <2>0, <3>1, <3>2
         DEF CommitInv, Uncommitted, TokenClaimed, TokenIsOwn, RanByToken, OpenedWaits,
             AdoptRecordIsTrue, Driving, Ran, TypeOK, durable, Busy
    <3> QED
      BY <3>4, <3>5
  <2> QED
    BY <2>1, <2>2
<1>5. CASE AdmissionDenied(c) \/ Adopt(c)
  <2>1. /\ call[c] = "queued" /\ mutex' = Tail(mutex)
        /\ \E s \in {"refused", "launched"} : call' = [call EXCEPT ![c] = s]
        /\ UNCHANGED <<shell, durable, inflight, run>>
    BY <1>5 DEF AdmissionDenied, Adopt, Moves
  <2>2. DedupInv'
    <3>1. OneBusy' /\ EntryHeld'
      BY <2>1 DEF DedupInv, OneBusy, EntryHeld, Busy, TypeOK
    <3>2. QueueIsShort'
      BY <2>1 DEF DedupInv, OneBusy, QueueIsShort, Busy, TypeOK
    <3>3. RunIsLast'
      BY <2>1 DEF DedupInv, RunIsLast, TypeOK
    <3> QED
      BY <3>1, <3>2, <3>3 DEF DedupInv
  <2>3. CommitInv'
    BY <2>1 DEF CommitInv, Uncommitted, TokenClaimed, TokenIsOwn, RanByToken, OpenedWaits,
                AdoptRecordIsTrue, Driving, Ran, TypeOK, durable
  <2> QED
    BY <2>2, <2>3
<1>6. CASE Admit(c)
  <2>1. /\ call[c] = "queued" /\ call' = [call EXCEPT ![c] = "committing"]
        /\ claims' = claims \cup {RequestOf[c]} /\ inflight' = RequestOf[c]
        /\ mutex' = Append(Tail(mutex), c)
        /\ UNCHANGED <<shell, token, run>>
    BY <1>6 DEF Admit, Moves
  <2>2. mutex = <<c>> /\ mutex' = <<c>>
    <3>1. mutex = <<c>>
      BY <2>1 DEF DedupInv, QueueIsShort
    <3>2. Append(Tail(<<c>>), c) = <<c>>
      OBVIOUS
    <3> QED
      BY <2>1, <3>1, <3>2
  <2>3. token[RequestOf[c]] = None
    BY <1>6, <1>0 DEF Admit, CommitInv, TokenClaimed
  <2>4. \A d \in Call : Busy(d) => d = c
    BY <2>1 DEF DedupInv, OneBusy, Busy
  <2>5. DedupInv'
    <3>1. OneBusy' /\ EntryHeld'
      BY <2>1, <2>4 DEF OneBusy, EntryHeld, Busy, TypeOK
    <3>2. QueueIsShort'
      BY <2>1, <2>2, <2>4 DEF QueueIsShort, Busy, TypeOK
    <3>3. RunIsLast'
      BY <2>1 DEF DedupInv, RunIsLast, TypeOK
    <3> QED
      BY <3>1, <3>2, <3>3 DEF DedupInv
  <2>6. CommitInv'
    <3>1. Uncommitted'
      BY <2>1, <2>3 DEF CommitInv, Uncommitted, Driving, TypeOK
    <3>2. TokenClaimed' /\ TokenIsOwn' /\ RanByToken' /\ OpenedWaits' /\ AdoptRecordIsTrue'
      BY <2>1 DEF CommitInv, TokenClaimed, TokenIsOwn, RanByToken, OpenedWaits,
                  AdoptRecordIsTrue, Ran
    <3> QED
      BY <3>1, <3>2 DEF CommitInv
  <2> QED
    BY <2>5, <2>6
<1>7. CASE CommitLaunch(c)
  <2>1. /\ call[c] = "committing" /\ call' = [call EXCEPT ![c] = "launched"]
        /\ run' = [run EXCEPT ![c] = "preparing"]
        /\ UNCHANGED <<shell, durable, inflight>>
    BY <1>7 DEF CommitLaunch, Moves
  <2>2. \A d \in Call : Busy(d) => d = c
    BY <2>1 DEF DedupInv, OneBusy, Busy
  <2>3. inflight = RequestOf[c] /\ token[RequestOf[c]] = None
    BY <2>1 DEF DedupInv, EntryHeld, CommitInv, Uncommitted, Driving
  <2>4. DedupInv'
    BY <2>1, <2>2, <2>3 DEF DedupInv, OneBusy, EntryHeld, QueueIsShort, RunIsLast, Busy, TypeOK
  <2>5. CommitInv'
    BY <2>1, <2>3
       DEF CommitInv, Uncommitted, TokenClaimed, TokenIsOwn, RanByToken, OpenedWaits,
           AdoptRecordIsTrue, Driving, Ran, TypeOK, durable
  <2> QED
    BY <2>4, <2>5
<1>8. CASE CommitRefused(c)
  BY <1>8 DEF CommitRefused
<1> QED
  BY <1>1, <1>2, <1>3, <1>4, <1>5, <1>6, <1>7, <1>8 DEF CallStep

(* A step of a blueprint run.  Only the one busy run writes a commit file, *)
(* while it does not exist, so nobody has run by another token.            *)
LEMMA RunSafe ==
  ASSUME RetryInv, TypeOK', NEW c \in Call, RunStep(c)
  PROVE  RetryInv'
<1> USE DEF RetryInv
<1>0. /\ RequestOf \in [Call -> Request] /\ None \notin Request
      /\ None \notin Call /\ "empty" \notin Call
  BY RequestAssumption, NameAssumption
<1>1. CASE RunStarts(c)
  <2>1. /\ run[c] = "preparing" /\ run' = [run EXCEPT ![c] = "starting"]
        /\ UNCHANGED <<call, shell, claims, token, inflight, mutex>>
    BY <1>1 DEF RunStarts, RunGoes
  <2>2. DedupInv'
    BY <2>1 DEF DedupInv, OneBusy, EntryHeld, QueueIsShort, RunIsLast, Busy, Running, TypeOK
  <2>3. CommitInv'
    BY <2>1 DEF CommitInv, Uncommitted, TokenClaimed, TokenIsOwn, RanByToken, OpenedWaits,
                AdoptRecordIsTrue, Driving, Ran, TypeOK
  <2> QED
    BY <2>2, <2>3
<1>2. CASE RunFails(c)
  <2>1. /\ run[c] \in {"preparing", "starting"} /\ run' = [run EXCEPT ![c] = "over"]
        /\ UNCHANGED <<call, shell, claims, token, mutex>>
    BY <1>2 DEF RunFails, RunGoes
  <2>2. DedupInv'
    BY <2>1 DEF DedupInv, OneBusy, EntryHeld, QueueIsShort, RunIsLast, Busy, Running, TypeOK
  <2>3. CommitInv'
    BY <2>1 DEF CommitInv, Uncommitted, TokenClaimed, TokenIsOwn, RanByToken, OpenedWaits,
                AdoptRecordIsTrue, Driving, Ran, TypeOK
  <2> QED
    BY <2>2, <2>3
<1>3. CASE OpenWindow(c)
  <2>1. /\ run[c] = "starting" /\ run' = [run EXCEPT ![c] = "opened"]
        /\ shell' = [shell EXCEPT ![c] = "waiting"]
        /\ UNCHANGED <<call, claims, token, inflight, mutex>>
    BY <1>3 DEF OpenWindow, RunGoes, durable
  <2>2. DedupInv'
    BY <2>1 DEF DedupInv, OneBusy, EntryHeld, QueueIsShort, RunIsLast, Busy, Running, TypeOK
  <2>3. CommitInv'
    BY <2>1 DEF CommitInv, Uncommitted, TokenClaimed, TokenIsOwn, RanByToken, OpenedWaits,
                AdoptRecordIsTrue, Driving, Ran, TypeOK
  <2> QED
    BY <2>2, <2>3
<1>4. CASE WriteCommit(c)
  <2>1. /\ run[c] = "opened" /\ run' = [run EXCEPT ![c] = "committed"]
        /\ token' = [token EXCEPT ![RequestOf[c]] = c]
        /\ UNCHANGED <<call, shell, claims, inflight, mutex>>
    BY <1>4 DEF WriteCommit, RunGoes
  <2>2. DedupInv'
    BY <2>1 DEF DedupInv, OneBusy, EntryHeld, QueueIsShort, RunIsLast, Busy, Running, TypeOK
  <2>3. \A d \in Call : Ran(d) => RequestOf[d] # RequestOf[c]
    BY <2>1, <1>0 DEF CommitInv, Uncommitted, Driving, RanByToken
  <2>4. CommitInv'
    <3>1. Uncommitted'
      <4>1. \A d \in Call : Driving(d) => d = c
        BY <2>1 DEF DedupInv, OneBusy, Busy, Running, Driving
      <4>2. \A d \in Call : ~Driving(d)'
        BY <2>1, <4>1 DEF DedupInv, RunIsLast, Driving, TypeOK
      <4> QED
        BY <4>2 DEF Uncommitted
    <3>2. TokenClaimed' /\ TokenIsOwn'
      BY <2>1, <1>0 DEF CommitInv, Uncommitted, Driving, TokenClaimed, TokenIsOwn, TypeOK
    <3>3. RanByToken'
      BY <2>1, <2>3, <1>0 DEF CommitInv, RanByToken, Ran, TypeOK
    <3>4. OpenedWaits' /\ AdoptRecordIsTrue'
      BY <2>1, <1>0 DEF CommitInv, OpenedWaits, AdoptRecordIsTrue, TypeOK
    <3> QED
      BY <3>1, <3>2, <3>3, <3>4 DEF CommitInv
  <2> QED
    BY <2>2, <2>4
<1>5. CASE WriteFails(c)
  <2>1. /\ run[c] = "opened" /\ run' = [run EXCEPT ![c] = "over"]
        /\ token' \in {token, [token EXCEPT ![RequestOf[c]] = "empty"]}
        /\ shell' \in {shell, [shell EXCEPT ![c] = "dead"]}
        /\ UNCHANGED <<call, claims, mutex>>
    BY <1>5 DEF WriteFails, RunGoes
  <2>2. DedupInv'
    BY <2>1 DEF DedupInv, OneBusy, EntryHeld, QueueIsShort, RunIsLast, Busy, Running, TypeOK
  <2>3. token[RequestOf[c]] = None /\ RequestOf[c] \in claims
    BY <2>1 DEF CommitInv, Uncommitted, Driving
  <2>4. \A d \in Call : Ran(d) => RequestOf[d] # RequestOf[c]
    BY <2>3, <1>0 DEF CommitInv, RanByToken
  <2>5. CommitInv'
    <3>1. Uncommitted'
      <4>1. \A d \in Call : Driving(d) => d = c
        BY <2>1 DEF DedupInv, OneBusy, Busy, Running, Driving
      <4>2. \A d \in Call : ~Driving(d)'
        BY <2>1, <4>1 DEF DedupInv, RunIsLast, Driving, TypeOK
      <4> QED
        BY <4>2 DEF Uncommitted
    <3>2. TokenClaimed' /\ TokenIsOwn'
      BY <2>1, <2>3, <1>0 DEF CommitInv, TokenClaimed, TokenIsOwn, TypeOK
    <3>3. RanByToken'
      <4>1. \A d \in Call : Ran(d)' => Ran(d)
        BY <2>1 DEF Ran, TypeOK
      <4>2. \A d \in Call : Ran(d) => token'[RequestOf[d]] = token[RequestOf[d]]
        BY <2>1, <2>4, <1>0 DEF TypeOK
      <4> QED
        BY <4>1, <4>2 DEF CommitInv, RanByToken
    <3>4. OpenedWaits'
      BY <2>1 DEF CommitInv, OpenedWaits, TypeOK
    <3>5. AdoptRecordIsTrue'
      BY <2>1, <2>3, <1>0 DEF CommitInv, TokenIsOwn, AdoptRecordIsTrue, TypeOK
    <3> QED
      BY <3>1, <3>2, <3>3, <3>4, <3>5 DEF CommitInv
  <2> QED
    BY <2>2, <2>5
<1>6. CASE Register(c)
  <2>1. /\ run[c] = "committed" /\ run' = [run EXCEPT ![c] = "attached"]
        /\ UNCHANGED <<call, shell, claims, token, inflight, mutex>>
    BY <1>6 DEF Register, RunGoes, durable
  <2>2. DedupInv'
    BY <2>1 DEF DedupInv, OneBusy, EntryHeld, QueueIsShort, RunIsLast, Busy, Running, TypeOK
  <2>3. CommitInv'
    BY <2>1 DEF CommitInv, Uncommitted, TokenClaimed, TokenIsOwn, RanByToken, OpenedWaits,
                AdoptRecordIsTrue, Driving, Ran, TypeOK
  <2> QED
    BY <2>2, <2>3
<1>7. CASE RunEnds(c)
  <2>1. /\ run[c] = "attached" /\ run' = [run EXCEPT ![c] = "over"]
        /\ shell' \in {shell, [shell EXCEPT ![c] =
                                  IF @ = "runner" THEN "exited" ELSE @]}
        /\ UNCHANGED <<call, claims, token, mutex>>
    BY <1>7 DEF RunEnds, RunGoes
  <2>2. DedupInv'
    BY <2>1 DEF DedupInv, OneBusy, EntryHeld, QueueIsShort, RunIsLast, Busy, Running, TypeOK
  <2>3. \A d \in Call : /\ Ran(d)' => Ran(d)
                        /\ shell[d] = "waiting" => shell'[d] = "waiting"
                        /\ shell[d] \in {"waiting", "runner", "exited"} =>
                             shell'[d] \in {"waiting", "runner", "exited"}
    BY <2>1 DEF Ran, TypeOK
  <2>4. \A d \in Call : /\ Driving(d)' => Driving(d)
                        /\ run'[d] = "opened" => run[d] = "opened"
    BY <2>1 DEF Driving, TypeOK
  <2>5. CommitInv'
    <3>0. token' = token /\ claims' = claims
      BY <2>1
    <3>1. Uncommitted'
      BY <3>0, <2>4 DEF CommitInv, Uncommitted
    <3>2. TokenClaimed' /\ TokenIsOwn'
      BY <3>0 DEF CommitInv, TokenClaimed, TokenIsOwn
    <3>3. RanByToken'
      BY <3>0, <2>3 DEF CommitInv, RanByToken
    <3>4. OpenedWaits'
      BY <2>3, <2>4 DEF CommitInv, OpenedWaits
    <3>5. AdoptRecordIsTrue'
      BY <3>0, <2>3 DEF CommitInv, AdoptRecordIsTrue
    <3> QED
      BY <3>1, <3>2, <3>3, <3>4, <3>5 DEF CommitInv
  <2> QED
    BY <2>2, <2>5
<1> QED
  BY <1>1, <1>2, <1>3, <1>4, <1>5, <1>6, <1>7 DEF RunStep

(* The panes, the reaper and the bridge's crash: a shell that gives up is  *)
(* not the one whose token the file holds, and a crash leaves nobody busy. *)
LEMMA WorldSafe ==
  ASSUME RetryInv, TypeOK',
         \/ \E c \in Call : PaneStep(c)
         \/ \E r \in Request : ReapOrphan(r)
         \/ BridgeCrash \/ BridgeStart
  PROVE  RetryInv'
<1> USE DEF RetryInv
<1>0. /\ RequestOf \in [Call -> Request] /\ None \notin Request /\ None \notin Call
  BY RequestAssumption, NameAssumption
<1>1. ASSUME NEW c \in Call, PaneStep(c) PROVE RetryInv'
  <2>1. \E s \in {"runner", "dead", "exited"} :
           /\ shell' = [shell EXCEPT ![c] = s]
           /\ s = "runner" => shell[c] = "waiting" /\ token[RequestOf[c]] = c
           /\ s = "dead" => /\ shell[c] = "waiting" /\ token[RequestOf[c]] # c
                            /\ run[c] # "opened"
           /\ s = "exited" => shell[c] = "runner"
    BY <1>1 DEF PaneStep, Exec, GiveUpWaiting, RunnerExits
  <2>2. UNCHANGED <<call, claims, token, inflight, mutex, run>>
    BY <1>1 DEF PaneStep, Exec, GiveUpWaiting, RunnerExits, bridgeVars, durable
  <2>3. DedupInv'
    BY <2>2 DEF DedupInv, OneBusy, EntryHeld, QueueIsShort, RunIsLast, Busy
  <2>4. Uncommitted' /\ TokenClaimed' /\ TokenIsOwn'
    BY <2>2 DEF CommitInv, Uncommitted, TokenClaimed, TokenIsOwn, Driving
  <2>5. RanByToken'
    BY <2>1, <2>2 DEF CommitInv, RanByToken, Ran, TypeOK
  <2>6. OpenedWaits'
    BY <2>1, <2>2, <1>0
       DEF CommitInv, RanByToken, Ran, Uncommitted, Driving, OpenedWaits, TypeOK
  <2>7. AdoptRecordIsTrue'
    BY <2>1, <2>2, <1>0 DEF CommitInv, TokenIsOwn, AdoptRecordIsTrue, TypeOK
  <2> QED
    BY <2>3, <2>4, <2>5, <2>6, <2>7 DEF CommitInv
<1>2. CASE \E r \in Request : ReapOrphan(r)
  BY <1>2, QuietSafe DEF ReapOrphan
<1>3. CASE BridgeCrash
  <2>1. /\ \A c \in Call : ~Busy(c)' /\ ~Driving(c)' /\ run'[c] # "opened"
        /\ UNCHANGED <<shell, claims, token>>
    BY <1>3 DEF BridgeCrash, Busy, Driving, Running, Handled, durable
  <2>2. RunIsLast'
    BY <1>3 DEF BridgeCrash, DedupInv, RunIsLast, Handled, Running, TypeOK
  <2>3. DedupInv'
    BY <2>1, <2>2 DEF DedupInv, OneBusy, EntryHeld, QueueIsShort, RunIsLast, Busy
  <2>4. CommitInv'
    BY <2>1 DEF CommitInv, Uncommitted, TokenClaimed, TokenIsOwn, RanByToken, OpenedWaits,
                AdoptRecordIsTrue, Ran
  <2> QED
    BY <2>3, <2>4
<1>4. CASE BridgeStart
  BY <1>4, QuietSafe DEF BridgeStart, bridgeVars, durable
<1> QED
  BY <1>1, <1>2, <1>3, <1>4

(* The gateway's steps are quiet: a posted call is sent, nothing more. *)
LEMMA GatewaySafe ==
  ASSUME RetryInv, TypeOK', (\E r \in Request : RequestStep(r)) \/ Crash
  PROVE  RetryInv'
<1> USE DEF gatewayRest, bridgeSide, bridgeVars, durable
<1>1. CASE Crash
  BY <1>1, QuietSafe DEF Crash
<1>2. ASSUME NEW r \in Request, RequestStep(r) PROVE RetryInv'
  <2>1. ASSUME NEW c \in Call, Post(c) PROVE RetryInv'
    BY <2>1, QuietSafe DEF Post, Moves, RetryInv, TypeOK
  <2>2. CASE Create(r) \/ Bind(r) \/ Confirm(r) \/ Expire(r) \/ GiveUp(r)
    BY <2>2, QuietSafe DEF Create, Bind, Confirm, Expire, GiveUp
  <2>3. CASE Deny(r) \/ Consume(r) \/ ClaimLost(r) \/ Claim(r) \/ Stale(r)
    BY <2>3, QuietSafe DEF Deny, Consume, ClaimLost, Claim, Stale
  <2>4. CASE PostRefused(r) \/ Settle(r) \/ Recover(r)
    BY <2>4, QuietSafe DEF PostRefused, Settle, Recover
  <2> QED
    BY <1>2, <2>1, <2>2, <2>3, <2>4 DEF RequestStep, DriveStep
<1> QED
  BY <1>1, <1>2

(* With a prompt mutex, every step keeps the invariant. *)
LEMMA RetryNext ==
  ASSUME ~MutexHeld, RetryInv, [Next]_vars
  PROVE  RetryInv'
<1>1. TypeOK'
  BY TypeNext DEF RetryInv
<1>2. CASE UNCHANGED vars
  BY <1>1, <1>2, QuietSafe DEF vars, bridgeVars, durable
<1>3. CASE Next
  BY <1>1, <1>3, CallSafe, RunSafe, WorldSafe, GatewaySafe DEF Next, BridgeStep
<1> QED
  BY <1>2, <1>3

(* When no other operation holds the issue mutex, the invariant holds.     *)
LEMMA RetryInvariant ==
  ASSUME ~MutexHeld
  PROVE  Spec => []RetryInv
<1>1. RetryInv /\ [Next]_vars => RetryInv'
  BY RetryNext
<1> QED
  BY RetryInit, <1>1, PTL DEF Spec

(* Then, of all the launches of a request, across any number of crashes of *)
(* either process, at most one shell becomes a runner.                     *)
THEOREM RunnerUnique ==
  ASSUME ~MutexHeld
  PROVE  Spec => []OneRunner
<1>1. RetryInv => OneRunner
  BY DEF RetryInv, CommitInv, RanByToken, OneRunner
<1> QED
  BY RetryInvariant, <1>1, PTL

(* A role has at most one blueprint run under way, though the dedup map is *)
(* read before the old window is closed and the run starts long after.     *)
THEOREM RunUnique ==
  ASSUME ~MutexHeld
  PROVE  Spec => []OneRunAtATime
<1>1. RetryInv => OneRunAtATime
  BY DEF RetryInv, DedupInv, OneBusy, Busy, OneRunAtATime
<1> QED
  BY RetryInvariant, <1>1, PTL

-----------------------------------------------------------------------------
(* Adoption, whatever the mutex does. *)

(* A commit file with a token was written by the launch of this token, for *)
(* its own successor and after its window was opened.                      *)
WrittenAtCommit == \A r \in Request :
  token[r] \in Call => /\ RequestOf[token[r]] = r
                      /\ run[token[r]] \in {"committed", "attached", "over", "lost"}

AdoptInv == TypeOK /\ RunIsLast /\ OpenedWaits /\ WrittenAtCommit /\ AdoptRecordIsTrue

(* A step that leaves runs, panes and commit files alone keeps it. *)
LEMMA QuietAdopts ==
  ASSUME AdoptInv, TypeOK', UNCHANGED <<shell, token, run>>,
         \A c \in Call : call[c] \in {"launched", "success", "lost"} =>
                          call'[c] \in {"launched", "success", "lost"}
  PROVE  AdoptInv'
BY DEF AdoptInv, RunIsLast, OpenedWaits, WrittenAtCommit, AdoptRecordIsTrue

(* A call starts a run only when it has had none. *)
LEMMA CallAdopts ==
  ASSUME AdoptInv, TypeOK', NEW c \in Call, CallStep(c)
  PROVE  AdoptInv'
<1> USE DEF AdoptInv
<1>1. CASE CommitLaunch(c)
  <2>1. /\ call[c] = "committing" /\ call' = [call EXCEPT ![c] = "launched"]
        /\ run' = [run EXCEPT ![c] = "preparing"]
        /\ UNCHANGED <<shell, token>>
    BY <1>1 DEF CommitLaunch, Moves, durable
  <2>2. run[c] = "none"
    BY <2>1 DEF RunIsLast
  <2>3. \A d \in Call : d # c => run'[d] = run[d] /\ call'[d] = call[d]
    BY <2>1 DEF TypeOK
  <2>4. run'[c] = "preparing" /\ call'[c] = "launched"
    BY <2>1 DEF TypeOK
  <2>5. \A r \in Request : token[r] # c
    BY <2>2 DEF WrittenAtCommit
  <2>6. RunIsLast' /\ OpenedWaits'
    BY <2>1, <2>3, <2>4 DEF RunIsLast, OpenedWaits
  <2>7. WrittenAtCommit' /\ AdoptRecordIsTrue'
    BY <2>1, <2>3, <2>5 DEF WrittenAtCommit, AdoptRecordIsTrue
  <2> QED
    BY <2>6, <2>7
<1>2. CASE ~CommitLaunch(c)
  <2>1. UNCHANGED <<shell, token, run>>
    BY <1>2 DEF CallStep, Receive, Probe, Dispatch, AdmissionDenied, Adopt, Admit,
                CommitRefused, Answer, durable, bridgeVars
  <2>2. /\ call[c] \in {"sent", "probing", "closing", "queued", "committing"}
           \/ (call[c] = "launched" /\ call'[c] = "success")
        /\ \A d \in Call : d # c => call'[d] = call[d]
    BY <1>2 DEF CallStep, Receive, Probe, Decide, Dispatch, AdmissionDenied, Adopt, Admit,
                CommitRefused, Answer, Moves, TypeOK
  <2> QED
    BY <2>1, <2>2, QuietAdopts
<1> QED
  BY <1>1, <1>2

(* A run opens its window, writes its token and ends in this order. *)
LEMMA RunAdopts ==
  ASSUME AdoptInv, TypeOK', NEW c \in Call, RunStep(c)
  PROVE  AdoptInv'
<1> USE DEF AdoptInv
<1>0. RequestOf[c] \in Request /\ None \notin Call /\ "empty" \notin Call
  BY RequestAssumption, NameAssumption
<1>1. \A d \in Call : d # c => run'[d] = run[d] /\ shell'[d] = shell[d]
  BY DEF RunStep, RunStarts, RunFails, OpenWindow, WriteCommit, WriteFails, Register,
         RunEnds, RunGoes, TypeOK
<1>2. call' = call /\ run[c] # "none"
  BY DEF RunStep, RunStarts, RunFails, OpenWindow, WriteCommit, WriteFails, Register,
         RunEnds, RunGoes
<1>3. RunIsLast'
  BY <1>1, <1>2 DEF RunIsLast
<1>4. CASE RunStarts(c) \/ RunFails(c) \/ OpenWindow(c)
  <2>1. run[c] \in {"preparing", "starting"} /\ token' = token
        /\ (run'[c] = "opened" => shell'[c] = "waiting")
    BY <1>4 DEF RunStarts, RunFails, OpenWindow, RunGoes, TypeOK, durable
  <2>2. \A r \in Request : token[r] # c
    BY <2>1 DEF WrittenAtCommit
  <2> QED
    BY <1>1, <1>3, <2>1, <2>2 DEF OpenedWaits, WrittenAtCommit, AdoptRecordIsTrue
<1>5. CASE WriteCommit(c)
  <2>1. /\ run[c] = "opened" /\ run'[c] = "committed" /\ shell' = shell
        /\ token' = [token EXCEPT ![RequestOf[c]] = c]
    BY <1>5 DEF WriteCommit, RunGoes, TypeOK
  <2>2. shell[c] = "waiting"
    BY <2>1 DEF OpenedWaits
  <2>3. \A r \in Request : IF r = RequestOf[c] THEN token'[r] = c
                           ELSE token'[r] = token[r] /\ token[r] # c
    BY <2>1 DEF TypeOK, WrittenAtCommit
  <2>4. OpenedWaits'
    BY <1>1, <2>1 DEF OpenedWaits
  <2>5. WrittenAtCommit' /\ AdoptRecordIsTrue'
    BY <1>1, <2>1, <2>2, <2>3 DEF WrittenAtCommit, AdoptRecordIsTrue
  <2> QED
    BY <1>3, <2>4, <2>5
<1>6. CASE WriteFails(c)
  <2>1. /\ run[c] = "opened" /\ run'[c] = "over"
        /\ \A r \in Request : token'[r] \in {token[r], "empty"}
    BY <1>6 DEF WriteFails, RunGoes, TypeOK
  <2>2. \A r \in Request : token[r] # c
    BY <2>1 DEF WrittenAtCommit
  <2>3. \A r \in Request : token'[r] \in Call => token'[r] = token[r] /\ token'[r] # c
    BY <1>0, <2>1, <2>2
  <2> QED
    BY <1>1, <1>3, <2>1, <2>3 DEF OpenedWaits, WrittenAtCommit, AdoptRecordIsTrue
<1>7. CASE Register(c) \/ RunEnds(c)
  <2>1. /\ run[c] \in {"committed", "attached"} /\ run'[c] \in {"attached", "over"}
        /\ token' = token
        /\ shell'[c] \in {shell[c], "exited"}
    BY <1>7 DEF Register, RunEnds, RunGoes, TypeOK, durable
  <2> QED
    BY <1>1, <1>3, <2>1 DEF OpenedWaits, WrittenAtCommit, AdoptRecordIsTrue
<1> QED
  BY <1>4, <1>5, <1>6, <1>7 DEF RunStep

(* A shell that waits gives up only without its token in the file, and not *)
(* while its launch is still to write it; a crash ends runs, not shells.   *)
LEMMA WorldAdopts ==
  ASSUME AdoptInv, TypeOK',
         \/ \E c \in Call : PaneStep(c)
         \/ \E r \in Request : ReapOrphan(r)
         \/ BridgeCrash \/ BridgeStart
  PROVE  AdoptInv'
<1> USE DEF AdoptInv, bridgeVars, durable
<1>1. ASSUME NEW c \in Call, PaneStep(c) PROVE AdoptInv'
  <2>1. /\ UNCHANGED <<call, run, token>>
        /\ \A d \in Call : d # c => shell'[d] = shell[d]
        /\ \/ shell[c] = "waiting" /\ token[RequestOf[c]] = c /\ shell'[c] = "runner"
           \/ token[RequestOf[c]] # c /\ run[c] \in {"over", "lost"}
           \/ shell[c] = "runner" /\ shell'[c] = "exited"
    BY <1>1 DEF PaneStep, Exec, GiveUpWaiting, RunnerExits, TypeOK
  <2>2. RequestOf[c] \in Request
    BY RequestAssumption
  <2>3. run[c] = "opened" => token[RequestOf[c]] # c /\ shell[c] = "waiting"
    BY <2>2 DEF WrittenAtCommit, OpenedWaits
  <2>4. OpenedWaits'
    BY <2>1, <2>3 DEF OpenedWaits
  <2>5. RunIsLast' /\ WrittenAtCommit'
    BY <2>1 DEF RunIsLast, WrittenAtCommit
  <2>6. AdoptRecordIsTrue'
    BY <2>1 DEF AdoptRecordIsTrue, WrittenAtCommit
  <2> QED
    BY <2>4, <2>5, <2>6
<1>2. CASE BridgeCrash
  <2>1. /\ UNCHANGED <<shell, token>>
        /\ \A c \in Call : run'[c] = IF run[c] \in Running THEN "lost" ELSE run[c]
        /\ \A c \in Call : call'[c] = IF call[c] \in Handled \cup {"sent"} THEN "lost" ELSE call[c]
    BY <1>2 DEF BridgeCrash
  <2>2. RunIsLast' /\ OpenedWaits'
    BY <2>1 DEF RunIsLast, OpenedWaits, Running, Handled
  <2>3. WrittenAtCommit' /\ AdoptRecordIsTrue'
    BY <2>1 DEF WrittenAtCommit, AdoptRecordIsTrue, Running
  <2> QED
    BY <2>2, <2>3
<1>3. CASE (\E r \in Request : ReapOrphan(r)) \/ BridgeStart
  BY <1>3, QuietAdopts DEF ReapOrphan, BridgeStart
<1> QED
  BY <1>1, <1>2, <1>3

(* The gateway only sends calls. *)
LEMMA GatewayAdopts ==
  ASSUME AdoptInv, TypeOK', (\E r \in Request : RequestStep(r)) \/ Crash
  PROVE  AdoptInv'
<1> USE DEF gatewayRest, bridgeSide, bridgeVars, durable
<1>1. CASE Crash
  BY <1>1, QuietAdopts DEF Crash
<1>2. ASSUME NEW r \in Request, RequestStep(r) PROVE AdoptInv'
  <2>1. ASSUME NEW c \in Call, Post(c) PROVE AdoptInv'
    BY <2>1, QuietAdopts DEF Post, Moves, AdoptInv, TypeOK
  <2>2. CASE Create(r) \/ Bind(r) \/ Confirm(r) \/ Expire(r) \/ GiveUp(r)
    BY <2>2, QuietAdopts DEF Create, Bind, Confirm, Expire, GiveUp
  <2>3. CASE Deny(r) \/ Consume(r) \/ ClaimLost(r) \/ Claim(r) \/ Stale(r)
    BY <2>3, QuietAdopts DEF Deny, Consume, ClaimLost, Claim, Stale
  <2>4. CASE PostRefused(r) \/ Settle(r) \/ Recover(r)
    BY <2>4, QuietAdopts DEF PostRefused, Settle, Recover
  <2> QED
    BY <1>2, <2>1, <2>2, <2>3, <2>4 DEF RequestStep, DriveStep
<1> QED
  BY <1>1, <1>2

(* Adoption stays sound in every behaviour. *)
LEMMA AdoptInvariant == Spec => []AdoptInv
<1>1. Init => AdoptInv
  <2> SUFFICES ASSUME Init PROVE AdoptInv
    OBVIOUS
  <2>1. TypeOK
    BY TypeInit
  <2> QED
    BY <2>1, NameAssumption
       DEF Init, AdoptInv, RunIsLast, OpenedWaits, WrittenAtCommit, AdoptRecordIsTrue
<1>2. AdoptInv /\ [Next]_vars => AdoptInv'
  <2> SUFFICES ASSUME AdoptInv, [Next]_vars PROVE AdoptInv'
    OBVIOUS
  <2>1. TypeOK'
    BY TypeNext DEF AdoptInv
  <2>2. CASE UNCHANGED vars
    BY <2>1, <2>2, QuietAdopts DEF vars, bridgeVars, durable
  <2>3. CASE Next
    BY <2>1, <2>3, CallAdopts, RunAdopts, WorldAdopts, GatewayAdopts DEF Next, BridgeStep
  <2> QED
    BY <2>2, <2>3
<1> QED
  BY <1>1, <1>2, PTL DEF Spec

(* The commit file that a replay adopts names a shell that runs, has run,  *)
(* or waits for it, also when parks and closeouts hold the issue mutex and *)
(* the same successor is driven twice.                                     *)
THEOREM AdoptedIsReal == Spec => []AdoptRecordIsTrue
<1>1. AdoptInv => AdoptRecordIsTrue
  BY DEF AdoptInv
<1> QED
  BY AdoptInvariant, <1>1, PTL

-----------------------------------------------------------------------------
(* Consent, whatever the mutex does. *)

(* A request that stands past the consumption, or whose row says so, has   *)
(* its consent consumed; only such a request is posted.                    *)
ConsentInv ==
  /\ TypeOK /\ ConsentFirst
  /\ \A r \in Request :
       req[r] \in {"claimed", "executing"} \/ at[r] = "consumed" => r \in consumed

(* The gateway's steps keep it: the row follows the consumption. *)
LEMMA ConsentKept ==
  ASSUME ConsentInv, TypeOK', (\E r \in Request : RequestStep(r)) \/ Crash
  PROVE  ConsentInv'
<1> USE NameAssumption, RequestAssumption
    DEF ConsentInv, ConsentFirst, TypeOK, gatewayRest, Goes, Stands
<1>1. CASE Crash
  BY <1>1 DEF Crash
<1>2. ASSUME NEW r \in Request, RequestStep(r) PROVE ConsentInv'
  <2>1. ASSUME NEW c \in Call, RequestOf[c] = r, Post(c) PROVE ConsentInv'
    BY <2>1 DEF Post, Moves
  <2>2. CASE Create(r) \/ Bind(r) \/ Confirm(r) \/ Expire(r) \/ GiveUp(r)
    BY <2>2 DEF Create, Bind, Confirm, Expire, GiveUp
  <2>3. CASE Deny(r) \/ Consume(r) \/ ClaimLost(r) \/ Claim(r) \/ Stale(r)
    BY <2>3 DEF Deny, Consume, ClaimLost, Claim, Stale
  <2>4. CASE PostRefused(r) \/ Settle(r)
    BY <2>4 DEF PostRefused, Settle
  <2>5. CASE Recover(r)
    BY <2>5 DEF Recover
  <2> QED
    BY <1>2, <2>1, <2>2, <2>3, <2>4, <2>5 DEF RequestStep, DriveStep
<1> QED
  BY <1>1, <1>2

(* The bridge never uses a call that was not sent. *)
LEMMA BridgeKeepsUnused ==
  ASSUME TypeOK, BridgeStep, NEW d \in Call, call[d] = "unused"
  PROVE  call'[d] = "unused"
<1> USE DEF TypeOK, Moves
<1>1. ASSUME NEW c \in Call, CallStep(c) PROVE call'[d] = "unused"
  BY <1>1 DEF CallStep, Receive, Probe, Decide, Dispatch, AdmissionDenied, Adopt, Admit,
              CommitLaunch, CommitRefused, Answer
<1>2. ASSUME NEW c \in Call, RunStep(c) \/ PaneStep(c) PROVE call'[d] = "unused"
  BY <1>2 DEF RunStep, RunStarts, RunFails, OpenWindow, WriteCommit, WriteFails, Register,
              RunEnds, PaneStep, Exec, GiveUpWaiting, RunnerExits
<1>3. ASSUME NEW r \in Request, ReapOrphan(r) PROVE call'[d] = "unused"
  BY <1>3 DEF ReapOrphan
<1>4. CASE BridgeCrash \/ BridgeStart
  BY <1>4 DEF BridgeCrash, BridgeStart, Handled
<1> QED
  BY <1>1, <1>2, <1>3, <1>4 DEF BridgeStep

(* Rows and consents agree in every behaviour. *)
LEMMA ConsentInvariant == Spec => []ConsentInv
<1>1. Init => ConsentInv
  <2> SUFFICES ASSUME Init PROVE ConsentInv
    OBVIOUS
  <2>1. TypeOK
    BY TypeInit
  <2> QED
    BY <2>1, RequestAssumption DEF Init, ConsentInv, ConsentFirst
<1>2. ConsentInv /\ [Next]_vars => ConsentInv'
  <2> SUFFICES ASSUME ConsentInv, [Next]_vars PROVE ConsentInv'
    OBVIOUS
  <2>1. TypeOK'
    BY TypeNext DEF ConsentInv
  <2>2. CASE UNCHANGED vars
    BY <2>1, <2>2 DEF ConsentInv, ConsentFirst, vars, gatewayVars
  <2>3. CASE BridgeStep /\ UNCHANGED gatewayVars
    <3>1. \A d \in Call : call'[d] # "unused" => call[d] # "unused"
      BY <2>3, BridgeKeepsUnused DEF ConsentInv
    <3> QED
      BY <2>1, <2>3, <3>1 DEF ConsentInv, ConsentFirst, gatewayVars
  <2> QED
    BY <2>1, <2>2, <2>3, ConsentKept DEF Next
<1> QED
  BY <1>1, <1>2, PTL DEF Spec

(* Whatever crashes and however often the gateway drives a request on, no  *)
(* call is sent for it before the founder's consent was consumed.          *)
THEOREM ConsentBeforeCall == Spec => []ConsentFirst
<1>1. ConsentInv => ConsentFirst
  BY DEF ConsentInv
<1> QED
  BY ConsentInvariant, <1>1, PTL

-----------------------------------------------------------------------------
(* The contract. *)

(* Panes, windows on record and the calls the gateway waits for are those  *)
(* of calls that were sent, each for its own request.                      *)
Traced ==
  /\ \A c \in Call : shell[c] # "none" => call[c] # "unused"
  /\ \A r \in Request : at[r] \in Call =>
       RequestOf[at[r]] = r /\ call[at[r]] # "unused"
  /\ \A r \in Request : target[r] \in Call =>
       RequestOf[target[r]] = r /\ call[target[r]] # "unused"

(* A call that was sent stays so. *)
LEMMA UsedStays ==
  ASSUME TypeOK, [Next]_vars, NEW d \in Call, call[d] # "unused"
  PROVE  call'[d] # "unused"
<1> USE DEF TypeOK, Moves
<1>1. ASSUME NEW c \in Call, CallStep(c) PROVE call'[d] # "unused"
  BY <1>1 DEF CallStep, Receive, Probe, Decide, Dispatch, AdmissionDenied, Adopt, Admit,
              CommitLaunch, CommitRefused, Answer
<1>2. ASSUME NEW c \in Call, RunStep(c) \/ PaneStep(c) PROVE call'[d] # "unused"
  BY <1>2 DEF RunStep, RunStarts, RunFails, OpenWindow, WriteCommit, WriteFails, Register,
              RunEnds, PaneStep, Exec, GiveUpWaiting, RunnerExits
<1>3. CASE (\E r \in Request : ReapOrphan(r)) \/ BridgeCrash \/ BridgeStart
  BY <1>3 DEF ReapOrphan, BridgeCrash, BridgeStart
<1>4. ASSUME NEW c \in Call, Post(c) PROVE call'[d] # "unused"
  BY <1>4 DEF Post
<1>5. ASSUME NEW r \in Request, RequestStep(r) PROVE call'[d] # "unused"
  <2>1. CASE \E c \in Call : Post(c)
    BY <1>4, <2>1
  <2>2. CASE ~ \E c \in Call : Post(c)
    <3>1. call' = call
      BY <1>5, <2>2 DEF RequestStep, DriveStep, Create, Bind, Confirm, Expire, GiveUp, Deny,
         Consume, ClaimLost, Claim, Stale, PostRefused, Settle, Recover, gatewayRest
    <3> QED
      BY <3>1
  <2> QED
    BY <2>1, <2>2
<1>6. CASE Crash \/ UNCHANGED vars
  BY <1>6 DEF Crash, vars
<1> QED
  BY <1>1, <1>2, <1>3, <1>5, <1>6 DEF Next, BridgeStep

(* Only a run that has begun opens a window, or registers one. *)
LEMMA BridgeTraced ==
  ASSUME AdoptInv, Traced, BridgeStep, UNCHANGED gatewayVars
  PROVE  Traced'
<1> USE DEF AdoptInv
<1>0. [Next]_vars /\ at' = at
  BY DEF Next, gatewayVars
<1>1. \A d \in Call : call[d] # "unused" => call'[d] # "unused"
  BY <1>0, UsedStays
<1>2. ASSUME NEW d \in Call, shell'[d] # "none" PROVE call[d] # "unused"
  <2>1. ASSUME NEW c \in Call, CallStep(c) PROVE shell' = shell
    BY <2>1 DEF CallStep, Receive, Probe, Decide, Dispatch, AdmissionDenied, Adopt, Admit,
                CommitLaunch, CommitRefused, Answer
  <2>2. ASSUME NEW c \in Call, RunStep(c)
        PROVE  run[c] # "none" /\ (d # c => shell'[d] = shell[d])
    BY <2>2 DEF RunStep, RunStarts, RunFails, OpenWindow, WriteCommit, WriteFails, Register,
                RunEnds, RunGoes, TypeOK
  <2>3. ASSUME NEW c \in Call, PaneStep(c)
        PROVE  shell[c] # "none" /\ (d # c => shell'[d] = shell[d])
    BY <2>3 DEF PaneStep, Exec, GiveUpWaiting, RunnerExits, TypeOK
  <2>4. CASE (\E r \in Request : ReapOrphan(r)) \/ BridgeCrash \/ BridgeStart
    BY <1>2, <2>4 DEF ReapOrphan, BridgeCrash, BridgeStart, Traced
  <2> QED
    BY <1>2, <2>1, <2>2, <2>3, <2>4 DEF BridgeStep, Traced, RunIsLast
<1>3. ASSUME NEW r \in Request, target'[r] \in Call
      PROVE  RequestOf[target'[r]] = r /\ call[target'[r]] # "unused"
  <2>0. "none" \notin Call /\ "pending" \notin Call
    BY NameAssumption
  <2>1. ASSUME NEW c \in Call, CallStep(c) PROVE target'[r] \in {target[r], "pending", "none"}
    BY <2>1 DEF CallStep, Receive, Probe, Decide, Dispatch, AdmissionDenied, Adopt, Admit,
                CommitLaunch, CommitRefused, Answer, Unregistered, TypeOK
  <2>2. ASSUME NEW c \in Call, RunStep(c)
        PROVE  \/ target'[r] \in {target[r], "none"}
               \/ target'[r] = c /\ RequestOf[c] = r /\ run[c] # "none"
    <3>1. CASE Register(c)
      BY <3>1 DEF Register, RunGoes, TypeOK
    <3>2. CASE ~Register(c)
      BY <2>2, <3>2 DEF RunStep, RunStarts, RunFails, OpenWindow, WriteCommit, WriteFails,
                  RunEnds, Unregistered, TypeOK
    <3> QED
      BY <3>1, <3>2
  <2>3. ASSUME NEW c \in Call, PaneStep(c) PROVE target' = target
    BY <2>3 DEF PaneStep, Exec, GiveUpWaiting, RunnerExits
  <2>4. CASE (\E q \in Request : ReapOrphan(q)) \/ BridgeCrash \/ BridgeStart
    BY <1>3, <2>4 DEF ReapOrphan, BridgeCrash, BridgeStart, Traced
  <2> QED
    BY <1>3, <2>0, <2>1, <2>2, <2>3, <2>4 DEF BridgeStep, Traced, RunIsLast
<1> QED
  BY <1>0, <1>1, <1>2, <1>3 DEF Traced

(* The gateway waits for the call it has just posted. *)
LEMMA GatewayTraced ==
  ASSUME TypeOK, Traced, (\E r \in Request : RequestStep(r)) \/ Crash
  PROVE  Traced'
<1>1. [Next]_vars
  BY DEF Next
<1>2. \A d \in Call : call[d] # "unused" => call'[d] # "unused"
  BY <1>1, UsedStays
<1>3. UNCHANGED <<shell, target>>
  BY DEF RequestStep, DriveStep, Create, Bind, Confirm, Expire, GiveUp, Deny, Consume,
     ClaimLost, Claim, Stale, Post, PostRefused, Settle, Recover, Crash, gatewayRest, bridgeSide
<1>4. ASSUME NEW r \in Request, at'[r] \in Call
      PROVE  RequestOf[at'[r]] = r /\ call'[at'[r]] # "unused"
  <2>0. Call \cap {"idle", "create", "drive", "consumed", "recover"} = {}
    BY NameAssumption
  <2>1. ASSUME NEW c \in Call, Post(c)
        PROVE  \/ at'[r] = at[r]
               \/ at'[r] = c /\ RequestOf[c] = r /\ call'[c] = "sent"
    BY <2>1, RequestAssumption DEF Post, Stands, Moves, TypeOK
  <2>2. ASSUME NEW q \in Request, RequestStep(q), ~ \E c \in Call : Post(c)
        PROVE  at'[r] \in {at[r], "idle", "create", "drive", "consumed", "recover"}
    BY <2>2 DEF RequestStep, DriveStep, Create, Bind, Confirm, Expire, GiveUp, Deny, Consume,
     ClaimLost, Claim, Stale, PostRefused, Settle, Recover, Stands, TypeOK
  <2>3. CASE Crash
    BY <1>4, <2>0, <2>3 DEF Crash
  <2> QED
    BY <1>2, <1>4, <2>0, <2>1, <2>2, <2>3 DEF Traced
<1> QED
  BY <1>2, <1>3, <1>4 DEF Traced

(* Calls, panes and rows stay traced in every behaviour. *)
LEMMA TracedInvariant == Spec => []Traced
<1>1. Init => Traced
  BY NameAssumption DEF Init, Traced
<1>2. AdoptInv /\ Traced /\ [Next]_vars => Traced'
  <2> SUFFICES ASSUME AdoptInv, Traced, [Next]_vars PROVE Traced'
    OBVIOUS
  <2>1. CASE UNCHANGED vars
    BY <2>1 DEF vars, gatewayVars, Traced
  <2>2. CASE BridgeStep /\ UNCHANGED gatewayVars
    BY <2>2, BridgeTraced
  <2>3. CASE (\E r \in Request : RequestStep(r)) \/ Crash
    BY <2>3, GatewayTraced DEF AdoptInv
  <2> QED
    BY <2>1, <2>2, <2>3 DEF Next
<1> QED
  BY <1>1, <1>2, AdoptInvariant, PTL DEF Spec

(* A pane that runs goes on, and only grep makes one a runner. *)
LEMMA RunnersGrow ==
  ASSUME RetryInv, BridgeStep
  PROVE  \/ Runners' = Runners
         \/ \E c \in Call : /\ shell[c] = "waiting" /\ token[RequestOf[c]] = c
                            /\ Runners' = Runners \cup {c} /\ call' = call
<1> USE DEF RetryInv, CommitInv
<1>1. ASSUME NEW c \in Call, CallStep(c) PROVE Runners' = Runners
  <2>1. shell' = shell
    BY <1>1 DEF CallStep, Receive, Probe, Decide, Dispatch, AdmissionDenied, Adopt, Admit,
                CommitLaunch, CommitRefused, Answer
  <2> QED
    BY <2>1 DEF Runners, Ran
<1>2. ASSUME NEW c \in Call, RunStep(c) PROVE Runners' = Runners
  <2>1. \A d \in Call : d # c => shell'[d] = shell[d]
    BY <1>2 DEF RunStep, RunStarts, RunFails, OpenWindow, WriteCommit, WriteFails, Register,
                RunEnds, RunGoes, TypeOK
  <2>2. CASE OpenWindow(c)
    <3>1. run[c] = "starting" /\ shell'[c] = "waiting"
      BY <2>2 DEF OpenWindow, RunGoes, TypeOK
    <3>2. ~Ran(c)
      BY <3>1, NameAssumption DEF RanByToken, Uncommitted, Driving
    <3> QED
      BY <2>1, <3>1, <3>2 DEF Runners, Ran
  <2>3. CASE WriteFails(c)
    <3>1. shell[c] = "waiting" /\ shell'[c] \in {"waiting", "dead"}
      BY <2>3 DEF WriteFails, RunGoes, OpenedWaits, TypeOK
    <3> QED
      BY <2>1, <3>1 DEF Runners, Ran
  <2>4. CASE RunStarts(c) \/ RunFails(c) \/ WriteCommit(c) \/ Register(c) \/ RunEnds(c)
    <3>1. shell'[c] = shell[c] \/ (shell[c] = "runner" /\ shell'[c] = "exited")
      BY <2>4 DEF RunStarts, RunFails, WriteCommit, Register, RunEnds, TypeOK
    <3> QED
      BY <2>1, <3>1 DEF Runners, Ran
  <2> QED
    BY <1>2, <2>2, <2>3, <2>4 DEF RunStep
<1>3. ASSUME NEW c \in Call, PaneStep(c)
      PROVE  \/ Runners' = Runners
             \/ /\ shell[c] = "waiting" /\ token[RequestOf[c]] = c
                /\ Runners' = Runners \cup {c} /\ call' = call
  BY <1>3 DEF PaneStep, Exec, GiveUpWaiting, RunnerExits, Runners, Ran, TypeOK
<1>4. CASE (\E r \in Request : ReapOrphan(r)) \/ BridgeCrash \/ BridgeStart
  BY <1>4 DEF ReapOrphan, BridgeCrash, BridgeStart, Runners, Ran
<1> QED
  BY <1>1, <1>2, <1>3, <1>4 DEF BridgeStep

ContractVars == <<Opened, consumed, SentCalls, Runners>>

(* What the bridge and the panes do is a start, or nothing to the founder. *)
LEMMA BridgeKeepsContract ==
  ASSUME RetryInv, Traced, BridgeStep, UNCHANGED gatewayVars
  PROVE  Contract!Next \/ UNCHANGED ContractVars
<1> USE DEF RetryInv, CommitInv
<1>1. UNCHANGED <<Opened, consumed>>
  BY DEF gatewayVars, Opened
<1>2. SentCalls' = SentCalls
  <2>1. [Next]_vars
    BY DEF Next
  <2>2. \A d \in Call : call'[d] # "unused" <=> call[d] # "unused"
    BY <2>1, UsedStays, BridgeKeepsUnused
  <2> QED
    BY <2>2 DEF SentCalls
<1>3. CASE Runners' = Runners
  BY <1>1, <1>2, <1>3 DEF ContractVars
<1>4. ASSUME NEW c \in Call, shell[c] = "waiting", token[RequestOf[c]] = c,
             Runners' = Runners \cup {c}
      PROVE  Contract!Start(c)
  <2>1. c \in SentCalls
    BY <1>4 DEF Traced, SentCalls
  <2>2. ASSUME NEW d \in Runners, RequestOf[d] = RequestOf[c] PROVE FALSE
    <3>1. token[RequestOf[d]] = d
      BY DEF Runners, RanByToken
    <3>2. d = c
      BY <1>4, <2>2, <3>1
    <3> QED
      BY <1>4, <3>2 DEF Runners, Ran
  <2> QED
    BY <1>1, <1>2, <1>4, <2>1, <2>2 DEF Contract!Start
<1> QED
  BY <1>3, <1>4, RunnersGrow DEF Contract!Next

(* What the gateway does is a step of the request it handles. *)
LEMMA GatewayKeepsContract ==
  ASSUME ConsentInv, Traced, NEW r \in Request, RequestStep(r)
  PROVE  Contract!Next \/ UNCHANGED ContractVars
<1> USE DEF ConsentInv
<1>0. /\ req \in [Request -> RequestState] /\ RequestOf \in [Call -> Request]
      /\ Runners' = Runners
  <2>1. shell' = shell
    BY DEF RequestStep, DriveStep, Create, Bind, Confirm, Expire, GiveUp, Deny, Consume,
       ClaimLost, Claim, Stale, Post, PostRefused, Settle, Recover, gatewayRest, bridgeSide
  <2> QED
    BY <2>1, RequestAssumption DEF TypeOK, Runners, Ran
<1>1. ASSUME req' = req PROVE Opened' = Opened
  BY <1>1 DEF Opened
<1>2. ASSUME NEW s \in RequestState, req' = [req EXCEPT ![r] = s]
      PROVE  Opened' = [Opened EXCEPT ![r] = IF s \in Settled \cup {"none"} THEN s ELSE "open"]
  BY <1>0, <1>2 DEF Opened
<1>3. ASSUME call' = call PROVE SentCalls' = SentCalls
  BY <1>3 DEF SentCalls
<1>4. ASSUME NEW s \in Settled, req' = [req EXCEPT ![r] = s],
             req[r] \notin Settled \cup {"none"},
             s # "refused" => r \in consumed,
             s = "succeeded" => \E c \in SentCalls : RequestOf[c] = r,
             UNCHANGED <<consumed, call>>
      PROVE  Contract!Settle(r)
  <2>1. Opened[r] = "open"
    BY <1>4 DEF Opened
  <2>2. Opened' = [Opened EXCEPT ![r] = s]
    BY <1>2, <1>4 DEF Settled, RequestState
  <2> QED
    BY <1>0, <1>3, <1>4, <2>1, <2>2 DEF Contract!Settle, Settled
<1>5. CASE Create(r)
  <2>1. req[r] = "none" /\ req' = [req EXCEPT ![r] = "requested"] /\ UNCHANGED <<consumed, call>>
    BY <1>5 DEF Create, Goes, gatewayRest
  <2>2. Opened[r] = "none" /\ Opened' = [Opened EXCEPT ![r] = "open"]
    BY <1>2, <2>1 DEF Opened, RequestState, Settled
  <2> QED
    BY <1>0, <1>3, <2>1, <2>2 DEF Contract!Next, Contract!Ask
<1>6. CASE Expire(r) \/ Deny(r) \/ ClaimLost(r) \/ Stale(r)
  <2>1. /\ req' = [req EXCEPT ![r] = "refused"] /\ UNCHANGED <<consumed, call>>
        /\ req[r] \in {"requested", "confirmed", "claimed", "executing"}
    BY <1>6 DEF Expire, Deny, ClaimLost, Stale, Goes, gatewayRest
  <2> QED
    BY <1>4, <2>1 DEF Settled, Contract!Next
<1>7. CASE Consume(r)
  <2>1. /\ req[r] = "confirmed" /\ r \notin consumed /\ consumed' = consumed \cup {r}
        /\ UNCHANGED <<req, call>>
    BY <1>7 DEF Consume
  <2>2. Opened[r] = "open"
    BY <2>1 DEF Opened, Settled
  <2> QED
    BY <1>0, <1>1, <1>3, <2>1, <2>2 DEF Contract!Next, Contract!Consume
<1>8. CASE Bind(r)
  BY <1>0, <1>1, <1>3, <1>8 DEF Bind, ContractVars
<1>9. CASE Confirm(r) \/ Claim(r)
  <2>1. \E s \in {"confirmed", "claimed"} : req' = [req EXCEPT ![r] = s]
    BY <1>9 DEF Confirm, Claim, Goes
  <2>2. Opened[r] = "open"
    BY <1>9 DEF Confirm, Claim, Goes, Opened, Settled
  <2>3. Opened' = [Opened EXCEPT ![r] = "open"]
    BY <1>2, <2>1 DEF Settled, RequestState
  <2>4. Opened' = Opened
    BY <2>2, <2>3 DEF Opened
  <2> QED
    BY <1>0, <1>3, <1>9, <2>4 DEF Confirm, Claim, gatewayRest, ContractVars
<1>10. ASSUME NEW c \in Call, RequestOf[c] = r, Post(c) PROVE Contract!Send(c)
  <2>1. /\ req[r] \in {"claimed", "executing"} /\ req' = [req EXCEPT ![r] = "executing"]
        /\ call[c] = "unused" /\ call' = [call EXCEPT ![c] = "sent"]
        /\ consumed' = consumed
    BY <1>10 DEF Post, Goes, Moves
  <2>2. Opened[r] = "open" /\ r \in consumed
    BY <2>1 DEF Opened, Settled
  <2>3. Opened' = [Opened EXCEPT ![r] = "open"]
    BY <1>2, <2>1 DEF Settled, RequestState
  <2>4. Opened' = Opened
    BY <2>2, <2>3 DEF Opened
  <2>5. c \notin SentCalls /\ SentCalls' = SentCalls \cup {c}
    BY <2>1 DEF SentCalls, TypeOK
  <2> QED
    BY <1>0, <1>10, <2>1, <2>2, <2>4, <2>5 DEF Contract!Send
<1>11. CASE PostRefused(r) \/ GiveUp(r)
  <2>1. /\ \E s \in {"not_dispatched", "ambiguous"} : req' = [req EXCEPT ![r] = s]
        /\ UNCHANGED <<consumed, call>> /\ req[r] \in {"claimed", "executing"}
    BY <1>11 DEF PostRefused, GiveUp, Goes, gatewayRest
  <2> QED
    BY <1>4, <2>1 DEF Settled, Contract!Next
<1>12. CASE Settle(r)
  <2>1. /\ \E s \in {"succeeded", "not_dispatched", "ambiguous"} : req' = [req EXCEPT ![r] = s]
        /\ UNCHANGED <<consumed, call>> /\ req[r] = "executing" /\ at[r] \in Call
    BY <1>12 DEF Settle, Goes, gatewayRest
  <2>2. at[r] \in SentCalls /\ RequestOf[at[r]] = r
    BY <2>1 DEF Traced, SentCalls
  <2> QED
    BY <1>4, <2>1, <2>2 DEF Settled, Contract!Next
<1>13. CASE Recover(r)
  <2>1. UNCHANGED <<consumed, call>>
    BY <1>13 DEF Recover, gatewayRest
  <2>2. \/ req' = req
        \/ /\ req[r] \in {"claimed", "executing"}
           /\ \/ req' = [req EXCEPT ![r] = "ambiguous"]
              \/ req' = [req EXCEPT ![r] = "succeeded"] /\ target[r] \in Call
    BY <1>13 DEF Recover, Evidence
  <2>3. target[r] \in Call => target[r] \in SentCalls /\ RequestOf[target[r]] = r
    BY DEF Traced, SentCalls
  <2>4. CASE req' = req
    BY <1>0, <1>1, <1>3, <2>1, <2>4 DEF ContractVars
  <2>5. CASE req' # req
    BY <1>4, <2>1, <2>2, <2>3, <2>5 DEF Settled, Contract!Next
  <2> QED
    BY <2>4, <2>5
<1> QED
  BY <1>5, <1>6, <1>7, <1>8, <1>9, <1>10, <1>11, <1>12, <1>13
     DEF RequestStep, DriveStep, Contract!Next

(* With a prompt issue mutex the retry keeps its contract, for any requests *)
(* and calls and any number of crashes of either process: it is settled     *)
(* once, calls follow the consent, and one call at most becomes a runner.   *)
THEOREM ContractImplemented ==
  ASSUME ~MutexHeld
  PROVE  Spec => ImplementsContract
<1>1. Init => Contract!Init
  BY DEF Init, Contract!Init, Opened, SentCalls, Runners, Ran
<1>2. RetryInv /\ ConsentInv /\ Traced /\ [Next]_vars => [Contract!Next]_(Contract!vars)
  <2> SUFFICES ASSUME RetryInv, ConsentInv, Traced, [Next]_vars
               PROVE  Contract!Next \/ UNCHANGED ContractVars
    BY DEF Contract!vars, ContractVars
  <2>1. CASE UNCHANGED vars
    BY <2>1 DEF vars, gatewayVars, ContractVars, Opened, SentCalls, Runners, Ran
  <2>2. CASE BridgeStep /\ UNCHANGED gatewayVars
    BY <2>2, BridgeKeepsContract
  <2>3. CASE Crash
    BY <2>3 DEF Crash, bridgeSide, ContractVars, Opened, SentCalls, Runners, Ran
  <2> QED
    BY <2>1, <2>2, <2>3, GatewayKeepsContract DEF Next
<1> QED
  BY <1>1, <1>2, RetryInvariant, ConsentInvariant, TracedInvariant, PTL
     DEF Spec, ImplementsContract, Contract!Spec

=============================================================================
