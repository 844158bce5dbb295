--------------------------- MODULE RetryDispatch ---------------------------
(***************************************************************************)
(* The bridge's side of a gateway-bound retry: handleRetry with its intent *)
(* log, RetryDispatcher.dispatch with its dedup map, launch claim and      *)
(* commit file, the two-phase gated launch of TmuxAdapter, and the tmux    *)
(* panes themselves.  A bridge step is the code between two awaits, except *)
(* that the launch turn is cut where a crash leaves something behind.      *)
(***************************************************************************)
EXTENDS RetryStore

CONSTANTS
  MutexHeld,         \* may another operation hold the issue mutex for long?
  MaxBridgeCrashes

ASSUME MutexAssumption       == MutexHeld \in BOOLEAN
ASSUME BridgeCrashAssumption == MaxBridgeCrashes \in Nat

VARIABLES
  wal,       \* retry_dispatch_intents: the requests with a row
  claims,    \* launch_claims: the successors with a row
  token,     \* the commit file of each successor: whose token it contains
  sess,      \* the successor's session row
  inflight,  \* RetryDispatcher.inflight for the role
  mutex,     \* the calls queued on the issue mutex
  run,       \* the blueprint run each call started
  bridgeCrashes

durable    == <<wal, claims, token, sess>>
bridgeVars == <<durable, inflight, mutex, run, bridgeCrashes>>

SessionState == {"none", "active", "failed", "over"}
Running      == {"preparing", "starting", "opened", "committed", "attached"}
RunState     == {"none", "over", "lost"} \cup Running

(* Code that runs without giving up the event loop: the launch turn of     *)
(* TmuxAdapter, and the two mutex sections when nobody holds the mutex.    *)
Launching == \E c \in Call : run[c] \in {"opened", "committed"}
MidTurn   == Launching \/ (~MutexHeld /\ mutex # <<>>)
Turn      == up /\ ~MidTurn
HasMutex(c) == up /\ ~Launching /\ mutex # <<>> /\ Head(mutex) = c

(* The role's dedup entry and the active sessions handleRetry looks at. *)
RoleFree == inflight = None /\ \A r \in Request : sess[r] # "active"

(* A bug: a row that is not pending any more is emptied.  *)
UnregisteredAny(r) == [target EXCEPT ![r] = "empty"]

(* cleanupPreRegistration removes only a ":pending" row. *)
Unregistered(r) == [target EXCEPT ![r] = IF @ = "pending" THEN "none" ELSE @]

(* Eligibility, dedup and active-session checks; the predecessor may have  *)
(* left the retryable statuses.  Then the old window is closed, awaited.   *)
Decide(c, from) ==
  \/ Moves(c, from, "refused")
  \/ RoleFree /\ Moves(c, from, "closing")

(* The first call of a request commits the intent row before anything      *)
(* else; a call without a successor id is a 400.                           *)
Receive(c) ==
  LET r == RequestOf[c] IN
  /\ Turn
  /\ \/ r \notin bound /\ Moves(c, "sent", "refused") /\ UNCHANGED wal
     \/ r \in bound \ wal /\ Decide(c, "sent") /\ wal' = wal \cup {r}
     \/ r \in bound \cap wal /\ Moves(c, "sent", "probing") /\ UNCHANGED wal
  /\ UNCHANGED <<bound, target, shell, up, claims, token, sess,
                 inflight, mutex, run, bridgeCrashes>>

(* A replay is decided by the successor's started evidence. *)
Probe(c) ==
  /\ Turn
  /\ \E found \in Evidence(RequestOf[c]) :
       \/ found = "started" /\ Moves(c, "probing", "success")
       \/ found = "lookup_error" /\ Moves(c, "probing", "refused")
       \/ found = "not_started" /\ Decide(c, "probing")
  /\ UNCHANGED <<bound, target, shell, up, bridgeVars>>

(* A bug: the dedup map is not looked at again after the old window went.  *)
DispatchUnchecked(c) ==
  /\ Turn
  /\ Moves(c, "closing", "queued")
  /\ mutex' = Append(mutex, c)
  /\ UNCHANGED <<bound, target, shell, up, durable, inflight, run, bridgeCrashes>>

(* dispatch(): converge on this successor's entry, refuse another's, or    *)
(* ask for admission.                                                      *)
Dispatch(c) ==
  /\ Turn
  /\ \/ /\ inflight = RequestOf[c] /\ Moves(c, "closing", "launched")
        /\ UNCHANGED mutex
     \/ /\ inflight \notin {None, RequestOf[c]} /\ Moves(c, "closing", "refused")
        /\ UNCHANGED mutex
     \/ /\ inflight = None /\ Moves(c, "closing", "queued")
        /\ mutex' = Append(mutex, c)
  /\ UNCHANGED <<bound, target, shell, up, durable, inflight, run, bridgeCrashes>>

(* admitLifecycle refuses: the issue is parked. *)
AdmissionDenied(c) ==
  /\ HasMutex(c)
  /\ Moves(c, "queued", "refused")
  /\ mutex' = Tail(mutex)
  /\ UNCHANGED <<bound, target, shell, up, durable, inflight, run, bridgeCrashes>>

(* A claimed successor whose commit file exists is adopted. *)
Adopt(c) ==
  LET r == RequestOf[c] IN
  /\ HasMutex(c)
  /\ r \in claims /\ token[r] # None
  /\ Moves(c, "queued", "launched")
  /\ mutex' = Tail(mutex)
  /\ UNCHANGED <<bound, target, shell, up, durable, inflight, run, bridgeCrashes>>

(* A bug: only the row of a first attempt is ever taken for committed.     *)
AdmitAlways(c) ==
  LET r == RequestOf[c] IN
  /\ HasMutex(c)
  /\ Moves(c, "queued", "committing")
  /\ claims' = claims \cup {r}
  /\ inflight' = r
  /\ target' = [target EXCEPT ![r] = "pending"]
  /\ mutex' = Append(Tail(mutex), c)
  /\ UNCHANGED <<bound, shell, up, wal, token, sess, run, bridgeCrashes>>

(* Otherwise the successor is (re-)driven: the dedup entry, the ":pending" *)
(* row, and commitLaunch's turn on the mutex.                              *)
Admit(c) ==
  LET r == RequestOf[c] IN
  /\ HasMutex(c)
  /\ r \notin claims \/ token[r] = None
  /\ Moves(c, "queued", "committing")
  /\ claims' = claims \cup {r}
  /\ inflight' = r
  /\ target' = [target EXCEPT ![r] = "pending"]
  /\ mutex' = Append(Tail(mutex), c)
  /\ UNCHANGED <<bound, shell, up, wal, token, sess, run, bridgeCrashes>>

(* commitLaunch agrees and blueprint.run starts; dispatch() returns. *)
CommitLaunch(c) ==
  /\ HasMutex(c)
  /\ Moves(c, "committing", "launched")
  /\ mutex' = Tail(mutex)
  /\ run' = [run EXCEPT ![c] = "preparing"]
  /\ UNCHANGED <<bound, target, shell, up, durable, inflight, bridgeCrashes>>

(* ... or a park got the mutex first and cancelled the launch claim. *)
CommitRefused(c) ==
  /\ HasMutex(c) /\ MutexHeld
  /\ Moves(c, "committing", "refused")
  /\ mutex' = Tail(mutex)
  /\ inflight' = None
  /\ target' = Unregistered(RequestOf[c])
  /\ UNCHANGED <<bound, shell, up, durable, run, bridgeCrashes>>

(* The bookkeeping after dispatch() never turns the answer into a failure. *)
Answer(c) ==
  /\ Turn
  /\ Moves(c, "launched", "success")
  /\ UNCHANGED <<bound, target, shell, up, bridgeVars>>

RunGoes(c, from, to) == run[c] = from /\ run' = [run EXCEPT ![c] = to]

(* emitStarted writes the successor's session row. *)
RunStarts(c) ==
  /\ Turn
  /\ RunGoes(c, "preparing", "starting")
  /\ sess' = [sess EXCEPT ![RequestOf[c]] = "active"]
  /\ UNCHANGED <<call, bound, target, shell, up, wal, claims, token,
                 inflight, mutex, bridgeCrashes>>

(* The catch and the finally of a run that failed before its window. *)
RunFails(c) ==
  LET r == RequestOf[c] IN
  /\ Turn
  /\ \/ RunGoes(c, "preparing", "over") /\ UNCHANGED sess
     \/ RunGoes(c, "starting", "over") /\ sess' = [sess EXCEPT ![r] = "failed"]
  /\ target' = Unregistered(r)
  /\ inflight' = None
  /\ UNCHANGED <<call, bound, shell, up, wal, claims, token, mutex, bridgeCrashes>>

(* A bug: the commit file is written before the window is opened. *)
OpenWindowCommitted(c) ==
  /\ Turn
  /\ RunGoes(c, "starting", "opened")
  /\ token' = [token EXCEPT ![RequestOf[c]] = c]
  /\ shell' \in {shell, [shell EXCEPT ![c] = "waiting"]}
  /\ UNCHANGED <<call, bound, target, up, wal, claims, sess, inflight, mutex,
                 bridgeCrashes>>

(* tmux new-window: a shell that waits for its own token. *)
OpenWindow(c) ==
  /\ Turn
  /\ RunGoes(c, "starting", "opened")
  /\ shell' = [shell EXCEPT ![c] = "waiting"]
  /\ UNCHANGED <<call, bound, target, up, durable, inflight, mutex, bridgeCrashes>>

(* The commit point: the file holds this launch's token. *)
WriteCommit(c) ==
  /\ up
  /\ RunGoes(c, "opened", "committed")
  /\ token' = [token EXCEPT ![RequestOf[c]] = c]
  /\ UNCHANGED <<call, bound, target, shell, up, wal, claims, sess,
                 inflight, mutex, bridgeCrashes>>

(* The write throws; the file may have been created before it did.  The    *)
(* window is killed if tmux lets it, and the run fails.                    *)
WriteFails(c) ==
  LET r == RequestOf[c] IN
  /\ up
  /\ RunGoes(c, "opened", "over")
  /\ token' \in {token, [token EXCEPT ![r] = "empty"]}
  /\ shell' \in {shell, [shell EXCEPT ![c] = "dead"]}
  /\ sess' = [sess EXCEPT ![r] = "failed"]
  /\ target' = Unregistered(r)
  /\ inflight' = None
  /\ UNCHANGED <<call, bound, up, wal, claims, mutex, bridgeCrashes>>

(* The CommDB row gets the window; a failure to write it is not fatal. *)
Register(c) ==
  /\ up
  /\ RunGoes(c, "committed", "attached")
  /\ target' \in {target, [target EXCEPT ![RequestOf[c]] = c]}
  /\ UNCHANGED <<call, bound, shell, up, durable, inflight, mutex, bridgeCrashes>>

(* waitForCompletion is over, by completion or by timeout; a session that  *)
(* waits for a review stays active.                                        *)
RunEnds(c) ==
  /\ Turn
  /\ RunGoes(c, "attached", "over")
  /\ sess' \in {sess, [sess EXCEPT ![RequestOf[c]] = "over"]}
  /\ shell' \in {shell, [shell EXCEPT ![c] =
                           IF @ = "runner" THEN "exited" ELSE @]}
  /\ inflight' = None
  /\ UNCHANGED <<call, bound, target, up, wal, claims, token, mutex, bridgeCrashes>>

(* reapOrphans: the heartbeat is stale and no live pane is registered. *)
ReapOrphan(r) ==
  /\ Turn
  /\ sess[r] = "active"
  /\ \A c \in Call : RequestOf[c] = r => run[c] \notin Running
  /\ target[r] \in Call => ~PaneAlive(target[r])
  /\ sess' = [sess EXCEPT ![r] = "failed"]
  /\ UNCHANGED <<call, bound, target, shell, up, wal, claims, token,
                 inflight, mutex, run, bridgeCrashes>>

(* A bug: the shell waits for the commit file, not for its own token. *)
ExecOnFile(c) ==
  /\ shell[c] = "waiting" /\ token[RequestOf[c]] # None
  /\ shell' = [shell EXCEPT ![c] = "runner"]
  /\ UNCHANGED <<call, bound, target, up, bridgeVars>>

(* grep finds the token: the shell becomes the runner. *)
Exec(c) ==
  /\ shell[c] = "waiting" /\ token[RequestOf[c]] = c
  /\ shell' = [shell EXCEPT ![c] = "runner"]
  /\ UNCHANGED <<call, bound, target, up, bridgeVars>>

(* 1500 polls without it, far longer than the turn that writes it. *)
GiveUpWaiting(c) ==
  /\ shell[c] = "waiting" /\ token[RequestOf[c]] # c
  /\ run[c] \in {"over", "lost"}
  /\ shell' = [shell EXCEPT ![c] = "dead"]
  /\ UNCHANGED <<call, bound, target, up, bridgeVars>>

RunnerExits(c) ==
  /\ shell[c] = "runner"
  /\ shell' = [shell EXCEPT ![c] = "exited"]
  /\ UNCHANGED <<call, bound, target, up, bridgeVars>>

(* Memory is gone, the connections are reset, the panes live on. *)
BridgeCrash ==
  /\ up /\ bridgeCrashes < MaxBridgeCrashes
  /\ up' = FALSE
  /\ bridgeCrashes' = bridgeCrashes + 1
  /\ call' = [c \in Call |->
       IF call[c] \in Handled \cup {"sent"} THEN "lost" ELSE call[c]]
  /\ run' = [c \in Call |-> IF run[c] \in Running THEN "lost" ELSE run[c]]
  /\ inflight' = None
  /\ mutex' = <<>>
  /\ UNCHANGED <<bound, target, shell, durable>>

BridgeStart ==
  /\ ~up /\ up' = TRUE
  /\ UNCHANGED <<call, bound, target, shell, bridgeVars>>

(* Steps of one HTTP call, of one blueprint run, and of one pane. *)
CallStep(c) ==
  \/ Receive(c) \/ Probe(c) \/ Dispatch(c)
  \/ AdmissionDenied(c) \/ Adopt(c) \/ Admit(c)
  \/ CommitLaunch(c) \/ CommitRefused(c) \/ Answer(c)
RunStep(c) ==
  \/ RunStarts(c) \/ RunFails(c) \/ OpenWindow(c) \/ WriteCommit(c)
  \/ WriteFails(c) \/ Register(c) \/ RunEnds(c)
PaneStep(c) == Exec(c) \/ GiveUpWaiting(c) \/ RunnerExits(c)

=============================================================================
