# Flywheel: a verification development

TLA+ models of the parts of Flywheel where concurrency, crashes and ordering
decide correctness, TLC configurations that check them on small instances, and
TLAPS proofs of the safety properties for every instance.

Flywheel runs coding agents ("runners") for Linear issues. A long-lived Node
process, the *bridge* (`packages/teamlead`), starts runners in tmux windows,
follows them through an in-process event sink and an SQLite `StateStore`, talks
to them through a second SQLite file (`CommDB`, `packages/flywheel-comm`), and
closes them down. Batch runs use a dependency resolver and dispatcher
(`packages/dag-resolver`, `packages/edge-worker`). What is shipped to customers
goes through a small object store, the *payload endpoint*
(`packages/payload-endpoint`), and the scripts of `scripts/release`.

## 1. The system's parts

| Part | State it keeps | Operations | Interacts with | What makes it correct |
|---|---|---|---|---|
| Runner launch (`run-dispatcher.ts`, `lifecycle-admission.ts`) | in-memory dedup map; launch claims | `start`, admission, commit, activation, failure exits | issue mutex, StateStore, CommDB, Blueprint | one run per role; no launch under a park; every exit gives back what it took |
| Park / unpark / closeout (`lifecycle-closeout.ts`, `close-runner.ts`) | tombstone and its `closeout_status` | `parkIssue`, `unparkIssue`, `closeoutIssueLocked` | issue mutex, tmux, CommDB, sessions | complete means nothing can still run; partial is driven on |
| Maintenance tick (`plugin.ts`, `HeartbeatService.ts`) | single-flight flag | replay of unfinished parks, stale-claim reaper | closeout, claims | parks and orphaned claims converge |
| Event sink (`DirectEventSink.ts`) | session rows, worktree bindings | `emitStarted`, `emitWorktreeReady`, `emitCompleted`, `emitFailed` | Blueprint, claims | rows are durable in the order closeouts rely on |
| Dependency resolver (`DagResolver.ts`) | node status, in-degrees, resolved external blockers | `markDone`, `shelve`, `resolveExternalBlocker`, `getReady` | dispatcher | cycles rejected; a node is ready when every blocker is released |
| DAG dispatcher, semaphore (`DagDispatcher.ts`, `Semaphore.ts`) | in-flight map, scheduled set, slot count and waiters | `dispatch`, `dispatchOne`, `acquire`, `release` | resolver, Blueprint | each node once, bounded concurrency, returns, leaves nothing runnable |
| Retry dispatch (`actions.ts`, `retry-dispatch-wal.ts`, `launch-claim-store.ts`, `started-evidence.ts`, `run-dispatcher.ts`) | intent WAL, durable launch claim, commit file | `handleRetry`, `dispatch`, reconcile | gateway (HTTP), issue mutex, CommDB, tmux | at most one started runner per retry |
| Lead gateway (`lifecycle-requests.ts`, `lifecycle-orchestrator.ts`, `gateway-main.ts`) | lifecycle requests with their successor ids; consumed consents in CommDB | create, observe, execute, recover | founder, bridge (HTTP), started evidence | consent once and first; every request settles |
| Review requests (`review-request-coordinator.ts`) | review jobs and approval records in the StateStore; per-execution chains and reviewer slots in memory | `accept`, replay, `runJob`, `respond`, `redriveOnBoot`, `stop` | runners (HTTP), gates in CommDB, reviewer processes, git | an approval stands only for the delivered verdict on the frozen head; every job ends |
| Payload endpoint (`packages/payload-endpoint/src`) | one manifest object (versions, pointers, release ops, beta ledger, tombstones); payload objects | `POST /admin/manifest`, `PUT` and `DELETE /admin/payload` | release scripts, customers | a version on offer can be downloaded; only legal diffs land |
| Release scripts (`scripts/release`, `publish-broker/release-commit.ts`) | their position; nothing durable of their own | beta release, prepare, commit, withdraw, abandon, cleanup | endpoint, founder, operator | a run may stop anywhere and be run again; nothing expires before its time |
| Session state machine (`workflow-fsm.ts`, `applyTransition.ts`) | session status | transitions | every sink and closeout | only legal edges, terminal states immune |
| CommDB protocols (`flywheel-comm/src/db.ts`) | gates, responses, TURN, wakes, sessions | open/answer/retire gate, grant/release TURN | runners, leads, bridge | one answer per gate, one TURN holder |
| Phase orchestrator, auto-QA, gate poller, ship gate | records in the StateStore | hand-offs, QA claim/outcome, relays, approvals | all of the above | idempotent under retry, bound to one head and one session |

`PROJECT.json` lists every part, the ones not modelled too, and the hazards at
their lines. What is hard in this code: the event loop interleaves at every
`await`; a keyed FIFO mutex serialises only some writers; a bridge crash loses
every promise, the mutex and the dedup map but no row and no tmux window;
external calls (tmux, git, GitHub, SQLite) fail one at a time; and the
maintenance tick repeats work with information it read earlier.

## 2. Modules

### Park versus start

| Module | Models |
|---|---|
| `LifecycleStore` | what the launch and the park share: launch claims, sessions, bindings, the tombstone, CommDB rows, tmux windows, the issue mutex |
| `RunnerLaunch` | one `start()` from the dedup check to the end of the run |
| `IssueCloseout` | `closeoutIssueLocked` with disposition `founder_parked` |
| `LaunchLifecycle` | composes the two with park and unpark requests, the maintenance tick and crashes; the properties |
| `MCLaunchLifecycle` | instances for TLC |
| `LaunchLifecycleProofs` | theorems |

*A step* is the code between two awaits of the event loop. `Quiet` says that
the loop is between turns: requests, timers and external completions only get
their turn then, while continuations that wait for nothing external (the mutex
being handed over, `start()` going on after admission) run first. The stage
`"turn"` of a closeout is the middle of such a synchronous turn: a loop over
nodes that needs no external call is not interrupted, exactly as in the code.

*State.* `claim`, `session`, `bound`, `intent` and `comm` are the durable rows;
`alive` the tmux windows; `lock` the ticket queue of `createIssueMutex` for one
issue root; `pc` the position of each `start()`; `inflight` the dedup map;
`stage`, `todo`, `rowless`, `midLaunch`, `cur`, `target`, `blocked` the local
variables of the running closeout (`todo` is the rest of the collected list,
`midLaunch` the nodes with `claimInFlight`, `rowless` those collected as bare
claims, `blocked` the nodes that set `anyBlocked`); `tick` the position of the
maintenance tick. `seen` and `unread` are history variables for one property:
the runners found alive and registered at collection, and the nodes whose CommDB
row could not be read since. `faults`, `parks`, `unparks` and `crashes` count
against bounds.

*Actions.* The comment over each names its code; `map` in `PROJECT.json` gives
the lines. `RunnerCompletes` lets `emitCompleted` leave a running session
running (a gated review), failed or completed, with the window open or closed;
`RunnerFails` lets `emitFailed` overwrite any status, as `upsertSession` does.
`PrepareFails` is the exit that keeps the claim open. `CloseGone` is taken for
a missing CommDB row and for one that could not be read: `closeRunner` does not
tell them apart (`getTmuxTargetFromCommDb`), takes the runner for gone and
finalizes its row. `Crash` may happen
between any two steps; the runner of a dead bridge may live on.

*Abstractions.* One issue root, whose aliases all resolve to one lock. Session
statuses are folded to the classes `CANCELED_STATUS_ACTIONS` distinguishes for
a park. The reaper's sixty minutes are replaced by "the launch has thrown or
its bridge has died": `start()` and the first moments of a run do not take an
hour. The park paths pass neither a budget nor a fresh-authority probe, so
neither exists here; the shipped and canceled dispositions, Codex phase
shutdown, viewer tabs and thread archiving are left out.

### Founder-confirmed retries

| Module | Models |
|---|---|
| `RetryStore` | what gateway and bridge share: HTTP calls, successor ids, CommDB rows, tmux panes, started evidence |
| `RetryDispatch` | the bridge: `handleRetry` with its intent WAL, `RetryDispatcher.dispatch`, the gated launch of `TmuxAdapter`, the panes, `reapOrphans` |
| `RetryGateway` | the gateway: `LifecycleOrchestrator` and the execution and recovery of lifecycle requests of kind retry |
| `RetryLaunch` | composes the two, each of which may crash and come back; the properties |
| `RetryContract` | the abstract specification: consent, calls, one start and one settlement per request |
| `MCRetryLaunch` | instances for TLC |
| `RetryLaunchProofs` | theorems |

The gateway posts a request to the bridge with the successor's execution id it
bound when the request was made. `call` is the HTTP call: a position inside
`handleRetry` and `dispatch`, or the answer. `run` is the blueprint run a call
started, `shell` the pane it opened: the pane waits until `grep` finds its own
token in the successor's commit file and only then becomes the runner. `wal`,
`claims`, `token` and `sess` are the bridge's durable rows and the commit file,
`target` the CommDB row, `inflight` the entry of the role in the dedup map and
`mutex` the calls queued on the issue mutex. `req`, `consumed` and `at` are the
gateway's row, the consumed consents and its position with each request.

A crash of the bridge loses the calls, runs, dedup entry and queue, and leaves
rows, file and panes. A crash of the gateway loses only `at`; the restarted
gateway classifies every open request (`Recover`) and may post it again, while
the bridge still handles the first call. `Evidence` is what
`checkStartedEvidence` may find: a lookup or a probe may fail, and a pane that
has exited may still be listed. It is read in the step that uses it: the
verdicts that rest on the row alone await nothing, and a pane that is dead when
it is probed stays dead.

*The contract.* `RetryContract` knows no process, crash, row or file.
`ImplementsContract` maps a request from its row to its outcome to *open*
(`Opened`), a call that left the gateway to *sent* and a shell that ever became a
runner to *started*. The one start may come after the request was settled: a
gateway that gave up on a call records it as ambiguous while the bridge goes on.

*The issue mutex.* Closeouts, parks and unparks of the issue take the same
mutex. `MutexHeld = TRUE` lets them hold it for any time between the steps of
a dispatch, and lets a park refuse a commit (`CommitRefused`). With
`MutexHeld = FALSE` nobody else is at it, and then everything from the dedup
check to the run is promise continuations that wait for no I/O: one turn of the
event loop, in which no other request is handled. Which of the two a run or a
theorem assumes is said where it matters: `OneRunner` holds with a prompt mutex
and fails otherwise (section 5).

*Abstractions.* All requests are for one issue and one role. The predecessor's
status, the limits on attempts and the project's configuration are folded into
one nondeterministic refusal before the dispatch. The fresh-worktree checks, the
bookkeeping of `run_attempt` and the answer's wording are left out; so are
retries the dashboard makes without a bound successor.

### DAG dispatch

| Module | Models |
|---|---|
| `DagResolver` | `DagResolver.ts`: graph, status, in-degrees, cycle check |
| `DagDispatch` | `DagDispatcher.dispatch`/`dispatchOne` with `Semaphore` |
| `DagSchedule` | the abstract schedule: at most `MaxConcurrent` run, each node once, when what it needs is released |
| `MCDagDispatch` | the graphs for TLC |
| `DagDispatchProofs` | theorems |

A step is again one turn of the event loop. `raced` holds the promises the
pending `Promise.race` was given; several may settle before the loop resumes.
`ImplementsSchedule` checks the refinement: a node waiting for a slot is still
*waiting*, a node whose Blueprint runs is *running*, and its outcome is the
resolver's status. The order of one batch of ready nodes is left open.

### Review requests

| Module | Models |
|---|---|
| `ReviewRequests` | `ReviewRequestCoordinator`: posts, one worker per execution, the outbox after a boot, with the gates, the worktree heads and the bridge going down around it; the properties |
| `ReviewLedger` | the abstract specification: a request is ruled on once, a gate takes one answer, an approval of a head follows its answer |
| `MCReviewRequests` | instances for TLC |
| `ReviewRequestsProofs` | theorems |

A runner opens a gate in CommDB and posts a review request bound to it. `job` is
the row of `codex_review_job`, `record` that of `codex_review_record` (which
request's review approved a head, or that the head was skipped), `answer` and
`closed` the gates, `head` the worktrees, `chain` the promise chain of each
execution, `slots` and `waiting` the counting semaphore over reviewers, `skips`
the executions whose start asked for no review.

*Threads.* Each post, each execution's worker and each delivery of the outbox is
a thread; `thread` says at which await it stands. Between `respond` and the
wake-up of the runner, and between the authority record and the stamp, the code
awaits nothing: `Yielded` keeps every other handler of the bridge out of these
two points, while other processes (the runner, a Lead, a crash) come in between.

*Actions.* `Admit`, `Freeze` and `Replay` are `accept`; `Begin`, `Claim`,
`ReviewFails`, `SessionLost`, `Fallback`, `ReviewEnds` and `Recheck` are the
scheduler and `runJob`; `Respond`, `Authorise` and `Stamp` are the common tail;
`Stop`, `Die` and `Boot` are `stop()`, the end of the process and
`redriveOnBoot`. A gate that cannot be read counts as missing and a head git
cannot derive fails the job, each counted in `faults`.

*Abstractions.* Requests refused for what they say (unknown session, wrong
binding, author family) leave no row and are not modelled; neither are prompts,
alerts and the reviewer process, whose outcome is a choice. The branch of
`runJob` that finds an approval on record (lines 652-674) cannot be reached:
`AuthorityIsDelivered` and `VerdictsStand`, checked on the model without it, say
that a job with an approval is through. The first response to a question is the
one `checkGate` and `getResponse` read.

*The ledger.* `ReviewLedger` has no post, worker, slot, outbox or crash in it.
`ImplementsLedger` maps a job that is done or skipped to its ruling (`Rulings`)
and a delivery stamp to a tick (`Ticked`). What it adds to the invariants is
about steps: a ruling is about the head the worktree has at that very moment, a
waived review is ruled only while the execution is in `skips`, an answer is
given only to an open gate, and a request is ticked off only once its answer is
in the gate and what it means for the head is on record.

### Payload releases

| Module | Models |
|---|---|
| `PayloadManifest` | the manifest, `applyTransition` (legal diffs and server-owned clocks), `capabilityAllows`, `validateManifest` |
| `PayloadEndpoint` | the bucket: manifest writes by etag, upload with claim check and post-check, guarded delete |
| `ReleaseScripts` | the runs of payload-release, payload-promote and the broker's release commit |
| `ReleasePipeline` | composes them with the founder's withdrawals, abandonments and payload-cleanup; the properties |
| `PayloadCatalog` | the abstract specification: a shelf of versions and the latest of each channel |
| `MCReleasePipeline` | instances for TLC |
| `PayloadProofs`, `ReleaseProofs`, `ReleaseSafetyProofs`, `CatalogProofs` | theorems |

*The manifest.* A version is a pair of a base and a beta number, 0 for the clean
version. `Accepts` is the POST handler on a candidate computed from the current
manifest: the diff is legal, the caller's capability covers every part of it,
and the stamped result is valid. The two clocks of a version are null, running,
or elapsed once the retention window has passed (`WindowPasses`): the code only
ever compares them with the window.

*Writes.* A client computes its candidate from the manifest it has read and
sends the etag; on a 412 it reads and judges again (`casUpdate`). A write that
lands is therefore one step on the current manifest. The write that adds a
version is two: the handler looks the object up in between, so `CommitCheck`
puts the run into `fresh`, every write of the manifest empties `fresh`, and
`CommitLands` needs it (`CommitMisses` is the 412).

*Uploads.* `put` follows one `PUT`: asked, claimed, stored, removing, answered,
or dead when the invocation ends before its time. Whoever sent it may have given
up long ago.

The post-check reads the manifest in one step (`PutCheck`) and removes the
object in a later one (`PutRemove`), with anything in between. `takenBack` is a
history variable: the keys whose object an upload's post-check removed after the
release id of that upload had been committed or abandoned. The properties on
payloads and the shelf of the catalog name exactly this exception.

*Runs.* A run stops at any step (`GivesUp`, unless it is in `Steady`), and
another run with the same release id goes on from what it finds. Builds are not
assumed to be reproducible: a re-run that builds another payload than the
registered one fails in `Register`.

*The cleanup.* A write the endpoint refuses or loses (`CasPost`) and a delete
that is not answered with 200 (`DeleteFails`, whether or not the object is gone)
set `troubled` and the script goes on to its next item; a cleanup that ends with
`troubled` is one that exits with 2. It may also die anywhere.

*Abstractions.* Licence keys, rate limits, packing and the equivalence proof of
two trees are left out. The builds of a beta and of the clean version may come
out as any payload of `Sha`.

## 3. What the runs check

| Run | Instance | Shows |
|---|---|---|
| `launch_safety` | two starts of one role, two parks, one unpark, operator items | the invariants of section 4 and `NoCommitUnderTombstone` over all interleavings |
| `launch_recovery` | one start, one park, two turns of the closeout in which a call fails and a crash, legacy worktrees and operator items | `RegisteredRunnersTornDown` across failed calls and the crash; `OrphanClaimsConverge`, `StartSettles` and `ParkConvergesUnlessStranded` under fairness |
| `dag_dispatch` | three nodes, one unknown id, lists of up to two ids with duplicates, two slots, bypass on and off | scheduling, refinement and termination |
| `retry_launch` | one request, two calls, one crash of the gateway and one of the bridge, the mutex held by others at will | `ConsentFirst` and `AdoptRecordIsTrue` at every crash point; `RequestsSettle` under fairness |
| `retry_pair` | two requests, one with two calls, one crash of the gateway, a prompt mutex | `OneRunner`, `OneRunAtATime` and the refinement of `RetryContract` over all interleavings |
| `review_requests` | a code review posted twice and a second one of the same execution, two heads, one fault, one crash or shutdown, skips or not | verdict, answer, stamp and approval record agree; the refinement of `ReviewLedger` |
| `review_liveness` | a code and a design review of two executions, one reviewer slot, one crash or shutdown | `ReviewersBounded`; `JobsSettle` and `VerdictsArrive` under fairness |
| `release_safety` | a beta, two candidates of its clean version with either of two payloads, either of which may be abandoned, a commit, the cleanup with failing calls | what the manifest offers is in the bucket, but for what a late post-check took away |
| `release_tenure` | two bases with a beta, a candidate and a commit each, one run after another, two withdrawals, the cleanup | `ExpiresAfterTenure`; the refinement of `PayloadCatalog` |
| `release_rerun` | one release id, two beta runs with either of two payloads, the first stops anywhere, the id may be abandoned, the cleanup with failing calls | `RerunCompletes` and `TombstonesConverge` under fairness |
| `bug_two_runners`, `bug_dangling` | the smallest instance each needs | section 5 |

*Bounds.* Two starts are what the dedup map, the shared mutex and the
one-after-another closeout of nodes can tell apart (a third start repeats the
role of one of them); two parks and one unpark give park/replay, park/unpark and
unpark/replay orders, and let a launch admitted between an unpark and the next
park meet the second park at its commit gate (with one park the gate never sees
a tombstone set after admission, because requests arrive only while the holder
of the mutex awaits an external call); one crash can fall anywhere, and after it the store is in
any state a crash can leave; two turns with a failed call (in `launch_recovery`)
can hit any teardown call of a first pass and of its replay. For safety the proofs remove
these bounds. Three nodes with two-entry lists contain every shape the resolver
distinguishes (chain, fork, join, cycle, self-loop, unknown, duplicate), and two
slots make one node wait. The two starts of `launch_safety` are symmetric: they
have the same role and no action orders them; so are the two calls of the first
request of `retry_pair`. A second call of a request needs a gateway crash, so
two calls go with one crash: the gateway of the model crashes only while every
request it may be asked to post again has a call left, and never stops for lack
of one. The second request of `retry_pair` meets the first one at every await of
the dedup check, the closing of the old window and the dispatch. Deadlock is not checked for the
launches: nobody has to start, park or unpark, so the bridge may be idle; nor for the retries, which end
when every request is settled.

A review needs two requests of one execution to meet each other's session, round
and approval record, and a post that comes twice; a third request would only
queue behind them. Two heads are what a frozen head and a moved one are; one
crash or shutdown falls between any two steps of verdict, answer, record and
stamp. For the slots two executions and one slot suffice: one holds it and the
other waits.

A release needs one base for a race between a beta, its candidates and their
commit, and a second payload for builds that differ, between the candidates of
`release_safety` and between the two runs of `release_rerun`; two bases make a withdrawal
meet a fallback, which has to be another clean version. `release_tenure` runs
the scripts one after another (`OneRunAtATime`) because what it is about is the
order of releases, withdrawals and expiries; the races of the scripts are those
of `release_safety` and `release_rerun`, and the theorems have no such
restriction. Deadlock is not checked where the bridge or the pipeline may be
idle or every release, request or review is over.

*Fairness.* Every await of the bridge settles (external commands carry
timeouts, the mutex is FIFO), and the event loop gets round to every settled
promise: weak fairness for continuations, strong fairness for steps that need
the loop to be quiet, since it is quiet again and again. The maintenance timer
keeps firing. Requests and crashes have no fairness, and faults stop at their
bound, which is the usual reading of "an external call does not fail for ever".
For the retries: a gateway that is up goes on with what it drives and
expires what is not confirmed in time, the bridge goes on with its calls and
runs (`fetch`, tmux and the probes carry timeouts) and is started again after a
crash; panes, the founder and crashes have no fairness. For the reviews: a handler
at an await goes on (git, CommDB and the reviewer process carry timeouts), a
bridge that is stopping ends and one that is down is started again; posts,
Leads, runners and shutdowns have no fairness. For the releases: the runs in
`Steady` go on, an upload is handled to its end or dies, and a cleanup that has
begun goes on; nobody has to start, commit, abandon or withdraw anything, and
`TombstonesConverge` supposes that again and again a cleanup gets through its
sweep without a failure on record. For the dispatcher: the
loop and every `dispatchOne` go on, and a Blueprint
run ends.

## 4. Properties

* `ActiveIsDurable`: an active claim has a session row and a binding
  (`setLaunchClaimState`'s contract).
* `CompleteHasNoOpenClaims`: a tombstone recorded complete leaves no open claim.
* `InflightIsLive`: the dedup map only names starts that are under way, for
  all six exits of `start()` and although exits delete by key, not by owner.
* `NoCommitUnderTombstone`: no launch passes the commit gate of a parked issue.
* `RegisteredRunnersTornDown`: a park completes only when every runner that was
  alive and registered at collection has lost its window, unless its CommDB row
  could not be read (section 5): no other failed call, crash or replay completes
  a park over a live runner.
* `OrphanClaimsConverge`, `StartSettles`: a claim left behind before its session
  row is closed; a start ends.
* `ParkConvergesUnlessStranded`: a park that may be replayed ends complete or in
  the operator's hands, unless a launch stands between its session row and its
  binding with nobody left to go on (section 5).
* `OneRunner`: of all the launches of one request, across crashes of both
  processes, at most one shell ever becomes a runner.
* `OneRunAtATime`: a role never has two blueprint runs, though the dedup map is
  read before an await and a replay may converge, adopt or re-drive.
* `AdoptRecordIsTrue`: a commit file that holds a token names a shell that
  waits for it, runs or has run, so adopting it never loses the retry.
* `ConsentFirst`: no call leaves the gateway before the consent is consumed.
* `ImplementsContract`: a request is settled once; its consent is consumed once
  and while it is open; calls follow the consent; one call at most becomes a
  runner; a request is reported as succeeded only if a call was sent for it.
* `RequestsSettle`: a request that was made ends succeeded, refused, or handed
  back to the founder, whatever crashes.
* `AuthorityIsDelivered`: a head counts as approved only if the request behind
  the approval has frozen this head and its approval is the answer of its gate,
  however answers, closures and crashes fall between the writes.
* `VerdictsStand`: a verdict in a gate stays the verdict of its job; no retry,
  boot or second review ends in another one.
* `StampsAreTrue`: a job is stamped delivered only with its own answer in the
  gate, never with a Lead's.
* `ImplementsLedger`: whatever posts, workers, outbox, crashes and boots do is a
  ruling, an answer, an approval or a tick that the ledger allows.
* `ReviewersBounded`, `JobsSettle`, `VerdictsArrive`: the slot holds while
  `stop()` hands one to every waiter; every accepted job ends; a verdict a crash
  kept out of its open gate gets there after the boot.
* `VersionsLoseOnlyToPostCheck`, `CandidatesLoseOnlyToPostCheck`: the object of a
  version that has not expired, and of a candidate the founder may approve, is
  in the bucket, whatever uploads, re-runs, abandonments and sweeps are under
  way, with one exception: the post-check of an upload took it away after the
  release id of that upload was settled. That this exception happens is shown in
  section 5.
* `ExpiresAfterTenure`: a version expires only after a whole window off every
  pointer (in quarantine, if it is quarantined); being pinned again as a
  fallback starts the window anew.
* `ImplementsCatalog`: what a channel calls its latest can be downloaded with
  the payload it was published with, and a version leaves the shelf only by a
  withdrawal that pins another one in the same step, or by an expiry, for good.
  A version in the exception above counts as on the shelf.
* `RerunCompletes`: a re-run that is not interrupted ends with the release
  committed wherever the first one stopped, unless the operator abandons the id
  or the re-run has built another payload than the registered one, which it
  refuses to overwrite (`payload-release.mjs:178-183`).
* `TombstonesConverge`: if cleanups without a failure recur, what is tombstoned
  is gone for good in the end, also what an earlier delete failed to remove or
  an upload put there after its delete.
* `SlotsAccounted`, `BlockersReleasedFirst`, `RunsOnce`, `NothingRunnableLeft`,
  `Returns`, `ImplementsSchedule` for the dispatcher.
* `RejectsExactlyCycles`: the constructor throws only on a cycle among known
  nodes or a known blocker listed twice, and no dispatch runs over either.

## 5. Disagreements between code and comments

Two are kept as runs:

1. `bug_two_runners`: `dispatch()` does not look at the dedup map again after
   the awaited admission, and a claimed successor without a commit file is
   driven again. Behind a held issue mutex the call of a crashed gateway and
   the one its successor posts are both admitted, and two shells become runners
   of one execution id, although the claim is said to converge "to EXACTLY ONE
   started Runner". When the mutex is prompt this cannot happen (`RunnerUnique`).
2. `bug_dangling`: the post-check of an upload deletes the object unless a
   reserved or prepared op claims it; a committed op does not count. Of two runs
   of one release id the first one's put lands, the second takes its 409 for
   success, reads the object back and commits, and the first one's post-check
   removes the object of the committed version. `payload-cleanup.mjs:17` says
   "Dangling pointers are structurally impossible in this order". Nothing else
   takes the payload of a version away (`VersionsKept`).

Four more are reached by the models, each with a formula TLC refutes. For 3 and
4 the instance is a small one of `MCLaunchLifecycle` (`Exec <- TwoStarts`,
`RoleOf <- SameRole`, one park, no faults, crashes, legacy worktrees or operator
items), for 5 that of `launch_recovery` and for 6 that of `release_safety`.

3. A replay can record a park complete while a launch that committed before the
   park has not opened its window: the pass before it has cancelled the claim,
   and nothing else marks the launch as in flight (`lifecycle-closeout.ts:1172`,
   against the comments at `:178-179` and `:1195-1198`).

       [][intent # "complete" /\ intent' = "complete" =>
            \A e \in Exec : pc[e] \notin {"hydrating", "creating", "activating", "launching"}]_vars

4. The tick reads the replay list outside the mutex and the closeout does not
   look the tombstone up again, so a park already taken back (`MaxUnparks = 1`)
   can close down fresh work (`plugin.ts:4645`, against
   `lifecycle-closeout.ts:868-869`).

       [][\A e \in Exec : session[e] = "running" /\ session'[e] = "terminated" => Parked]_vars

5. One failed read of CommDB lets a park complete over a live runner.
   `getTmuxTargetFromCommDb` answers `undefined` for an error as for a missing
   row (`tmux-lookup.ts:207-213`); `closeRunner` (`close-runner.ts:515`) reports
   the runner as already gone and finalizes its row, and the confirmation finds
   nothing to probe. `tmux-lookup.ts:153-157` says of an error that "callers must
   treat this as cleanup-pending (never report unqualified success while the
   process may be live)".

       [][intent # "complete" /\ intent' = "complete" => \A e \in seen : e \notin alive]_vars

6. A prepared candidate can lose its payload as a version can. An abandoned
   candidate's upload has been stored and its post-check has decided to remove
   the object (`handler.mjs:380-389`); before it does, a second candidate
   registers the same payload, takes the 409 of its own upload for success, reads
   the object back and is prepared.

       [](\A i \in OpId : manifest.op[i].state = "prepared" =>
            <<manifest.op[i].ver, manifest.op[i].sha>> \in objects)

Seen while modelling, and kept as hazards or excluded by a property's premise:

* Two starts of one role queued behind a closeout both pass the dedup check, as
  in 1, and both launch.
* A crash between the session row and the worktree binding leaves a `starting`
  claim that every closeout takes for a launch in flight and the reaper skips
  because a session row exists; a worktree without a generation marker has the
  same effect without a crash. `ParkConvergesUnlessStranded` excludes exactly
  these launches (`Stranded`).
* An intent in `needs_operator` is never replayed.
* After a gateway crash a 4xx of the second call is recorded as "not dispatched"
  while the runner of the first call starts; an empty commit file left by a
  failed write is adopted although no shell will start.
* A code review refused while CommDB could not be read leaves a failed row
  without a frozen head; posted again it is reviewed and always ends
  `head_moved`.
* A pending review posted again is enqueued twice; if its run fails, the second
  entry claims the failed job without another look at the gate.
* A clean shutdown fails the running reviews, which the boot does not drive
  again, while a crash leaves them running and the boot does.
* The lost-session fallback of a code review is not followed by a look at the
  shutdown, so one reviewer may start after `stop()`.

## 6. What is proved

`LaunchLifecycleProofs` proves type correctness together with the mutex
discipline (a running closeout holds the issue mutex, so nobody else's ticket
is at its head); the latter is what makes `Unlock` well typed and is used by
everything after it. From the inductive invariant `SafetyInv` it then proves
the safety properties of `launch_safety` and `RegisteredRunnersTornDown` for any
set of executions and roles, any assignment of roles and any bounds (so
`launch_recovery` does not repeat `CompleteHasNoOpenClaims`):

* `LaunchInv`: which rows a launch has written at each `pc`. Without it a step
  of `Activate` could not be shown to find the binding.
* `CloseoutShape`: a node under teardown has a session row and is still on the
  work list; the issue items come last.
* `TombstoneInv`: under a tombstone, an open claim before its commit gate is on
  the work list of the running closeout. `NoCommitUnderTombstone` follows
  because a commit holds the mutex and so no closeout is running.
* `ClaimsOwed`: while nothing blocks a park's closeout, its work list still
  holds every open claim. When it ends complete the list is empty.
* `RunnersOwed`: a runner seen alive is on the work list with its registered
  window, being torn down, gone, unread, or blocks the issue.

The frame lemmas (`LaunchFrame`, `CloseoutFrame`, `CloseoutWork`,
`CloseoutEnds`, `CloseoutOwes`) say what one step of a launch or of a closeout
can change; the invariance lemmas are built from them. The proofs assume only
the named constant assumptions, of which they use that roles are assigned
(`RoleAssumption`), that the bounds are natural numbers and that `None` is not
an execution. TLC confirms `SafetyInv` on the `launch_safety` instance.

`RetryLaunchProofs` proves type correctness and, for any set of requests and
calls, any number of crashes and any mutex, that consent comes first and that
the adopt record is true. `ConsentInv` adds to `ConsentFirst` that a row past
`confirmed`, or a gateway between the consumption and the row, has its consent
consumed. `AdoptInv` says that a call has no run before it is launched
(`RunIsLast`), that the shell of an open launch waits (`OpenedWaits`), and that a
file with a token was written by the launch of this token, for its own
successor, at the commit point (`WrittenAtCommit`). So a launch that may still
fail has not written the file, and a shell whose token is in the file cannot
give up; this needs no assumption on the mutex, and a second launch of one
successor may overwrite the file without harm to it. Assuming `~MutexHeld` it
proves `OneRunner`, `OneRunAtATime` and `ImplementsContract` from `RetryInv`:

* `DedupInv`: at most one call is between its way to the mutex and the end of
  its run; the dedup entry names its request until the run is over; the queue
  holds that call alone; a run begins only when its call is past the mutex.
  This is what `MutexHeld` breaks.
* `CommitInv`: a successor is driven only while its commit file does not exist
  and after it was claimed, so the file is written once; a shell has run only
  if the file holds its token; and the shell of an open launch still waits.

A write of the commit file is safe because the file did not exist, so nobody of
that request had run; a replay is safe because a file, once written, makes it
adopt. TLC confirms `RetryInv` on both retry instances with a prompt mutex, and
`AdoptInv` on that of `retry_launch`.

The refinement of `RetryContract` maps a step of the gateway to a step of the
request it handles and a step of the bridge to a stutter, except that of `Exec`,
which is the start: by `RetryInv` whoever ran of this request had its token in
the file, and the file holds another one. `Traced` supplies what the two
processes know of each other: a pane, a registered window and the call a gateway
waits for are of a call that was sent, for the request in whose row they stand.
With `MutexHeld` the refinement fails at the second start of `bug_two_runners`.

`DagDispatchProofs` proves, for any finite set of nodes, any graphs and any
number of slots, type correctness, `SlotsAccounted`, `BlockersReleasedFirst`,
`NothingRunnableLeft`, `RejectsExactlyCycles` and `RunsOnce`, and that
dispatcher, resolver and semaphore implement `DagSchedule`. The invariant `Inv` adds to the properties:

* `TasksTracked`: a node is pending in the resolver exactly until its promise has
  settled, so "ready" and "running" overlap and only `scheduled` tells them apart.
* `Debts`: a node's in-degree is at least the number of distinct blockers it
  still waits for, and equal to it when no list names an id twice. This is where
  duplicates do harm: a ready node is always released, but with a duplicated
  unknown id a released node may never become ready.
* `LoopLeft`: once the loop is left, nothing is pending, or nothing in flight
  and nothing ready that has not been scheduled; nothing can become ready later.

The books of the semaphore are counted with the theorems on finite sets: a batch
takes its first `FreeSlots` members (`FirstOfBatch`), a release moves one place.

`AcceptsExactlyAcyclic` is about the cycle check itself. The layers it takes off
a graph are a recursive function; that it exists (`LayersExist`, `LayersAgree`,
`LayersOf`) and that its layers grow (`LayersGrow`) is shown by looking at the
least layer at which the claim would fail, since a set of naturals that is not
empty has a least element (`Smallest`). A node is freed exactly when its known
blockers are visited and it lists each of them once (`FreedWhenVisited`, by
counting). Every layer that changes anything adds a node, so after as many
layers as there are nodes nothing changes any more (`LayersSettle`): what is left
then is a cycle, or a duplicate. Conversely the least layer that meets a cycle
would have to free a node before the blocker it waits for.

The payload proofs hold for any runs, release ids, bases, commits and payloads.
`PayloadProofs` is about the manifest alone: what `Stamp` changes
(`StampFields`), that two manifests that differ only in clocks accept the same
writes (`ClocksIrrelevant`), what a commit writes (`CommitWrite`).
`ReleaseProofs` proves type correctness and `ManifestAlwaysValid`: the stored
manifest always passes `validateManifest`. The invariant needs `FreshKnown`: the
commit lands without being judged again, so a run in `fresh` has to be one whose
write the endpoint would still accept, although windows may have passed since it
looked; that is what `ClocksIrrelevant` is for. `RunKnown` ties a run's position
to the state of its release op and its upload.

`ReleaseSafetyProofs` proves `TenureRespected`, `BucketDiscoverable` (every
object is named by a release op, so a stranded upload can be abandoned and swept),
`BetaNumbersApart`, `VersionsKept` and `CandidatesKept`, all without further
assumption. For the last two the invariant `Kept` says of every key somebody
needs (that of a version that has not expired, of a prepared candidate, of a run
past its readback with its op still reserved) that the object is there or was
taken back, and of every upload about to remove its object that its release op is
settled (`RemovingSettled`: the post-check saw no live claim, and a settled op
never comes alive again). An abandoned claim and the sweep can take an object
away only through a tombstone, and a tombstone only lands while no live claim
and no version has the key; so the post-check is the one way left.
`CatalogProofs` adds that every write of the manifest is a step of
`PayloadCatalog` or a stutter: only a commit puts a version on the shelf, and by
`Kept` its payload is there or was taken back; only a withdrawal or an expiry
takes one off.

`ReviewRequestsProofs` proves, for any finite sets of requests and executions,
any gates, posts and reviewer slots and any number of shutdowns, crashes and
failed reads, type correctness, `AuthorityIsDelivered`, `VerdictsStand`,
`StampsAreTrue` and `ReviewersBounded`, that nothing once ruled, answered or
stamped changes (`VerdictsLast`), and that the lane implements `ReviewLedger`.
The invariant `Inv` adds to the properties:

* `ThreadsKnow`: what a thread may rely on after its await. A worker between
  claim and verdict has a job of its own execution that is running and stays so;
  one that is to answer has a job that is through; one that was woken has its own
  answer in the gate. Without it the approval record could not be shown to
  follow the delivery, since the answer was written in an earlier step.
* `JobsShaped`: a job that is through has a verdict, and only such a job is
  stamped; the verdict of an answer is never one that may still change.
* `CreationOrder`: rows are numbered apart, which is what lets the boot list them
  in the order of their creation (`Sortable`, `RedrivenListed`).
* `Scheduled`, `SlotsBounded`: a worker past its wait holds a slot and one that
  waits is queued once, so the slots bound the reviewers until `stop()` hands one
  to every waiter; from then on no worker begins a review, and the lost-session
  fallback only continues one that was counted before.

The refinement needs `LedgerInv` on top: what is settled carries the verdict of
its kind and, for code, the head it was frozen at (`RulingsShaped`), and a thread
about to stamp has what its verdict means on record (`ThreadsReady`). A step is
then one of three kinds: it touches none of the ledger's variables, it leaves the
rulings alone, or it rules on one request.

The proofs assume what `ReviewRequests` names: typed constants
(`ReviewAssumption`), finitely many requests and executions
(`FiniteAssumption`), that posts, workers and deliveries are different threads
(`ThreadAssumption`), and that `None`, `"skipped"` and `Foreign` are no value of
another kind (`ValueAssumption`). TLC evaluates the four on both review instances
and confirms `Inv` there.

Only model-checked: the liveness properties (fairness and ENABLED are out of
the prover's reach) and the two violations. Every invariant and every action
property a passing run checks is stated by a theorem, some of the retry's with
the assumption on the mutex named above.

## 7. Not modelled, and the plan

The map covers the parts named in section 2 and a small share of the repository:
most of its lines are adapters, HTTP routes, dashboards, prompts, configuration,
chat transports and audio, which keep no state of their own that several actors
change. What is left and would be worth modelling, in order:

1. **`SessionFSM`**: the transition table, `applyTransition`, and the sinks that
   bypass it; terminal immunity as an action property; the stale read in
   `emitCompleted`.
2. **`CommGates`**: gates, responses, retirement, TURN and wakes in CommDB with
   runner, lead and bridge as separate processes; one answer per gate.
3. **`PhaseHandoff`** over `CommGates` and `SessionFSM`, and **`AutoQa`**.
4. The `not_dispatched` disagreement of the retry as a run of its own, and what
   of `RetryContract` is left when others hold the issue mutex.
5. The shipped and canceled dispositions of the closeout with the snapshot
   guard, explicit `closeRunner`, and drain/shutdown of the dispatcher.
