--------------------------- MODULE ReviewRequests ---------------------------
(***************************************************************************)
(* The cross-family review lane of the bridge                              *)
(* (bridge/review-request-coordinator.ts): a runner opens a gate, posts a  *)
(* review request bound to it, and the coordinator keeps the job, runs the *)
(* reviewer, answers the gate and records the approval of the head.        *)
(*                                                                         *)
(* The bridge is one process whose handlers interleave at their awaits:    *)
(* the posts, one worker per execution (its chain of jobs) and, after a    *)
(* boot, the deliveries of the outbox.  Each is a thread with a program    *)
(* counter; "respond" and "stamp" are reached and left without an await,   *)
(* so that only other processes (runner, Lead, a crash) come in between.   *)
(***************************************************************************)
EXTENDS Naturals, FiniteSets, Sequences

CONSTANTS
  Exec, Request, Gate, Post,
  ExecOf, TypeOf, GateOf,   \* what a request says
  RequestOf,                \* the request a post carries
  MaxConcurrent,            \* reviewers at a time
  MaxHead,                  \* bound on the heads of a worktree
  MaxDown,                  \* bound on crashes and shutdowns of the bridge
  MaxFaults,                \* bound on failed reads of CommDB and worktree
  None, Foreign           \* no request, and an answer that is not ours

ASSUME ReviewAssumption ==
  /\ ExecOf \in [Request -> Exec] /\ GateOf \in [Request -> Gate]
  /\ TypeOf \in [Request -> {"design", "code"}]
  /\ RequestOf \in [Post -> Request]
  /\ MaxConcurrent \in Nat \ {0} /\ MaxHead \in Nat \ {0}
  /\ MaxDown \in Nat /\ MaxFaults \in Nat

(* Finitely many requests are ever posted, for finitely many executions. *)
ASSUME FiniteAssumption == IsFiniteSet(Request) /\ IsFiniteSet(Exec)

(* A thread is a post, a worker or a delivery, never two of them.          *)
ASSUME ThreadAssumption ==
  Post \cap Exec = {} /\ Post \cap Request = {} /\ Exec \cap Request = {}

VARIABLES
  job,      \* codex_review_job: the row of each request
  record,   \* codex_review_record of each execution and head: the request
            \* whose review approved it, or "skipped"
  answer,   \* the first response to each gate question: ours or Foreign
  closed,   \* gates resolved or expired
  head,     \* the head of each worktree
  skips,    \* executions started with codex_skip: a snapshot that stays
  up,       \* the bridge is "up", "stopping" or "down"
  thread,   \* the posts, workers and deliveries
  chain,    \* the jobs enqueued per execution, the worker's first
  slots,    \* executions whose worker holds a reviewer slot
  waiting,  \* workers that wait for one, oldest first
  downs, faults

storeVars == <<job, record>>
queueVars == <<chain, slots, waiting>>
gateVars == <<answer, closed>>
vars == <<storeVars, gateVars, head, skips, up, thread, queueVars, downs, faults>>

Thread == Post \cup Exec \cup Request   \* a request's own thread: its outbox delivery
Head0 == 0 .. MaxHead                   \* 0: no head frozen
Verdict == {"APPROVED", "CHANGES_REQUESTED"}

Job == [status : {"absent", "pending", "running", "done", "skipped", "failed"},
        verdict : Verdict \cup {"SKIPPED", None}, head : Head0,
        round : 1 .. Cardinality(Request), session : BOOLEAN,
        at : 0 .. Cardinality(Request), delivered : BOOLEAN]
Answer == [req : Request, verdict : Verdict \cup {"SKIPPED"}]
ThreadState ==
  [at : {"idle", "derive", "waiting", "ready", "review", "fallback", "again",
         "recheck", "respond", "woken", "stamp", "over"},
   req : Request \cup {None}, verdict : Verdict \cup {None}, resume : BOOLEAN]

(* The two values outside the types are told apart from all they mix with. *)
ASSUME ValueAssumption ==
  /\ None \notin Request /\ "skipped" \notin Request \cup {None}
  /\ None \notin Answer /\ Foreign \notin Answer /\ Foreign # None
  /\ None \notin [verdict : Verdict \cup {"SKIPPED"}, head : Head0]

NoJob == [status |-> "absent", verdict |-> None, head |-> 0, round |-> 1,
          session |-> FALSE, at |-> 0, delivered |-> FALSE]
Idle == [at |-> "idle", req |-> None, verdict |-> None, resume |-> FALSE]

At(t, from) == thread[t].at = from
Goes(t, to, r) == thread' = [thread EXCEPT ![t] = [Idle EXCEPT !.at = to, !.req = r]]

(* No handler of the bridge runs while another has not reached an await. *)
Yielded == up # "down" /\ \A t \in Thread : thread[t].at \notin {"respond", "stamp"}

IsOpen(r) == ~closed[GateOf[r]] /\ answer[GateOf[r]] = None

(* checkGate: an unreadable CommDB counts as a missing gate. *)
GateSeen(r, open) ==
  /\ open => IsOpen(r)
  /\ IF IsOpen(r) /\ ~open THEN faults < MaxFaults /\ faults' = faults + 1
     ELSE UNCHANGED faults

(* tryDeriveHead: git may fail. *)
HeadSeen(e, h) ==
  IF h = 0 THEN faults < MaxFaults /\ faults' = faults + 1
  ELSE h = head[e] /\ UNCHANGED faults

Ours(r) == [req |-> r, verdict |-> job[r].verdict]

-----------------------------------------------------------------------------
(* accept *)

Enqueue(r) == chain' = [chain EXCEPT ![ExecOf[r]] = Append(@, r)]

Others(r) == {q \in Request : /\ job[q].status # "absent"
                              /\ ExecOf[q] = ExecOf[r] /\ TypeOf[q] = TypeOf[r]}
Count == Cardinality({q \in Request : job[q].status # "absent"})

(* A bug: the round counts the row that has just been inserted. *)
RowCounted(r, status, h) ==
  [NoJob EXCEPT !.status = status, !.head = h, !.at = Count + 1,
                !.round = Cardinality(Others(r) \cup {r}) + 1,
                !.session = \E q \in Others(r) : job[q].session]

Row(r, status, h) ==
  [NoJob EXCEPT !.status = status, !.head = h, !.at = Count + 1,
                !.round = Cardinality(Others(r)) + 1,
                !.session = \E q \in Others(r) : job[q].session]

Skipped(r, h) ==
  record' = IF TypeOf[r] = "code" /\ h # 0
              THEN [record EXCEPT ![ExecOf[r]][h] = "skipped"] ELSE record

(* The first post inserts the row; one that comes second leaves it as it   *)
(* is.  An execution that skips reviews is answered at once.               *)
Insert(p, r, h) ==
  \/ /\ job[r].status # "absent"
     /\ Goes(p, "over", None) /\ UNCHANGED <<storeVars, chain>>
  \/ /\ job[r].status = "absent" /\ ExecOf[r] \in skips
     /\ job' = [job EXCEPT ![r] = [NoJob EXCEPT !.status = "skipped", !.head = h,
                                     !.verdict = "SKIPPED", !.at = Count + 1]]
     /\ Skipped(r, h) /\ Goes(p, "respond", r)
     /\ UNCHANGED chain
  \/ /\ job[r].status = "absent" /\ ExecOf[r] \notin skips
     /\ job' = [job EXCEPT ![r] = Row(r, "pending", h)]
     /\ Enqueue(r) /\ Goes(p, "over", None) /\ UNCHANGED record

(* A request that is not known yet: its gate must be open, or a failed row *)
(* is kept for the record.  A code review first asks git for the head.     *)
Admit(p) ==
  LET r == RequestOf[p] IN
  /\ Yielded /\ At(p, "idle") /\ job[r].status = "absent"
  /\ \E open \in BOOLEAN :
       /\ GateSeen(r, open)
       /\ IF ~open
            THEN /\ job' = [job EXCEPT ![r] = [NoJob EXCEPT !.status = "failed", !.at = Count + 1]]
                 /\ Goes(p, "over", None) /\ UNCHANGED <<record, chain>>
          ELSE IF TypeOf[r] = "code"
            THEN Goes(p, "derive", r) /\ UNCHANGED <<storeVars, chain>>
          ELSE Insert(p, r, 0)
  /\ UNCHANGED <<gateVars, head, skips, up, slots, waiting, downs>>

Freeze(p) ==
  LET r == thread[p].req IN
  /\ Yielded /\ p \in Post /\ At(p, "derive")
  /\ \E h \in Head0 :
       /\ HeadSeen(ExecOf[r], h)
       /\ IF h = 0 THEN Goes(p, "over", None) /\ UNCHANGED <<storeVars, chain>>
          ELSE Insert(p, r, h)
  /\ UNCHANGED <<gateVars, head, skips, up, slots, waiting, downs>>

(* A request posted again: a pending job is enqueued once more, a failed   *)
(* one only if its gate is still open, and a verdict that was never        *)
(* delivered is delivered.                                                 *)
Replay(p) ==
  LET r == RequestOf[p] IN
  /\ Yielded /\ At(p, "idle") /\ job[r].status # "absent"
  /\ \/ /\ job[r].status = "pending"
        /\ Enqueue(r) /\ Goes(p, "over", None) /\ UNCHANGED <<storeVars, faults>>
     \/ /\ job[r].status = "failed"
        /\ \E open \in BOOLEAN :
             GateSeen(r, open) /\ IF open THEN Enqueue(r) ELSE UNCHANGED chain
        /\ Goes(p, "over", None) /\ UNCHANGED storeVars
     \/ /\ job[r].status \in {"done", "skipped"} /\ ~job[r].delivered
        /\ IF job[r].status = "skipped" THEN Skipped(r, job[r].head) ELSE UNCHANGED record
        /\ Goes(p, "respond", r) /\ UNCHANGED <<job, chain, faults>>
     \/ /\ job[r].status = "running" \/ job[r].delivered
        /\ Goes(p, "over", None) /\ UNCHANGED <<storeVars, chain, faults>>
  /\ UNCHANGED <<gateVars, head, skips, up, slots, waiting, downs>>

-----------------------------------------------------------------------------
(* Scheduling: one worker per execution, a slot for each job it runs. *)

(* The worker is through with its job: the slot goes to the oldest waiter. *)
Leave(e) ==
  /\ chain' = [chain EXCEPT ![e] = Tail(@)]
  /\ IF waiting = <<>>
       THEN /\ slots' = slots \ {e} /\ thread' = [thread EXCEPT ![e] = Idle]
            /\ UNCHANGED waiting
       ELSE /\ slots' = (slots \ {e}) \cup {Head(waiting)} /\ waiting' = Tail(waiting)
            /\ thread' = [thread EXCEPT ![e] = Idle, ![Head(waiting)].at = "ready"]

Begin(e) ==
  /\ Yielded /\ At(e, "idle") /\ chain[e] # <<>>
  /\ \/ /\ up = "stopping" /\ chain' = [chain EXCEPT ![e] = Tail(@)]
        /\ UNCHANGED <<thread, slots, waiting>>
     \/ /\ up = "up" /\ Cardinality(slots) < MaxConcurrent
        /\ slots' = slots \cup {e} /\ Goes(e, "ready", None) /\ UNCHANGED <<chain, waiting>>
     \/ /\ up = "up" /\ Cardinality(slots) >= MaxConcurrent
        /\ waiting' = Append(waiting, e) /\ Goes(e, "waiting", None) /\ UNCHANGED <<chain, slots>>
  /\ UNCHANGED <<storeVars, gateVars, head, skips, up, downs, faults>>

(* Two bugs: a job is claimed whatever its status is; a worker that has    *)
(* waited for its slot does not look at the shutdown.                      *)
ClaimAlways(e) ==
  LET r == Head(chain[e]) IN
  /\ Yielded /\ At(e, "ready")
  /\ IF up = "stopping"
       THEN Leave(e) /\ UNCHANGED job
       ELSE /\ job' = [job EXCEPT ![r].status = "running"]
            /\ Goes(e, "review", r) /\ UNCHANGED queueVars
  /\ UNCHANGED <<record, gateVars, head, skips, up, downs, faults>>

ClaimWhileStopping(e) ==
  LET r == Head(chain[e]) IN
  /\ Yielded /\ At(e, "ready")
  /\ IF job[r].status \notin {"pending", "failed"}
       THEN Leave(e) /\ UNCHANGED job
       ELSE /\ job' = [job EXCEPT ![r].status = "running"]
            /\ Goes(e, "review", r) /\ UNCHANGED queueVars
  /\ UNCHANGED <<record, gateVars, head, skips, up, downs, faults>>

(* runJob up to the reviewer: pending and failed jobs are claimed, one     *)
(* that is through is not.  (An approval on record is never that of a job  *)
(* that can be claimed, by AuthorityIsDelivered and VerdictsStand: what    *)
(* runJob does with one, lines 652-674, is left out.)                      *)
Claim(e) ==
  LET r == Head(chain[e]) IN
  /\ Yielded /\ At(e, "ready")
  /\ \/ /\ up = "stopping" \/ job[r].status \notin {"pending", "failed"}
        /\ Leave(e) /\ UNCHANGED job
     \/ /\ up = "up" /\ job[r].status \in {"pending", "failed"}
        /\ job' = [job EXCEPT ![r].status = "running", ![r].session = TRUE]
        /\ thread' = [thread EXCEPT ![e] = [Idle EXCEPT !.at = "review", !.req = r,
                          !.resume = job[r].round > 1 /\ job[r].session]]
        /\ UNCHANGED queueVars
  /\ UNCHANGED <<record, gateVars, head, skips, up, downs, faults>>

(* failCodexReviewJob leaves a terminal row as it is. *)
Fail(e) ==
  LET r == thread[e].req IN
  /\ job' = IF job[r].status \in {"done", "skipped"} THEN job
            ELSE [job EXCEPT ![r].status = "failed"]
  /\ Leave(e)

Complete(e, v) ==
  LET r == thread[e].req IN
  /\ job' = [job EXCEPT ![r].status = "done", ![r].verdict = v]
  /\ Goes(e, "respond", r) /\ UNCHANGED queueVars

(* The reviewer fails, is killed or runs out of time. *)
ReviewFails(e) ==
  /\ Yielded /\ thread[e].at \in {"review", "again"}
  /\ Fail(e)
  /\ UNCHANGED <<record, gateVars, head, skips, up, downs, faults>>

(* The session to resume is gone: once, a fresh reviewer takes over.       *)
SessionLost(e) ==
  LET r == thread[e].req IN
  /\ Yielded /\ At(e, "review") /\ thread[e].resume /\ up = "up"
  /\ \E open \in BOOLEAN :
       /\ GateSeen(r, open)
       /\ IF open THEN /\ Goes(e, IF TypeOf[r] = "code" THEN "fallback" ELSE "again", r)
                       /\ UNCHANGED <<job, queueVars>>
          ELSE Fail(e)
  /\ UNCHANGED <<record, gateVars, head, skips, up, downs>>

Fallback(e) ==
  LET r == thread[e].req IN
  /\ Yielded /\ At(e, "fallback")
  /\ \E h \in Head0 :
       /\ HeadSeen(e, h)
       /\ IF h # 0 /\ h = job[r].head THEN Goes(e, "again", r) /\ UNCHANGED <<job, queueVars>>
          ELSE Fail(e)
  /\ UNCHANGED <<record, gateVars, head, skips, up, downs>>

(* The reviewer's verdict: the gate must still be open, and the head of a  *)
(* code review is looked up once more, which the worker waits for.         *)
ReviewEnds(e) ==
  LET r == thread[e].req IN
  /\ Yielded /\ thread[e].at \in {"review", "again"}
  /\ \E v \in Verdict, open \in BOOLEAN :
       /\ GateSeen(r, open)
       /\ IF ~open THEN Fail(e)
          ELSE IF TypeOf[r] = "design" THEN Complete(e, v)
          ELSE /\ thread' = [thread EXCEPT ![e] = [Idle EXCEPT !.at = "recheck", !.req = r, !.verdict = v]]
               /\ UNCHANGED <<job, queueVars>>
  /\ UNCHANGED <<record, gateVars, head, skips, up, downs>>

(* A bug: the reviewer's echo is taken for the head.                       *)
RecheckEchoOnly(e) ==
  LET r == thread[e].req IN
  /\ Yielded /\ At(e, "recheck")
  /\ \E h \in Head0, echo \in BOOLEAN :
       /\ HeadSeen(e, h)
       /\ IF h # 0 /\ echo THEN Complete(e, thread[e].verdict) ELSE Fail(e)
  /\ UNCHANGED <<record, gateVars, head, skips, up, downs>>

(* The verdict counts if the head has not moved and the reviewer names it. *)
Recheck(e) ==
  LET r == thread[e].req IN
  /\ Yielded /\ At(e, "recheck")
  /\ \E h \in Head0, echo \in BOOLEAN :
       /\ HeadSeen(e, h)
       /\ IF h # 0 /\ h = job[r].head /\ echo THEN Complete(e, thread[e].verdict) ELSE Fail(e)
  /\ UNCHANGED <<record, gateVars, head, skips, up, downs>>

-----------------------------------------------------------------------------
(* respond, the authority record and the stamp: the tail of a worker, of a *)
(* skipped or repeated post, and of a delivery from the outbox.            *)

End(t) ==
  IF t \in Exec THEN Leave(t)
  ELSE Goes(t, IF t \in Post THEN "over" ELSE "idle", None) /\ UNCHANGED queueVars

(* A bug: any answer in the gate counts as the delivery. *)
Answered(r) == answer[GateOf[r]] # None

Delivered(r) == answer[GateOf[r]] = Ours(r)

(* A bug: the caller goes on whether the answer is its own or not. *)
RespondUnowned(t) ==
  LET r == thread[t].req IN
  /\ up # "down" /\ At(t, "respond")
  /\ answer' = IF IsOpen(r) THEN [answer EXCEPT ![GateOf[r]] = Ours(r)] ELSE answer
  /\ Goes(t, "woken", r)
  /\ UNCHANGED <<storeVars, closed, head, skips, up, queueVars, downs, faults>>

(* The answer goes into an open gate, in one statement; an answer that is  *)
(* already there counts only if it is this job's own.                      *)
Respond(t) ==
  LET r == thread[t].req IN
  /\ up # "down" /\ At(t, "respond")
  /\ answer' = IF IsOpen(r) THEN [answer EXCEPT ![GateOf[r]] = Ours(r)] ELSE answer
  /\ IF IsOpen(r) \/ Delivered(r) THEN Goes(t, "woken", r) /\ UNCHANGED queueVars ELSE End(t)
  /\ UNCHANGED <<storeVars, closed, head, skips, up, downs, faults>>

RespondFails(t) ==
  /\ up # "down" /\ At(t, "respond") /\ faults < MaxFaults /\ faults' = faults + 1
  /\ End(t)
  /\ UNCHANGED <<storeVars, gateVars, head, skips, up, downs>>

(* commitAuthorityIfApproved, after the runner has been woken. *)
Authorise(t) ==
  LET r == thread[t].req  e == ExecOf[r]  h == job[r].head IN
  /\ Yielded /\ At(t, "woken")
  /\ record' = IF /\ job[r].verdict = "APPROVED" /\ TypeOf[r] = "code" /\ h # 0
                  /\ record[e][h] # "skipped"
                 THEN [record EXCEPT ![e][h] = r] ELSE record
  /\ Goes(t, "stamp", r)
  /\ UNCHANGED <<job, gateVars, head, skips, up, queueVars, downs, faults>>

Stamp(t) ==
  LET r == thread[t].req IN
  /\ up # "down" /\ At(t, "stamp")
  /\ job' = [job EXCEPT ![r].delivered = TRUE]
  /\ End(t)
  /\ UNCHANGED <<record, gateVars, head, skips, up, downs, faults>>

-----------------------------------------------------------------------------
(* The bridge goes down and comes back. *)

(* stop(): the workers that wait for a slot are woken to find the bridge   *)
(* stopping; the reviewers are killed.                                     *)
Stop ==
  /\ Yielded /\ up = "up" /\ downs < MaxDown
  /\ up' = "stopping"
  /\ LET drained == {waiting[i] : i \in DOMAIN waiting} IN
       /\ slots' = slots \cup drained
       /\ thread' = [t \in Thread |-> IF t \in drained THEN [Idle EXCEPT !.at = "ready"]
                                      ELSE thread[t]]
  /\ waiting' = <<>>
  /\ UNCHANGED <<storeVars, gateVars, head, skips, chain, downs, faults>>

(* The process ends, after a stop or out of the blue. *)
Die ==
  /\ up # "down" /\ downs < MaxDown /\ downs' = downs + 1 /\ up' = "down"
  /\ thread' = [t \in Thread |-> IF t \in Post /\ thread[t].at # "idle"
                                  THEN [Idle EXCEPT !.at = "over"] ELSE Idle]
  /\ chain' = [e \in Exec |-> <<>>] /\ slots' = {} /\ waiting' = <<>>
  /\ UNCHANGED <<storeVars, gateVars, head, skips, faults>>

Undelivered(r) == job[r].status \in {"done", "skipped"} /\ ~job[r].delivered

(* The jobs of an execution that are driven again, in the order in which   *)
(* they were created.                                                      *)
Redriven(e) ==
  LET S == {r \in Request : ExecOf[r] = e /\ job[r].status \in {"pending", "running"}} IN
  CHOOSE s \in [1 .. Cardinality(S) -> S] :
    \A i, k \in DOMAIN s : i < k => job[s[i]].at < job[s[k]].at

(* Two bugs: the boot leaves running jobs as they are, or it delivers      *)
(* nothing.                                                                *)
BootPendingOnly ==
  /\ up = "down" /\ up' = "up"
  /\ chain' = [e \in Exec |-> SelectSeq(Redriven(e), LAMBDA r : job[r].status = "pending")]
  /\ UNCHANGED <<storeVars, gateVars, head, skips, thread, slots, waiting, downs, faults>>

BootWithoutOutbox ==
  /\ up = "down" /\ up' = "up"
  /\ job' = [r \in Request |-> IF job[r].status = "running"
                                THEN [job[r] EXCEPT !.status = "pending"] ELSE job[r]]
  /\ chain' = [e \in Exec |-> Redriven(e)]
  /\ UNCHANGED <<record, gateVars, head, skips, thread, slots, waiting, downs, faults>>

(* redriveOnBoot. *)
Boot ==
  /\ up = "down" /\ up' = "up"
  /\ thread' = [t \in Thread |->
                  IF t \in Request /\ Undelivered(t)
                    THEN [Idle EXCEPT !.at = "respond", !.req = t] ELSE thread[t]]
  /\ record' = [e \in Exec |-> [h \in 1 .. MaxHead |->
                  IF \E r \in Request : /\ Undelivered(r) /\ job[r].status = "skipped"
                                        /\ TypeOf[r] = "code"
                                        /\ ExecOf[r] = e /\ job[r].head = h
                    THEN "skipped" ELSE record[e][h]]]
  /\ job' = [r \in Request |-> IF job[r].status = "running"
                                THEN [job[r] EXCEPT !.status = "pending"] ELSE job[r]]
  /\ chain' = [e \in Exec |-> Redriven(e)]
  /\ UNCHANGED <<gateVars, head, skips, slots, waiting, downs, faults>>

-----------------------------------------------------------------------------
(* The other processes. *)

(* The Lead answers the gate itself. *)
AnsweredByLead(q) ==
  /\ answer[q] = None /\ answer' = [answer EXCEPT ![q] = Foreign]
  /\ UNCHANGED <<storeVars, closed, head, skips, up, thread, queueVars, downs, faults>>

(* The gate is resolved, or expires. *)
Close(q) ==
  /\ q \notin {g \in Gate : closed[g]} /\ closed' = [closed EXCEPT ![q] = TRUE]
  /\ UNCHANGED <<storeVars, answer, head, skips, up, thread, queueVars, downs, faults>>

(* The runner commits. *)
Move(e) ==
  /\ head[e] < MaxHead /\ head' = [head EXCEPT ![e] = @ + 1]
  /\ UNCHANGED <<storeVars, gateVars, skips, up, thread, queueVars, downs, faults>>

-----------------------------------------------------------------------------

Init ==
  /\ job = [r \in Request |-> NoJob]
  /\ record = [e \in Exec |-> [h \in 1 .. MaxHead |-> None]]
  /\ answer = [q \in Gate |-> None] /\ closed = [q \in Gate |-> FALSE]
  /\ head = [e \in Exec |-> 1] /\ skips \in SUBSET Exec
  /\ up = "up" /\ thread = [t \in Thread |-> Idle]
  /\ chain = [e \in Exec |-> <<>>] /\ slots = {} /\ waiting = <<>>
  /\ downs = 0 /\ faults = 0

PostStep(p) == Freeze(p) \/ Respond(p) \/ RespondFails(p) \/ Authorise(p) \/ Stamp(p)
WorkerStep(e) ==
  \/ Begin(e) \/ Claim(e) \/ ReviewFails(e) \/ SessionLost(e) \/ Fallback(e)
  \/ ReviewEnds(e) \/ Recheck(e)
  \/ Respond(e) \/ RespondFails(e) \/ Authorise(e) \/ Stamp(e)
OutboxStep(r) == Respond(r) \/ RespondFails(r) \/ Authorise(r) \/ Stamp(r)

Next ==
  \/ \E p \in Post : Admit(p) \/ Replay(p) \/ PostStep(p)
  \/ \E e \in Exec : WorkerStep(e) \/ Move(e)
  \/ \E r \in Request : OutboxStep(r)
  \/ \E q \in Gate : AnsweredByLead(q) \/ Close(q)
  \/ Stop \/ Die \/ Boot

Spec == Init /\ [][Next]_vars

(* A handler at an await goes on, a reviewer ends or runs into its time    *)
(* limit, a bridge that stops ends and one that is down is started again.  *)
Fairness ==
  /\ \A p \in Post : WF_vars(PostStep(p))
  /\ \A e \in Exec : WF_vars(WorkerStep(e))
  /\ \A r \in Request : WF_vars(OutboxStep(r))
  /\ WF_vars(Boot) /\ WF_vars(up = "stopping" /\ Die)

FairSpec == Spec /\ Fairness

-----------------------------------------------------------------------------

TypeOK ==
  /\ job \in [Request -> Job]
  /\ record \in [Exec -> [1 .. MaxHead -> Request \cup {"skipped", None}]]
  /\ answer \in [Gate -> Answer \cup {Foreign, None}]
  /\ closed \in [Gate -> BOOLEAN]
  /\ head \in [Exec -> 1 .. MaxHead] /\ skips \subseteq Exec
  /\ up \in {"up", "stopping", "down"}
  /\ thread \in [Thread -> ThreadState]
  /\ chain \in [Exec -> Seq(Request)]
  /\ slots \subseteq Exec /\ waiting \in Seq(Exec)
  /\ downs \in 0 .. MaxDown /\ faults \in 0 .. MaxFaults

(* "Authority follows delivery": a head counts as approved only if the     *)
(* request that approved it has frozen this head and answered its gate.    *)
AuthorityIsDelivered ==
  \A e \in Exec, h \in 1 .. MaxHead : LET r == record[e][h] IN
    r \in Request => /\ ExecOf[r] = e /\ TypeOf[r] = "code" /\ job[r].head = h
                     /\ answer[GateOf[r]] = [req |-> r, verdict |-> "APPROVED"]

(* A verdict in a gate is the verdict of its job for good: no crash, retry *)
(* or second review ends in another one.                                   *)
VerdictsStand ==
  \A q \in Gate, r \in Request, v \in Verdict \cup {"SKIPPED"} :
    answer[q] = [req |-> r, verdict |-> v] =>
      GateOf[r] = q /\ job[r].status \in {"done", "skipped"} /\ job[r].verdict = v

(* A job is stamped as delivered only with its own answer in the gate. *)
StampsAreTrue == \A r \in Request : job[r].delivered => answer[GateOf[r]] = Ours(r)

(* At most MaxConcurrent reviewers run, also while stop() hands slots to   *)
(* every waiter.                                                           *)
ReviewersBounded ==
  Cardinality({e \in Exec : thread[e].at \in {"review", "fallback", "again"}}) <= MaxConcurrent

(* What the lane does to verdicts, gates and records, for good. *)
Rulings ==
  [r \in Request |-> IF job[r].status \in {"done", "skipped"}
                       THEN [verdict |-> job[r].verdict, head |-> job[r].head] ELSE None]

Ticked == {r \in Request : job[r].delivered}

Ledger == INSTANCE ReviewLedger WITH ruling <- Rulings, ticked <- Ticked

(* Posts, retries, shutdowns, crashes and boots come down to the steps of  *)
(* the ledger: one verdict for a request, about the head of that moment,   *)
(* one answer for a gate, and no delivery stamp before the approval (or    *)
(* the waiver) it stands for is on record.                                 *)
ImplementsLedger == Ledger!Spec

(* An accepted job ends, whatever the bridge goes through. *)
JobsSettle ==
  \A r \in Request : (job[r].status \in {"pending", "running"})
                        ~> (job[r].status \notin {"pending", "running"})

(* A verdict whose answer a crash kept out of its open gate gets there     *)
(* after the boot, as long as CommDB can be read.                          *)
VerdictsArrive ==
  \A r \in Request : Undelivered(r) /\ IsOpen(r) ~> ~IsOpen(r) \/ faults > 0
=============================================================================
