------------------------ MODULE ReviewRequestsProofs ------------------------
(***************************************************************************)
(* Safety of the review lane, and that it implements its ledger, for any   *)
(* finite sets of requests and executions, any gates and posts, and any    *)
(* number of reviewer slots, shutdowns, crashes and failed reads.          *)
(***************************************************************************)
EXTENDS ReviewRequests, FunctionTheorems, FiniteSetTheorems, SequenceTheorems, TLAPS

Busy == {"review", "fallback", "again", "recheck"}
Ending == {"respond", "woken", "stamp"}
Settled(r) == job[r].status \in {"done", "skipped"}
Final == Verdict \cup {"SKIPPED"}

(* What a thread knows of the job it is at.                                *)
Knows(t) ==
  LET r == thread[t].req IN
    /\ thread[t].at \in {"derive"} \cup Busy \cup Ending => r \in Request
    /\ thread[t].at \in Busy => t \in Exec /\ ExecOf[r] = t /\ job[r].status = "running"
    /\ thread[t].at = "recheck" => thread[t].verdict \in Verdict
    /\ thread[t].at \in Ending => Settled(r)
    /\ thread[t].at \in {"woken", "stamp"} => answer[GateOf[r]] = Ours(r)

ThreadsKnow == \A t \in Thread : Knows(t)

(* A job that is through has a verdict, and only such a job is delivered.  *)
JobsShaped ==
  \A r \in Request : /\ Settled(r) => job[r].verdict \in Final
                     /\ job[r].delivered => Settled(r)

(* Rows are numbered in the order in which they were created.              *)
CreationOrder ==
  /\ \A r \in Request : job[r].status # "absent" => job[r].at \in 1 .. Count
  /\ \A r, q \in Request :
       job[r].status # "absent" /\ job[q].status # "absent" /\ job[r].at = job[q].at => r = q

(* A worker past its wait has a slot, one that waits is queued once, and a *)
(* worker is at the first job of its own chain.                            *)
Scheduled ==
  /\ \A e \in Exec : \A i \in 1 .. Len(chain[e]) : ExecOf[chain[e][i]] = e
  /\ \A e \in Exec : thread[e].at # "idle" => chain[e] # <<>>
  /\ \A i \in 1 .. Len(waiting) : thread[waiting[i]].at = "waiting"
  /\ \A i, k \in 1 .. Len(waiting) : waiting[i] = waiting[k] => i = k
  /\ \A e \in Exec : thread[e].at \notin {"idle", "waiting"} => e \in slots

(* Slots are handed out one by one; only stop() hands out more.            *)
SlotsBounded ==
  /\ up = "up" => Cardinality(slots) <= MaxConcurrent
  /\ up = "down" => slots = {} /\ \A e \in Exec : thread[e].at = "idle"

Inv ==
  /\ TypeOK
  /\ ThreadsKnow
  /\ JobsShaped
  /\ CreationOrder
  /\ Scheduled
  /\ SlotsBounded
  /\ ReviewersBounded
  /\ VerdictsStand
  /\ StampsAreTrue
  /\ AuthorityIsDelivered

-----------------------------------------------------------------------------
(* Rows and their numbers. *)

Accepted == {q \in Request : job[q].status # "absent"}

(* The number of accepted requests is a number, and a request that is not  *)
(* yet accepted can still be numbered; so can its round.                   *)
LEMMA Counted ==
  /\ IsFiniteSet(Accepted) /\ Count \in Nat /\ Cardinality(Request) \in Nat
  /\ \A r \in Request : job[r].status = "absent" =>
       /\ Count + 1 \in 1 .. Cardinality(Request)
       /\ Cardinality(Others(r)) + 1 \in 1 .. Cardinality(Request)
<1>1. IsFiniteSet(Accepted) /\ Count \in Nat
  <2>1. Accepted \in SUBSET Request
    BY DEF Accepted
  <2> QED
    BY <2>1, FiniteAssumption, FS_Subset, FS_CardinalityType DEF Accepted, Count
<1>2. ASSUME NEW r \in Request, job[r].status = "absent", NEW S \in SUBSET Accepted
      PROVE  Cardinality(S) + 1 \in 1 .. Cardinality(Request)
  <2>1. S \in SUBSET Request /\ r \notin S
    BY <1>2 DEF Accepted
  <2>2. IsFiniteSet(S) /\ Cardinality(S) \in Nat
    BY <2>1, FiniteAssumption, FS_Subset, FS_CardinalityType
  <2>3. Cardinality(S \cup {r}) = Cardinality(S) + 1
    BY <2>1, <2>2, FS_AddElement
  <2>4. S \cup {r} \in SUBSET Request
    BY <2>1
  <2>5. Cardinality(S \cup {r}) <= Cardinality(Request) /\ Cardinality(Request) \in Nat
    BY <2>4, FiniteAssumption, FS_Subset, FS_CardinalityType
  <2> QED
    BY <2>2, <2>3, <2>5
<1>3. \A r \in Request : Others(r) \in SUBSET Accepted
  BY DEF Others, Accepted
<1>4. Accepted \in SUBSET Accepted /\ Count = Cardinality(Accepted)
  BY DEF Accepted, Count
<1>5. Cardinality(Request) \in Nat
  BY FiniteAssumption, FS_CardinalityType
<1> QED
  BY <1>1, <1>2, <1>3, <1>4, <1>5

(* A finite set of requests with numbers of their own can be listed by     *)
(* them: the place of each is the number of those up to it.                *)
LEMMA Sortable ==
  ASSUME NEW S \in SUBSET Request,
         \A r \in S : job[r].at \in Nat,
         \A r, q \in S : job[r].at = job[q].at => r = q
  PROVE  \E s \in [1 .. Cardinality(S) -> S] :
           \A i, k \in DOMAIN s : i < k => job[s[i]].at < job[s[k]].at
<1> DEFINE n == Cardinality(S)
           UpTo(r) == {q \in S : job[q].at <= job[r].at}
           rank == [r \in S |-> Cardinality(UpTo(r))]
<1>1. IsFiniteSet(S) /\ n \in Nat
  BY FiniteAssumption, FS_Subset, FS_CardinalityType
<1>2. \A r \in S : /\ UpTo(r) \in SUBSET S /\ IsFiniteSet(UpTo(r)) /\ r \in UpTo(r)
                   /\ Cardinality(UpTo(r)) \in Nat /\ Cardinality(UpTo(r)) <= n
  <2> TAKE r \in S
  <2>1. UpTo(r) \in SUBSET S /\ r \in UpTo(r)
    OBVIOUS
  <2> QED
    BY <1>1, <2>1, FS_Subset, FS_CardinalityType
<1>3. \A r \in S : rank[r] \in 1 .. n
  <2> TAKE r \in S
  <2>1. Cardinality(UpTo(r)) # 0
    BY <1>2, FS_EmptySet
  <2>2. rank[r] = Cardinality(UpTo(r))
    OBVIOUS
  <2> HIDE DEF n, rank, UpTo
  <2> QED
    BY <1>1, <1>2, <2>1, <2>2
<1>4. \A r, q \in S : job[r].at < job[q].at => rank[r] < rank[q]
  <2> SUFFICES ASSUME NEW r \in S, NEW q \in S, job[r].at < job[q].at
               PROVE  rank[r] < rank[q]
    OBVIOUS
  <2>1. UpTo(r) \in SUBSET UpTo(q) /\ q \notin UpTo(r)
    OBVIOUS
  <2>2. Cardinality(UpTo(r)) <= Cardinality(UpTo(q))
    BY <1>2, <2>1, FS_Subset
  <2>3. Cardinality(UpTo(r)) # Cardinality(UpTo(q))
    BY <1>2, <2>1, FS_Subset
  <2> QED
    BY <1>2, <2>2, <2>3
<1>5. rank \in [S -> 1 .. n]
  BY <1>3
<1> HIDE DEF n, rank, UpTo
<1>6. rank \in Injection(S, 1 .. n)
  <2>1. \A r, q \in S : rank[r] = rank[q] => job[r].at = job[q].at
    BY <1>1, <1>3, <1>4
  <2> QED
    BY <1>5, <2>1 DEF Injection, IsInjective
<1>7. rank \in Surjection(S, 1 .. n)
  <2>1. IsFiniteSet(1 .. n) /\ Cardinality(1 .. n) = n
    BY <1>1, FS_Interval
  <2> QED
    BY <1>6, <2>1, FS_Injection DEF n
<1> DEFINE s == [i \in 1 .. n |-> CHOOSE r \in S : rank[r] = i]
<1>8. \A i \in 1 .. n : s[i] \in S /\ rank[s[i]] = i
  BY <1>7 DEF Surjection
<1>9. s \in [1 .. n -> S]
  BY <1>8
<1> HIDE DEF s
<1>10. \A i, k \in 1 .. n : i < k => job[s[i]].at < job[s[k]].at
  <2> SUFFICES ASSUME NEW i \in 1 .. n, NEW k \in 1 .. n, i < k, job[s[i]].at >= job[s[k]].at
               PROVE  FALSE
    BY <1>8
  <2>1. CASE job[s[i]].at = job[s[k]].at
    BY <1>8, <2>1
  <2>2. CASE job[s[k]].at < job[s[i]].at
    BY <1>1, <1>4, <1>8, <2>2
  <2> QED
    BY <1>8, <2>1, <2>2
<1> QED
  BY <1>10, <1>9 DEF n

(* What redriveOnBoot enqueues for an execution: its pending and running   *)
(* jobs, in the order in which they were created.                          *)
LEMMA RedrivenListed ==
  ASSUME TypeOK, CreationOrder, NEW e \in Exec
  PROVE  /\ Redriven(e) \in Seq({r \in Request : ExecOf[r] = e})
         /\ \A i, k \in 1 .. Len(Redriven(e)) :
              i < k => job[Redriven(e)[i]].at < job[Redriven(e)[k]].at
<1> DEFINE S == {r \in Request : ExecOf[r] = e /\ job[r].status \in {"pending", "running"}}
<1>1. /\ \A r \in S : job[r].at \in Nat
      /\ \A r, q \in S : job[r].at = job[q].at => r = q
  BY DEF CreationOrder
<1>2. \E s \in [1 .. Cardinality(S) -> S] :
        \A i, k \in DOMAIN s : i < k => job[s[i]].at < job[s[k]].at
  BY <1>1, Sortable
<1>3. /\ Redriven(e) \in [1 .. Cardinality(S) -> S]
      /\ \A i, k \in DOMAIN Redriven(e) :
           i < k => job[Redriven(e)[i]].at < job[Redriven(e)[k]].at
  BY <1>2 DEF Redriven
<1>4. Cardinality(S) \in Nat
  BY FiniteAssumption, FS_Subset, FS_CardinalityType
<1>5. S \subseteq {r \in Request : ExecOf[r] = e}
  OBVIOUS
<1> HIDE DEF S
<1>6. Redriven(e) \in Seq(S) /\ DOMAIN Redriven(e) = 1 .. Len(Redriven(e))
  BY <1>3, <1>4
<1> QED
  BY <1>3, <1>5, <1>6

-----------------------------------------------------------------------------
(* What a step may do to verdicts, answers, stamps and approvals.          *)

(* A job that is through keeps its verdict and its head, a gate its answer. *)
Lasting ==
  /\ \A r \in Request : Settled(r) => /\ job'[r].status = job[r].status
                                      /\ job'[r].verdict = job[r].verdict
                                      /\ job'[r].head = job[r].head
                                      /\ job[r].delivered => job'[r].delivered
  /\ \A q \in Gate : answer[q] # None => answer'[q] = answer[q]

(* A new answer is the Lead's, or the verdict of a job of the gate.        *)
NewAnswers ==
  \A q \in Gate : \/ answer'[q] = answer[q]
                  \/ answer'[q] = Foreign
                  \/ \E r \in Request : Settled(r) /\ GateOf[r] = q /\ answer'[q] = Ours(r)

NewStamps ==
  \A r \in Request : job'[r].delivered => \/ job[r].delivered
                                          \/ Settled(r) /\ answer[GateOf[r]] = Ours(r)

NewVerdicts == \A r \in Request : Settled(r)' => Settled(r) \/ job'[r].verdict \in Final

(* The request behind an approval of a head.                               *)
Approves(r, e, h) ==
  /\ ExecOf[r] = e /\ TypeOf[r] = "code" /\ Settled(r) /\ job[r].head = h
  /\ job[r].verdict = "APPROVED" /\ answer[GateOf[r]] = Ours(r)

NewRecords ==
  \A e \in Exec, h \in 1 .. MaxHead :
    \/ record'[e][h] = record[e][h]
    \/ record'[e][h] = "skipped"
    \/ \E r \in Request : record'[e][h] = r /\ Approves(r, e, h)

Ledgered == Lasting /\ NewAnswers /\ NewStamps /\ NewVerdicts /\ NewRecords

LEMMA LedgerKept ==
  ASSUME Inv, TypeOK', Ledgered
  PROVE  JobsShaped' /\ VerdictsStand' /\ StampsAreTrue' /\ AuthorityIsDelivered'
<1> USE DEF Settled, Inv
<1>1. JobsShaped'
  BY DEF JobsShaped, Ledgered, Lasting, NewStamps, NewVerdicts
<1>2. VerdictsStand'
  <2> SUFFICES ASSUME NEW q \in Gate, NEW r \in Request, NEW v \in Final,
                      answer'[q] = [req |-> r, verdict |-> v]
               PROVE  /\ GateOf[r] = q /\ job'[r].status \in {"done", "skipped"}
                      /\ job'[r].verdict = v
    BY DEF VerdictsStand, Final
  <2>1. answer'[q] # Foreign
    BY ValueAssumption DEF Answer, Final
  <2>2. CASE answer'[q] = answer[q]
    BY <2>2 DEF VerdictsStand, Ledgered, Lasting, Final
  <2>3. ASSUME NEW k \in Request, Settled(k), GateOf[k] = q, answer'[q] = Ours(k)
        PROVE  /\ GateOf[r] = q /\ job'[r].status \in {"done", "skipped"}
               /\ job'[r].verdict = v
    BY <2>3 DEF Ours, Ledgered, Lasting
  <2> QED
    BY <2>1, <2>2, <2>3 DEF Ledgered, NewAnswers
<1>3. \A r \in Request : Settled(r) /\ answer[GateOf[r]] = Ours(r) => (answer[GateOf[r]] = Ours(r))'
  <2> TAKE r \in Request
  <2> HAVE Settled(r) /\ answer[GateOf[r]] = Ours(r)
  <2>1. Ours(r) \in Answer
    BY DEF Ours, Answer, JobsShaped, Final
  <2> QED
    BY <2>1, ReviewAssumption, ValueAssumption DEF Ledgered, Lasting, Ours
<1>4. StampsAreTrue'
  BY <1>3 DEF StampsAreTrue, JobsShaped, Ledgered, NewStamps
<1>5. AuthorityIsDelivered'
  <2> SUFFICES ASSUME NEW e \in Exec, NEW h \in 1 .. MaxHead, record'[e][h] \in Request
               PROVE  LET r == record'[e][h] IN
                        /\ ExecOf[r] = e /\ TypeOf[r] = "code" /\ job'[r].head = h
                        /\ answer'[GateOf[r]] = [req |-> r, verdict |-> "APPROVED"]
    BY DEF AuthorityIsDelivered
  <2> DEFINE r == record'[e][h]
  <2>1. record'[e][h] # "skipped"
    BY ValueAssumption
  <2>2. CASE record'[e][h] = record[e][h]
    <3>1. /\ ExecOf[r] = e /\ TypeOf[r] = "code" /\ job[r].head = h
          /\ answer[GateOf[r]] = [req |-> r, verdict |-> "APPROVED"]
      BY <2>2 DEF AuthorityIsDelivered
    <3>2. Settled(r) /\ job[r].verdict = "APPROVED"
      <4>1. r \in Request /\ GateOf[r] \in Gate /\ "APPROVED" \in Verdict \cup {"SKIPPED"}
        BY <2>2, ReviewAssumption DEF Verdict
      <4> HIDE DEF r
      <4> QED
        BY <3>1, <4>1 DEF VerdictsStand
    <3>3. answer[GateOf[r]] = Ours(r)
      BY <3>1, <3>2 DEF Ours
    <3> QED
      BY <1>3, <3>1, <3>2, <3>3 DEF Ours, Ledgered, Lasting
  <2>3. CASE Approves(r, e, h)
    BY <1>3, <2>3 DEF Approves, Ours, Ledgered, Lasting
  <2> QED
    BY <2>1, <2>2, <2>3 DEF Ledgered, NewRecords
<1> QED
  BY <1>1, <1>2, <1>4, <1>5

(* A thread that rests, or goes on with a job nobody else touches, knows   *)
(* what it should.                                                         *)
Resting == {"idle", "waiting", "ready", "over"}

LEMMA KnowledgeKept ==
  ASSUME Inv, Lasting,
         \A t \in Thread : \/ thread'[t].at \in Resting
                           \/ Knows(t)'
                           \/ /\ thread'[t] = thread[t]
                              /\ thread[t].at \in Busy => job'[thread[t].req].status = "running"
  PROVE  ThreadsKnow'
<1> SUFFICES ASSUME NEW t \in Thread, thread'[t] = thread[t],
                    thread[t].at \in Busy => job'[thread[t].req].status = "running"
             PROVE  Knows(t)'
  BY DEF ThreadsKnow, Knows, Resting, Busy, Ending
<1> DEFINE r == thread[t].req
<1>1. Knows(t)
  BY DEF Inv, ThreadsKnow
<1>2. thread[t].at \in Ending => Settled(r) /\ Settled(r)' /\ Ours(r)' = Ours(r)
  BY <1>1 DEF Knows, Lasting, Settled, Ours
<1>3. thread[t].at \in {"woken", "stamp"} => answer'[GateOf[r]] = answer[GateOf[r]]
  <2> HAVE thread[t].at \in {"woken", "stamp"}
  <2>1. r \in Request /\ answer[GateOf[r]] = Ours(r) /\ Ours(r) \in Answer
    BY <1>1 DEF Knows, Ours, Answer, Inv, JobsShaped, Final, Ending
  <2> QED
    BY <2>1, ReviewAssumption, ValueAssumption DEF Lasting
<1> QED
  BY <1>1, <1>2, <1>3 DEF Knows, Ending, Busy

LEMMA SameNumbers ==
  ASSUME CreationOrder,
         \A r \in Request : /\ job'[r].at = job[r].at
                            /\ job'[r].status = "absent" <=> job[r].status = "absent"
  PROVE  CreationOrder'
<1>1. Count' = Count
  <2>1. Accepted' = Accepted
    BY DEF Accepted
  <2> QED
    BY <2>1 DEF Count, Accepted
<1> QED
  BY <1>1 DEF CreationOrder

(* accept adds a row: the next number, nothing delivered.                  *)
Added(r) ==
  /\ job[r].status = "absent"
  /\ \E row \in Job :
       /\ row.status \in {"pending", "skipped", "failed"} /\ row.at = Count + 1
       /\ row.status = "skipped" => row.verdict = "SKIPPED"
       /\ ~row.delivered
       /\ job' = [job EXCEPT ![r] = row]

LEMMA AddedNumber ==
  ASSUME TypeOK, CreationOrder, NEW r \in Request, Added(r)
  PROVE  CreationOrder'
<1>1. PICK row \in Job : /\ row.status \in {"pending", "skipped", "failed"} /\ row.at = Count + 1
                         /\ job' = [job EXCEPT ![r] = row]
  BY DEF Added
<1>2. job'[r] = row /\ \A q \in Request \ {r} : job'[q] = job[q]
  BY <1>1 DEF TypeOK
<1>3. Count' = Count + 1
  <2>1. Accepted' = Accepted \cup {r}
    BY <1>1, <1>2 DEF Accepted
  <2>2. r \notin Accepted
    BY DEF Added, Accepted
  <2>3. Cardinality(Accepted \cup {r}) = Cardinality(Accepted) + 1
    BY <2>2, Counted, FS_AddElement
  <2> QED
    BY <2>1, <2>3 DEF Count, Accepted
<1> QED
  BY <1>1, <1>2, <1>3, Counted DEF CreationOrder

-----------------------------------------------------------------------------
(* The slots. *)

Reviewers == {e \in Exec : thread[e].at \in {"review", "fallback", "again"}}

LEMMA SlotsFinite ==
  ASSUME TypeOK
  PROVE  /\ IsFiniteSet(slots) /\ Cardinality(slots) \in Nat
         /\ IsFiniteSet(Reviewers) /\ Cardinality(Reviewers) \in Nat
<1>1. slots \in SUBSET Exec /\ Reviewers \in SUBSET Exec
  BY DEF TypeOK, Reviewers
<1> QED
  BY <1>1, FiniteAssumption, FS_Subset, FS_CardinalityType

(* While the bridge is up the reviewers are among the slots; afterwards no *)
(* new one starts.                                                         *)
LEMMA ReviewersKept ==
  ASSUME Inv, TypeOK', Scheduled', SlotsBounded',
         up' # "up" => Reviewers' \subseteq Reviewers
  PROVE  ReviewersBounded'
<1>1. CASE up' = "up"
  <2>1. Reviewers' \in SUBSET slots'
    BY DEF Reviewers, Scheduled
  <2>2. IsFiniteSet(slots') /\ Cardinality(slots') \in Nat /\ Cardinality(slots') <= MaxConcurrent
    BY <1>1, FiniteAssumption, FS_Subset, FS_CardinalityType DEF SlotsBounded, TypeOK
  <2>3. Cardinality(Reviewers') <= Cardinality(slots') /\ Cardinality(Reviewers') \in Nat
    BY <2>1, <2>2, FS_Subset, FS_CardinalityType
  <2> QED
    BY <2>2, <2>3, ReviewAssumption DEF ReviewersBounded, Reviewers
<1>2. CASE up' # "up"
  <2>1. Reviewers' \in SUBSET Reviewers
    BY <1>2
  <2>2. /\ Cardinality(Reviewers') <= Cardinality(Reviewers) /\ Cardinality(Reviewers') \in Nat
        /\ Cardinality(Reviewers) \in Nat
    BY <2>1, SlotsFinite, FS_Subset, FS_CardinalityType DEF Inv
  <2>3. Cardinality(Reviewers) <= MaxConcurrent
    BY DEF Inv, ReviewersBounded, Reviewers
  <2> QED
    BY <2>2, <2>3, ReviewAssumption DEF ReviewersBounded, Reviewers
<1> QED
  BY <1>1, <1>2

(* A worker leaves: its slot goes to the oldest waiter, if there is one.   *)
LEMMA LeaveKeeps ==
  ASSUME Inv, NEW e \in Exec, thread[e].at \notin {"idle", "waiting"}, Leave(e), up' = up
  PROVE  /\ chain' \in [Exec -> Seq(Request)]
         /\ slots' \subseteq Exec /\ waiting' \in Seq(Exec)
         /\ thread' \in [Thread -> ThreadState]
         /\ thread'[e] = Idle
         /\ \A t \in Thread \ {e} : thread'[t] = thread[t] \/ thread'[t].at = "ready"
         /\ \A t \in Post \cup Request : thread'[t] = thread[t]
         /\ Scheduled' /\ SlotsBounded'
<1>0. /\ chain \in [Exec -> Seq(Request)] /\ slots \subseteq Exec /\ waiting \in Seq(Exec)
      /\ thread \in [Thread -> ThreadState] /\ Scheduled /\ SlotsBounded
      /\ IsFiniteSet(slots) /\ Cardinality(slots) \in Nat
  BY SlotsFinite DEF Inv, TypeOK
<1>1. /\ e \in slots /\ chain[e] # <<>> /\ e \in Thread
      /\ chain' = [chain EXCEPT ![e] = Tail(@)]
      /\ up # "down"
  BY <1>0 DEF Scheduled, SlotsBounded, Leave, Thread
<1>2. /\ chain' \in [Exec -> Seq(Request)]
      /\ \A k \in Exec \ {e} : chain'[k] = chain[k]
      /\ \A k \in Exec : \A i \in 1 .. Len(chain'[k]) : ExecOf[chain'[k][i]] = k
  <2>1. /\ Tail(chain[e]) \in Seq(Request)
        /\ \A i \in 1 .. Len(Tail(chain[e])) : Tail(chain[e])[i] = chain[e][i + 1]
                                              /\ i + 1 \in 1 .. Len(chain[e])
    BY <1>0, <1>1
  <2>2. chain'[e] = Tail(chain[e]) /\ \A k \in Exec \ {e} : chain'[k] = chain[k]
    BY <1>0, <1>1
  <2>3. chain' \in [Exec -> Seq(Request)]
    BY <1>0, <1>1, <2>1
  <2>4. \A i \in 1 .. Len(chain'[e]) : ExecOf[chain'[e][i]] = e
    BY <1>0, <2>1, <2>2 DEF Scheduled
  <2> QED
    BY <1>0, <2>2, <2>3, <2>4 DEF Scheduled
<1>3. CASE waiting = <<>>
  <2>1. slots' = slots \ {e} /\ thread' = [thread EXCEPT ![e] = Idle] /\ waiting' = waiting
    BY <1>0, <1>3 DEF Leave
  <2>2. Idle \in ThreadState
    BY DEF Idle, ThreadState
  <2>3. Cardinality(slots \ {e}) = Cardinality(slots) - 1 /\ Cardinality(slots \ {e}) \in Nat
    BY <1>0, <1>1, FS_RemoveElement, FS_CardinalityType
  <2>4. Cardinality(slots') \in Nat /\ Cardinality(slots') <= Cardinality(slots)
    BY <1>0, <2>1, <2>3
  <2>5. SlotsBounded'
    BY <1>0, <1>1, <2>1, <2>3, <2>4, ReviewAssumption DEF SlotsBounded
  <2>6. Scheduled'
    BY <1>0, <1>1, <1>2, <1>3, <2>1 DEF Scheduled, Idle, Thread
  <2> QED
    BY <1>0, <1>1, <1>2, <2>1, <2>2, <2>5, <2>6, ThreadAssumption
<1>4. CASE waiting # <<>>
  <2> DEFINE w == Head(waiting)
  <2>1. /\ slots' = (slots \ {e}) \cup {w} /\ waiting' = Tail(waiting)
        /\ thread' = [thread EXCEPT ![e] = Idle, ![w].at = "ready"]
    BY <1>0, <1>4 DEF Leave
  <2>2. w \in Exec /\ w \in Thread /\ w # e /\ thread[w].at = "waiting" /\ w = waiting[1] /\ 1 \in 1 .. Len(waiting)
    BY <1>0, <1>4 DEF Scheduled, Thread
  <2>3. /\ Tail(waiting) \in Seq(Exec)
        /\ \A i \in 1 .. Len(Tail(waiting)) :
             Tail(waiting)[i] = waiting[i + 1] /\ i + 1 \in 1 .. Len(waiting) /\ i + 1 # 1
    BY <1>0, <1>4
  <2> HIDE DEF w
  <2>4. /\ thread'[e] = Idle /\ thread'[w] = [thread[w] EXCEPT !.at = "ready"]
        /\ \A t \in Thread \ {e, w} : thread'[t] = thread[t]
    BY <1>0, <1>1, <2>1, <2>2
  <2>5. thread' \in [Thread -> ThreadState]
    <3>1. Idle \in ThreadState
      BY DEF Idle, ThreadState
    <3>2. [thread[w] EXCEPT !.at = "ready"] \in ThreadState
      BY <1>0, <2>2 DEF ThreadState
    <3> QED
      BY <1>0, <1>1, <2>1, <2>2, <2>4, <3>1, <3>2
  <2>6. SlotsBounded'
    <3>1. /\ IsFiniteSet(slots \ {e}) /\ Cardinality(slots \ {e}) = Cardinality(slots) - 1
          /\ Cardinality(slots \ {e}) \in Nat
      BY <1>0, <1>1, FS_RemoveElement, FS_CardinalityType
    <3>2. Cardinality((slots \ {e}) \cup {w}) = IF w \in slots \ {e} THEN Cardinality(slots \ {e})
                                                ELSE Cardinality(slots \ {e}) + 1
      BY <3>1, FS_AddElement
    <3>3. Cardinality(slots') \in Nat /\ Cardinality(slots') <= Cardinality(slots)
      BY <1>0, <2>1, <3>1, <3>2
    <3> QED
      BY <1>0, <1>1, <3>3, ReviewAssumption DEF SlotsBounded
  <2>7. \A i \in 1 .. Len(waiting') : /\ waiting'[i] = waiting[i + 1] /\ i + 1 \in 1 .. Len(waiting)
                                      /\ waiting'[i] \in Thread \ {e, w}
                                      /\ thread[waiting'[i]].at = "waiting"
    <3> TAKE i \in 1 .. Len(waiting')
    <3>1. waiting'[i] = waiting[i + 1] /\ i + 1 \in 1 .. Len(waiting) /\ i + 1 # 1
      BY <2>1, <2>3
    <3>2. thread[waiting[i + 1]].at = "waiting" /\ waiting[i + 1] # waiting[1]
      BY <1>0, <2>2, <3>1 DEF Scheduled
    <3>3. waiting[i + 1] \in Thread
      BY <1>0, <3>1 DEF Thread
    <3> QED
      BY <1>1, <2>2, <3>1, <3>2, <3>3
  <2>8. Scheduled'
    <3>1. \A k \in Exec : thread'[k].at # "idle" => chain'[k] # <<>>
      <4> SUFFICES ASSUME NEW k \in Exec, thread'[k].at # "idle" PROVE chain'[k] # <<>>
        OBVIOUS
      <4>1. k # e /\ k \in Thread
        BY <2>4 DEF Idle, Thread
      <4>2. thread[k].at # "idle"
        BY <2>2, <2>4, <4>1
      <4>3. chain[k] # <<>>
        BY <1>0, <4>2 DEF Scheduled
      <4>4. chain'[k] = chain[k]
        BY <1>2, <4>1
      <4> QED
        BY <4>3, <4>4
    <3>2. \A i \in 1 .. Len(waiting') : thread'[waiting'[i]].at = "waiting"
      BY <2>4, <2>7
    <3>3. \A i, k \in 1 .. Len(waiting') : waiting'[i] = waiting'[k] => i = k
      BY <1>0, <2>1, <2>3, <2>7 DEF Scheduled
    <3>4. \A k \in Exec : thread'[k].at \notin {"idle", "waiting"} => k \in slots'
      BY <1>0, <2>1, <2>2, <2>4 DEF Scheduled, Idle, Thread
    <3> QED
      BY <1>0, <1>2, <3>1, <3>2, <3>3, <3>4 DEF Scheduled
  <2> QED
    <3>1. \A t \in Thread \ {e} : thread'[t] = thread[t] \/ thread'[t].at = "ready"
      BY <1>0, <2>2, <2>4 DEF ThreadState
    <3>2. \A t \in Post \cup Request : t \in Thread \ {e, w}
      BY <2>2, ThreadAssumption DEF Thread
    <3>3. slots' \subseteq Exec /\ waiting' \in Seq(Exec)
      BY <1>0, <2>1, <2>2, <2>3
    <3> QED
      BY <1>2, <2>4, <2>5, <2>6, <2>8, <3>1, <3>2, <3>3
<1> QED
  BY <1>3, <1>4

-----------------------------------------------------------------------------
(* The steps of accept. *)

(* What a post may do: its thread ends, waits for git or answers the gate; *)
(* a row is added; heads are marked as skipped; a job is enqueued.         *)
PostMoves(p) ==
  /\ \E th \in ThreadState :
       /\ thread' = [thread EXCEPT ![p] = th]
       /\ th.at \in {"derive", "respond", "over"}
       /\ th.at # "over" => th.req \in Request
       /\ th.at = "respond" => job'[th.req].status \in {"done", "skipped"}
  /\ job' = job \/ \E r \in Request : Added(r)
  /\ record' \in [Exec -> [1 .. MaxHead -> Request \cup {"skipped", None}]]
  /\ \A e \in Exec, h \in 1 .. MaxHead :
       record'[e][h] = record[e][h] \/ record'[e][h] = "skipped"
  /\ chain' = chain \/ \E r \in Request : Enqueue(r)

LEMMA Gone ==
  ASSUME NEW t, NEW to \in {"derive", "respond", "over", "idle", "ready", "waiting", "review",
                            "fallback", "again", "woken", "stamp"},
         NEW r \in Request \cup {None}, Goes(t, to, r)
  PROVE  \E th \in ThreadState : thread' = [thread EXCEPT ![t] = th] /\ th.at = to /\ th.req = r
<1> DEFINE th == [Idle EXCEPT !.at = to, !.req = r]
<1>1. th \in ThreadState /\ th.at = to /\ th.req = r
  BY DEF Idle, ThreadState
<1>2. thread' = [thread EXCEPT ![t] = th]
  BY DEF Goes
<1> QED
  BY <1>1, <1>2

LEMMA SkippedTyped ==
  ASSUME TypeOK, NEW r \in Request, NEW h \in Head0, Skipped(r, h)
  PROVE  /\ record' \in [Exec -> [1 .. MaxHead -> Request \cup {"skipped", None}]]
         /\ \A e \in Exec, k \in 1 .. MaxHead :
              record'[e][k] = record[e][k] \/ record'[e][k] = "skipped"
<1>1. ExecOf[r] \in Exec /\ (h # 0 => h \in 1 .. MaxHead)
  BY ReviewAssumption DEF Head0
<1> QED
  BY <1>1 DEF TypeOK, Skipped

LEMMA InsertMoves ==
  ASSUME Inv, NEW p \in Post, NEW r \in Request, NEW h \in Head0, Insert(p, r, h)
  PROVE  PostMoves(p)
<1>1. TypeOK
  BY DEF Inv
<1>2. CASE job[r].status # "absent" /\ Goes(p, "over", None) /\ UNCHANGED <<storeVars, chain>>
  <2>1. \E th \in ThreadState : thread' = [thread EXCEPT ![p] = th] /\ th.at = "over"
    BY <1>2, Gone
  <2> QED
    BY <1>1, <1>2, <2>1 DEF PostMoves, storeVars, TypeOK
<1>3. ASSUME job[r].status = "absent", ExecOf[r] \in skips,
             job' = [job EXCEPT ![r] = [NoJob EXCEPT !.status = "skipped", !.head = h,
                                          !.verdict = "SKIPPED", !.at = Count + 1]],
             Skipped(r, h), Goes(p, "respond", r), UNCHANGED chain
      PROVE  PostMoves(p)
  <2> DEFINE row == [NoJob EXCEPT !.status = "skipped", !.head = h,
                                  !.verdict = "SKIPPED", !.at = Count + 1]
  <2>1. row \in Job /\ row.status = "skipped" /\ row.at = Count + 1 /\ row.verdict = "SKIPPED"
        /\ ~row.delivered
    <3>1. /\ Count + 1 \in 0 .. Cardinality(Request) /\ 1 \in 1 .. Cardinality(Request)
      BY <1>3, Counted
    <3> QED
      BY <3>1 DEF Job, NoJob
  <2>2. Added(r)
    BY <1>3, <2>1 DEF Added
  <2>3. job'[r].status = "skipped"
    BY <1>1, <1>3 DEF TypeOK, NoJob
  <2>4. \E th \in ThreadState : thread' = [thread EXCEPT ![p] = th] /\ th.at = "respond" /\ th.req = r
    BY <1>3, Gone
  <2> QED
    BY <1>1, <1>3, <2>2, <2>3, <2>4, SkippedTyped DEF PostMoves
<1>4. ASSUME job[r].status = "absent", job' = [job EXCEPT ![r] = Row(r, "pending", h)],
             Enqueue(r), Goes(p, "over", None), UNCHANGED record
      PROVE  PostMoves(p)
  <2>1. /\ Row(r, "pending", h) \in Job /\ Row(r, "pending", h).status = "pending"
        /\ Row(r, "pending", h).at = Count + 1 /\ ~Row(r, "pending", h).delivered
    <3>1. /\ Count + 1 \in 0 .. Cardinality(Request)
          /\ Cardinality(Others(r)) + 1 \in 1 .. Cardinality(Request)
      BY <1>4, Counted
    <3>2. (\E q \in Others(r) : job[q].session) \in BOOLEAN
      OBVIOUS
    <3> HIDE DEF Others
    <3> QED
      BY <3>1, <3>2 DEF Job, NoJob, Row
  <2>2. Added(r)
    BY <1>4, <2>1 DEF Added
  <2>3. \E th \in ThreadState : thread' = [thread EXCEPT ![p] = th] /\ th.at = "over"
    BY <1>4, Gone
  <2> QED
    BY <1>1, <1>4, <2>2, <2>3 DEF PostMoves, TypeOK
<1> QED
  BY <1>2, <1>3, <1>4 DEF Insert

LEMMA AcceptMoves ==
  ASSUME Inv, NEW p \in Post, Admit(p) \/ Freeze(p) \/ Replay(p)
  PROVE  /\ PostMoves(p) /\ up # "down" /\ faults' \in 0 .. MaxFaults
         /\ UNCHANGED <<gateVars, head, skips, up, slots, waiting, downs>>
<1>1. TypeOK /\ ThreadsKnow /\ p \in Thread /\ RequestOf[p] \in Request
  BY ReviewAssumption DEF Inv, Thread
<1>2. CASE Admit(p)
  <2> DEFINE r == RequestOf[p]
  <2>1. PICK open \in BOOLEAN :
          /\ GateSeen(r, open)
          /\ IF ~open
               THEN /\ job' = [job EXCEPT ![r] = [NoJob EXCEPT !.status = "failed", !.at = Count + 1]]
                    /\ Goes(p, "over", None) /\ UNCHANGED <<record, chain>>
             ELSE IF TypeOf[r] = "code"
               THEN Goes(p, "derive", r) /\ UNCHANGED <<storeVars, chain>>
             ELSE Insert(p, r, 0)
    BY <1>2 DEF Admit
  <2>2. /\ up # "down" /\ UNCHANGED <<gateVars, head, skips, up, slots, waiting, downs>>
        /\ faults' \in 0 .. MaxFaults /\ job[r].status = "absent"
    BY <1>1, <1>2, <2>1, ReviewAssumption DEF Admit, Yielded, GateSeen, TypeOK
  <2>3. CASE ~open
    <3> DEFINE row == [NoJob EXCEPT !.status = "failed", !.at = Count + 1]
    <3>1. row \in Job /\ row.status = "failed" /\ row.at = Count + 1 /\ ~row.delivered
      <4>1. /\ Count + 1 \in 0 .. Cardinality(Request) /\ 1 \in 1 .. Cardinality(Request)
        BY <1>1, <2>2, Counted
      <4>2. 0 \in Head0
        BY ReviewAssumption DEF Head0
      <4> QED
        BY <4>1, <4>2 DEF Job, NoJob
    <3>2. Added(r)
      BY <2>1, <2>2, <2>3, <3>1 DEF Added
    <3>3. \E th \in ThreadState : thread' = [thread EXCEPT ![p] = th] /\ th.at = "over"
      BY <2>1, <2>3, Gone
    <3> QED
      BY <1>1, <2>1, <2>2, <2>3, <3>2, <3>3 DEF PostMoves, TypeOK
  <2>4. CASE open /\ TypeOf[r] = "code"
    <3>1. \E th \in ThreadState : thread' = [thread EXCEPT ![p] = th] /\ th.at = "derive" /\ th.req = r
      BY <1>1, <2>1, <2>4, Gone
    <3> QED
      BY <1>1, <2>1, <2>2, <2>4, <3>1 DEF PostMoves, TypeOK, storeVars
  <2>5. CASE open /\ TypeOf[r] # "code"
    <3>1. 0 \in Head0 /\ Insert(p, r, 0)
      BY <2>1, <2>5, ReviewAssumption DEF Head0
    <3> QED
      BY <1>1, <2>2, <3>1, InsertMoves
  <2> QED
    BY <2>3, <2>4, <2>5
<1>3. CASE Freeze(p)
  <2> DEFINE r == thread[p].req
  <2>1. PICK h \in Head0 :
          /\ HeadSeen(ExecOf[r], h)
          /\ IF h = 0 THEN Goes(p, "over", None) /\ UNCHANGED <<storeVars, chain>>
             ELSE Insert(p, r, h)
    BY <1>3 DEF Freeze
  <2>2. /\ up # "down" /\ UNCHANGED <<gateVars, head, skips, up, slots, waiting, downs>>
        /\ faults' \in 0 .. MaxFaults /\ r \in Request
    BY <1>1, <1>3, <2>1, ReviewAssumption
      DEF Freeze, Yielded, HeadSeen, TypeOK, ThreadsKnow, Knows, At
  <2>3. CASE h = 0
    <3>1. \E th \in ThreadState : thread' = [thread EXCEPT ![p] = th] /\ th.at = "over"
      BY <2>1, <2>3, Gone
    <3> QED
      BY <1>1, <2>1, <2>2, <2>3, <3>1 DEF PostMoves, TypeOK, storeVars
  <2>4. CASE h # 0
    BY <2>1, <2>2, <2>4, InsertMoves
  <2> QED
    BY <2>3, <2>4
<1>4. CASE Replay(p)
  <2> DEFINE r == RequestOf[p]
  <2>1. up # "down" /\ UNCHANGED <<gateVars, head, skips, up, slots, waiting, downs>>
    BY <1>4 DEF Replay, Yielded
  <2>2. ASSUME Goes(p, "over", None), UNCHANGED storeVars, chain' = chain \/ Enqueue(r)
        PROVE  PostMoves(p)
    <3>1. \E th \in ThreadState : thread' = [thread EXCEPT ![p] = th] /\ th.at = "over"
      BY <2>2, Gone
    <3> QED
      BY <1>1, <2>2, <3>1 DEF PostMoves, TypeOK, storeVars
  <2>3. CASE job[r].status = "pending" /\ Enqueue(r) /\ Goes(p, "over", None)
             /\ UNCHANGED <<storeVars, faults>>
    BY <1>1, <2>1, <2>2, <2>3 DEF TypeOK
  <2>4. ASSUME job[r].status = "failed", Goes(p, "over", None), UNCHANGED storeVars,
               \E open \in BOOLEAN :
                 GateSeen(r, open) /\ IF open THEN Enqueue(r) ELSE UNCHANGED chain
        PROVE  PostMoves(p) /\ faults' \in 0 .. MaxFaults
    BY <1>1, <2>2, <2>4, ReviewAssumption DEF GateSeen, TypeOK
  <2>5. ASSUME job[r].status \in {"done", "skipped"}, ~job[r].delivered,
               IF job[r].status = "skipped" THEN Skipped(r, job[r].head) ELSE UNCHANGED record,
               Goes(p, "respond", r), UNCHANGED <<job, chain, faults>>
        PROVE  PostMoves(p) /\ faults' \in 0 .. MaxFaults
    <3>1. \E th \in ThreadState : thread' = [thread EXCEPT ![p] = th] /\ th.at = "respond" /\ th.req = r
      BY <1>1, <2>5, Gone
    <3>2. job[r].head \in Head0
      BY <1>1 DEF TypeOK, Job
    <3>3. /\ record' \in [Exec -> [1 .. MaxHead -> Request \cup {"skipped", None}]]
          /\ \A e \in Exec, h \in 1 .. MaxHead :
               record'[e][h] = record[e][h] \/ record'[e][h] = "skipped"
      BY <1>1, <2>5, <3>2, SkippedTyped DEF TypeOK
    <3> QED
      BY <1>1, <2>5, <3>1, <3>3 DEF PostMoves, TypeOK
  <2>6. CASE (job[r].status = "running" \/ job[r].delivered) /\ Goes(p, "over", None)
             /\ UNCHANGED <<storeVars, chain, faults>>
    BY <1>1, <2>1, <2>2, <2>6 DEF TypeOK
  <2> QED
    BY <1>4, <2>1, <2>3, <2>4, <2>5, <2>6 DEF Replay
<1> QED
  BY <1>2, <1>3, <1>4

(* Inv after a step, from its parts. *)
LEMMA Assembled ==
  ASSUME Inv, TypeOK', Ledgered, ThreadsKnow', CreationOrder', Scheduled', SlotsBounded',
         up' # "up" => Reviewers' \subseteq Reviewers
  PROVE  Inv'
BY LedgerKept, ReviewersKept DEF Inv

(* A job is enqueued last, where its execution's worker will find it.      *)
LEMMA Enqueued ==
  ASSUME Inv, chain' = chain \/ \E r \in Request : Enqueue(r),
         slots' = slots, waiting' = waiting,
         \A e \in Exec : thread'[e] = thread[e]
  PROVE  chain' \in [Exec -> Seq(Request)] /\ Scheduled'
<1>0. /\ chain \in [Exec -> Seq(Request)] /\ waiting \in Seq(Exec) /\ Scheduled
  BY DEF Inv, TypeOK
<1>1. CASE chain' = chain
  BY <1>0, <1>1 DEF Scheduled
<1>2. ASSUME NEW r \in Request, Enqueue(r)
      PROVE  chain' \in [Exec -> Seq(Request)] /\ Scheduled'
  <2> DEFINE e == ExecOf[r]
  <2>1. e \in Exec /\ chain' = [chain EXCEPT ![e] = Append(@, r)]
    BY <1>2, ReviewAssumption DEF Enqueue
  <2>2. /\ Append(chain[e], r) \in Seq(Request) /\ Append(chain[e], r) # <<>>
        /\ \A i \in 1 .. Len(Append(chain[e], r)) : ExecOf[Append(chain[e], r)[i]] = e
    <3>1. chain[e] \in Seq(Request) /\ \A i \in 1 .. Len(chain[e]) : ExecOf[chain[e][i]] = e
      BY <1>0, <2>1 DEF Scheduled
    <3>2. ASSUME NEW i \in 1 .. Len(Append(chain[e], r))
          PROVE  ExecOf[Append(chain[e], r)[i]] = e
      <4>1. CASE i \in 1 .. Len(chain[e])
        BY <3>1, <4>1
      <4>2. CASE i = Len(chain[e]) + 1
        BY <3>1, <4>2
      <4> QED
        BY <3>1, <4>1, <4>2
    <3> QED
      BY <3>1, <3>2
  <2>3. /\ chain'[e] = Append(chain[e], r) /\ \A k \in Exec \ {e} : chain'[k] = chain[k]
        /\ chain' \in [Exec -> Seq(Request)]
    BY <1>0, <2>1, <2>2
  <2> HIDE DEF e
  <2>4. \A k \in Exec : /\ \A i \in 1 .. Len(chain'[k]) : ExecOf[chain'[k][i]] = k
                        /\ chain[k] # <<>> => chain'[k] # <<>>
    BY <1>0, <2>2, <2>3 DEF Scheduled
  <2>5. \A i \in 1 .. Len(waiting') : thread'[waiting'[i]].at = "waiting"
    BY <1>0 DEF Scheduled
  <2> QED
    BY <1>0, <2>3, <2>4, <2>5 DEF Scheduled
<1> QED
  BY <1>1, <1>2

LEMMA AcceptKeeps ==
  ASSUME Inv, NEW p \in Post, Admit(p) \/ Freeze(p) \/ Replay(p)
  PROVE  Inv' /\ Ledgered
<1>1. /\ PostMoves(p) /\ up # "down" /\ faults' \in 0 .. MaxFaults
      /\ UNCHANGED <<gateVars, head, skips, up, slots, waiting, downs>>
  BY AcceptMoves
<1>2. TypeOK /\ p \in Thread /\ p \notin Exec
  BY ThreadAssumption DEF Inv, Thread
<1>3. PICK th \in ThreadState :
        /\ thread' = [thread EXCEPT ![p] = th]
        /\ th.at \in {"derive", "respond", "over"}
        /\ th.at # "over" => th.req \in Request
        /\ th.at = "respond" => job'[th.req].status \in {"done", "skipped"}
  BY <1>1 DEF PostMoves
<1>4. /\ thread' \in [Thread -> ThreadState] /\ thread'[p] = th
      /\ \A t \in Thread \ {p} : thread'[t] = thread[t]
      /\ \A e \in Exec : thread'[e] = thread[e]
  BY <1>2, <1>3 DEF TypeOK, Thread
<1>5. /\ job' \in [Request -> Job]
      /\ \A r \in Request : job'[r] = job[r] \/ /\ job[r].status = "absent" /\ ~job'[r].delivered
                                                /\ Settled(r)' => job'[r].verdict = "SKIPPED"
  <2>1. CASE job' = job
    BY <1>2, <2>1 DEF TypeOK
  <2>2. ASSUME NEW r \in Request, Added(r)
        PROVE  /\ job' \in [Request -> Job]
               /\ \A q \in Request : job'[q] = job[q] \/ /\ job[q].status = "absent" /\ ~job'[q].delivered
                                                         /\ Settled(q)' => job'[q].verdict = "SKIPPED"
    BY <1>2, <2>2 DEF TypeOK, Added, Settled
  <2> QED
    BY <1>1, <2>1, <2>2 DEF PostMoves
<1>6. chain' \in [Exec -> Seq(Request)] /\ Scheduled'
  BY <1>1, <1>4, Enqueued DEF PostMoves
<1>7. TypeOK'
  BY <1>1, <1>2, <1>4, <1>5, <1>6 DEF TypeOK, PostMoves, gateVars
<1>8. Ledgered
  BY <1>1, <1>5 DEF Ledgered, Lasting, NewAnswers, NewStamps, NewVerdicts, NewRecords,
                    Settled, Final, gateVars, PostMoves
<1>9. ThreadsKnow'
  <2>1. Knows(p)' \/ thread'[p].at \in Resting
    BY <1>3, <1>4 DEF Knows, Settled, Busy, Ending, Resting
  <2>2. \A t \in Thread : thread[t].at \in Busy => job'[thread[t].req].status = "running"
    BY <1>5 DEF Inv, ThreadsKnow, Knows
  <2> QED
    BY <1>4, <1>8, <2>1, <2>2, KnowledgeKept DEF Ledgered
<1>10. CreationOrder'
  BY <1>1, <1>2, AddedNumber, SameNumbers DEF PostMoves, Inv
<1>11. SlotsBounded' /\ Reviewers' = Reviewers
  BY <1>1, <1>4 DEF Inv, SlotsBounded, Reviewers
<1> QED
  BY <1>6, <1>7, <1>8, <1>9, <1>10, <1>11, Assembled

-----------------------------------------------------------------------------
(* The tail: respond, the authority record and the stamp. *)

(* A thread goes on with its job and keeps what it has of the queues.      *)
LEMMA GoesOn ==
  ASSUME Inv, NEW t \in Thread, NEW th \in ThreadState,
         thread' = [thread EXCEPT ![t] = th], UNCHANGED <<queueVars, up>>,
         t \in Exec => thread[t].at \notin {"idle", "waiting"} /\ th.at \notin {"idle", "waiting"}
  PROVE  /\ thread' \in [Thread -> ThreadState] /\ thread'[t] = th
         /\ \A k \in Thread \ {t} : thread'[k] = thread[k]
         /\ Scheduled' /\ SlotsBounded'
<1>0. /\ thread \in [Thread -> ThreadState] /\ waiting \in Seq(Exec) /\ Scheduled /\ SlotsBounded
      /\ chain' = chain /\ slots' = slots /\ waiting' = waiting /\ up' = up
  BY DEF Inv, TypeOK, queueVars
<1>1. /\ thread' \in [Thread -> ThreadState] /\ thread'[t] = th
      /\ \A k \in Thread \ {t} : thread'[k] = thread[k]
  BY <1>0
<1>2. \A e \in Exec : \/ thread'[e] = thread[e]
                      \/ /\ thread[e].at \notin {"idle", "waiting"}
                         /\ thread'[e].at \notin {"idle", "waiting"}
  BY <1>1 DEF Thread
<1>3. \A i \in 1 .. Len(waiting) : waiting[i] \in Exec
  BY <1>0
<1>4. Scheduled'
  <2>1. \A e \in Exec : thread'[e].at # "idle" => chain'[e] # <<>>
    BY <1>0, <1>2 DEF Scheduled
  <2>2. \A i \in 1 .. Len(waiting') : thread'[waiting'[i]].at = "waiting"
    BY <1>0, <1>2, <1>3 DEF Scheduled
  <2>3. \A e \in Exec : thread'[e].at \notin {"idle", "waiting"} => e \in slots'
    BY <1>0, <1>2 DEF Scheduled
  <2> QED
    BY <1>0, <2>1, <2>2, <2>3 DEF Scheduled
<1>5. SlotsBounded'
  BY <1>0, <1>2 DEF SlotsBounded
<1> QED
  BY <1>1, <1>4, <1>5

LEMMA EndKeeps ==
  ASSUME Inv, NEW t \in Thread, thread[t].at \in Ending, End(t), up' = up
  PROVE  /\ chain' \in [Exec -> Seq(Request)]
         /\ slots' \subseteq Exec /\ waiting' \in Seq(Exec)
         /\ thread' \in [Thread -> ThreadState] /\ thread'[t].at \in Resting
         /\ \A k \in Thread \ {t} : thread'[k] = thread[k] \/ thread'[k].at = "ready"
         /\ Scheduled' /\ SlotsBounded'
<1>1. CASE t \in Exec
  <2>1. Leave(t) /\ thread[t].at \notin {"idle", "waiting"}
    BY <1>1 DEF End, Ending
  <2> QED
    BY <1>1, <2>1, LeaveKeeps DEF Idle, Resting
<1>2. CASE t \notin Exec
  <2> DEFINE to == IF t \in Post THEN "over" ELSE "idle"
  <2>1. Goes(t, to, None) /\ UNCHANGED queueVars
    BY <1>2 DEF End
  <2>2. PICK th \in ThreadState : thread' = [thread EXCEPT ![t] = th] /\ th.at = to
    BY <2>1, Gone
  <2>3. /\ chain \in [Exec -> Seq(Request)] /\ slots \subseteq Exec /\ waiting \in Seq(Exec)
    BY DEF Inv, TypeOK
  <2> QED
    BY <1>2, <2>1, <2>2, <2>3, GoesOn DEF queueVars, Resting
<1> QED
  BY <1>1, <1>2

(* Threads that come to rest are no reviewers.                             *)
LEMMA NoNewReviewer ==
  ASSUME NEW t \in Thread, thread'[t].at \notin {"review", "fallback", "again"} \/ t \in Reviewers,
         \A k \in Thread \ {t} : thread'[k] = thread[k] \/ thread'[k].at \in Resting
  PROVE  Reviewers' \subseteq Reviewers
BY DEF Reviewers, Resting, Thread

LEMMA RespondKeeps ==
  ASSUME Inv, NEW t \in Thread, Respond(t)
  PROVE  Inv' /\ Ledgered
<1> DEFINE r == thread[t].req
<1>1. /\ TypeOK /\ thread[t].at = "respond" /\ Knows(t)
      /\ UNCHANGED <<storeVars, closed, head, skips, up, downs, faults>>
  BY DEF Inv, ThreadsKnow, Respond, At
<1>2. r \in Request /\ Settled(r) /\ GateOf[r] \in Gate /\ Ours(r) \in Answer
  <2>1. r \in Request /\ Settled(r)
    BY <1>1 DEF Knows, Ending
  <2> QED
    BY <2>1, ReviewAssumption DEF Inv, JobsShaped, Ours, Answer, Final
<1> HIDE DEF r
<1>3. /\ answer' = (IF IsOpen(r) THEN [answer EXCEPT ![GateOf[r]] = Ours(r)] ELSE answer)
      /\ IF IsOpen(r) \/ Delivered(r) THEN Goes(t, "woken", r) /\ UNCHANGED queueVars ELSE End(t)
  BY DEF Respond, r
<1>4. /\ answer' \in [Gate -> Answer \cup {Foreign, None}]
      /\ \A q \in Gate : answer[q] # None => answer'[q] = answer[q]
      /\ \A q \in Gate : answer'[q] = answer[q] \/ (q = GateOf[r] /\ answer'[q] = Ours(r))
      /\ IsOpen(r) \/ Delivered(r) => answer'[GateOf[r]] = Ours(r)
  BY <1>1, <1>2, <1>3 DEF TypeOK, IsOpen, Delivered
<1>5. Ledgered
  BY <1>1, <1>2, <1>4 DEF Ledgered, Lasting, NewAnswers, NewStamps, NewVerdicts, NewRecords,
                          Settled, storeVars
<1>6. /\ chain' \in [Exec -> Seq(Request)] /\ slots' \subseteq Exec /\ waiting' \in Seq(Exec)
      /\ thread' \in [Thread -> ThreadState]
      /\ thread'[t].at \in Resting \/ /\ thread'[t].at = "woken" /\ thread'[t].req = r
                                      /\ answer'[GateOf[r]] = Ours(r)
      /\ \A k \in Thread \ {t} : thread'[k] = thread[k] \/ thread'[k].at = "ready"
      /\ Scheduled' /\ SlotsBounded'
  <2>1. CASE IsOpen(r) \/ Delivered(r)
    <3>1. PICK th \in ThreadState : thread' = [thread EXCEPT ![t] = th] /\ th.at = "woken" /\ th.req = r
      BY <1>2, <1>3, <2>1, Gone
    <3>2. UNCHANGED <<queueVars, up>>
      BY <1>1, <1>3, <2>1
    <3>3. /\ chain \in [Exec -> Seq(Request)] /\ slots \subseteq Exec /\ waiting \in Seq(Exec)
      BY <1>1 DEF TypeOK
    <3> QED
      BY <1>1, <1>4, <2>1, <3>1, <3>2, <3>3, GoesOn DEF queueVars
  <2>2. CASE ~(IsOpen(r) \/ Delivered(r))
    BY <1>1, <1>3, <2>2, EndKeeps DEF Ending
  <2> QED
    BY <2>1, <2>2
<1>7. TypeOK'
  BY <1>1, <1>4, <1>6 DEF TypeOK, storeVars
<1>8. ThreadsKnow'
  <2>1. job' = job
    BY <1>1 DEF storeVars
  <2>2. thread'[t].at \in Resting \/ Knows(t)'
    BY <1>2, <1>6, <2>1 DEF Knows, Settled, Ours, Busy, Ending
  <2>3. \A k \in Thread : thread[k].at \in Busy => job'[thread[k].req].status = "running"
    BY <2>1 DEF Inv, ThreadsKnow, Knows
  <2> QED
    BY <1>5, <1>6, <2>2, <2>3, KnowledgeKept DEF Ledgered, Resting
<1>9. CreationOrder'
  BY <1>1, SameNumbers DEF storeVars, Inv
<1>10. Reviewers' \subseteq Reviewers
  BY <1>6, NoNewReviewer DEF Resting
<1> QED
  BY <1>5, <1>6, <1>7, <1>8, <1>9, <1>10, Assembled

LEMMA RespondFailsKeeps ==
  ASSUME Inv, NEW t \in Thread, RespondFails(t)
  PROVE  Inv' /\ Ledgered
<1>1. /\ TypeOK /\ thread[t].at = "respond" /\ End(t) /\ faults' \in 0 .. MaxFaults
      /\ UNCHANGED <<storeVars, gateVars, head, skips, up, downs>>
  BY ReviewAssumption DEF Inv, RespondFails, At, TypeOK
<1>2. Ledgered
  BY <1>1 DEF Ledgered, Lasting, NewAnswers, NewStamps, NewVerdicts, NewRecords,
              Settled, storeVars, gateVars
<1>3. /\ chain' \in [Exec -> Seq(Request)] /\ slots' \subseteq Exec /\ waiting' \in Seq(Exec)
      /\ thread' \in [Thread -> ThreadState] /\ thread'[t].at \in Resting
      /\ \A k \in Thread \ {t} : thread'[k] = thread[k] \/ thread'[k].at = "ready"
      /\ Scheduled' /\ SlotsBounded'
  BY <1>1, EndKeeps DEF Ending
<1>4. TypeOK'
  BY <1>1, <1>3 DEF TypeOK, storeVars, gateVars
<1>5. ThreadsKnow'
  <2>1. \A k \in Thread : thread[k].at \in Busy => job'[thread[k].req].status = "running"
    BY <1>1 DEF Inv, ThreadsKnow, Knows, storeVars
  <2> QED
    BY <1>2, <1>3, <2>1, KnowledgeKept DEF Ledgered, Resting
<1>6. CreationOrder'
  BY <1>1, SameNumbers DEF storeVars, Inv
<1>7. Reviewers' \subseteq Reviewers
  BY <1>3, NoNewReviewer DEF Resting
<1> QED
  BY <1>2, <1>3, <1>4, <1>5, <1>6, <1>7, Assembled

LEMMA AuthoriseKeeps ==
  ASSUME Inv, NEW t \in Thread, Authorise(t)
  PROVE  Inv' /\ Ledgered
<1> DEFINE r == thread[t].req
           e == ExecOf[r]
           h == job[r].head
<1>1. /\ TypeOK /\ thread[t].at = "woken" /\ Knows(t)
      /\ UNCHANGED <<job, gateVars, head, skips, up, queueVars, downs, faults>>
  BY DEF Inv, ThreadsKnow, Authorise, At
<1>2. /\ r \in Request /\ Settled(r) /\ answer[GateOf[r]] = Ours(r) /\ e \in Exec /\ h \in Head0
  BY <1>1, ReviewAssumption DEF Knows, Ending, TypeOK, Job
<1>3. /\ record' = IF /\ job[r].verdict = "APPROVED" /\ TypeOf[r] = "code" /\ h # 0
                      /\ record[e][h] # "skipped"
                     THEN [record EXCEPT ![e][h] = r] ELSE record
      /\ Goes(t, "stamp", r)
  BY DEF Authorise
<1> HIDE DEF r, e, h
<1>4. /\ record' \in [Exec -> [1 .. MaxHead -> Request \cup {"skipped", None}]]
      /\ NewRecords
  <2>1. CASE record' = record
    BY <1>1, <2>1 DEF TypeOK, NewRecords
  <2>2. CASE /\ job[r].verdict = "APPROVED" /\ TypeOf[r] = "code" /\ h # 0
             /\ record' = [record EXCEPT ![e][h] = r]
    <3>1. h \in 1 .. MaxHead
      BY <1>2, <2>2, ReviewAssumption DEF Head0
    <3>2. Approves(r, e, h)
      BY <1>2, <2>2 DEF Approves, e, h
    <3> QED
      BY <1>1, <1>2, <2>2, <3>1, <3>2 DEF TypeOK, NewRecords
  <2> QED
    BY <1>3, <2>1, <2>2
<1>5. Ledgered
  BY <1>1, <1>4 DEF Ledgered, Lasting, NewAnswers, NewStamps, NewVerdicts, Settled, gateVars
<1>6. PICK th \in ThreadState : thread' = [thread EXCEPT ![t] = th] /\ th.at = "stamp" /\ th.req = r
  BY <1>2, <1>3, Gone
<1>7. /\ thread' \in [Thread -> ThreadState] /\ thread'[t] = th
      /\ \A k \in Thread \ {t} : thread'[k] = thread[k]
      /\ Scheduled' /\ SlotsBounded'
  BY <1>1, <1>6, GoesOn
<1>8. TypeOK'
  BY <1>1, <1>4, <1>7 DEF TypeOK, gateVars, queueVars
<1>9. ThreadsKnow'
  <2>1. Knows(t)'
    BY <1>1, <1>2, <1>6, <1>7 DEF Knows, Settled, Ours, Busy, Ending, gateVars
  <2>2. \A k \in Thread : thread[k].at \in Busy => job'[thread[k].req].status = "running"
    BY <1>1 DEF Inv, ThreadsKnow, Knows
  <2> QED
    BY <1>5, <1>7, <2>1, <2>2, KnowledgeKept DEF Ledgered
<1>10. CreationOrder'
  BY <1>1, SameNumbers DEF Inv
<1>11. Reviewers' \subseteq Reviewers
  BY <1>6, <1>7, NoNewReviewer
<1> QED
  BY <1>5, <1>7, <1>8, <1>9, <1>10, <1>11, Assembled

LEMMA StampKeeps ==
  ASSUME Inv, NEW t \in Thread, Stamp(t)
  PROVE  Inv' /\ Ledgered
<1> DEFINE r == thread[t].req
<1>1. /\ TypeOK /\ thread[t].at = "stamp" /\ Knows(t) /\ End(t)
      /\ job' = [job EXCEPT ![r].delivered = TRUE]
      /\ UNCHANGED <<record, gateVars, head, skips, up, downs, faults>>
  BY DEF Inv, ThreadsKnow, Stamp, At
<1>2. r \in Request /\ Settled(r) /\ answer[GateOf[r]] = Ours(r)
  BY <1>1 DEF Knows, Ending
<1> HIDE DEF r
<1>3. /\ job' \in [Request -> Job]
      /\ \A q \in Request \ {r} : job'[q] = job[q]
      /\ job'[r] = [job[r] EXCEPT !.delivered = TRUE]
  <2>1. [job[r] EXCEPT !.delivered = TRUE] \in Job
    BY <1>1, <1>2 DEF TypeOK, Job
  <2> QED
    BY <1>1, <1>2, <2>1 DEF TypeOK
<1>4. \A q \in Request : /\ job'[q].status = job[q].status /\ job'[q].verdict = job[q].verdict
                         /\ job'[q].head = job[q].head /\ job'[q].at = job[q].at
                         /\ job[q].delivered => job'[q].delivered
                         /\ job'[q].delivered => job[q].delivered \/ q = r
  BY <1>1, <1>2, <1>3 DEF TypeOK, Job
<1>5. Ledgered
  BY <1>1, <1>2, <1>4 DEF Ledgered, Lasting, NewAnswers, NewStamps, NewVerdicts, NewRecords,
                          Settled, gateVars
<1>6. /\ chain' \in [Exec -> Seq(Request)] /\ slots' \subseteq Exec /\ waiting' \in Seq(Exec)
      /\ thread' \in [Thread -> ThreadState] /\ thread'[t].at \in Resting
      /\ \A k \in Thread \ {t} : thread'[k] = thread[k] \/ thread'[k].at = "ready"
      /\ Scheduled' /\ SlotsBounded'
  BY <1>1, EndKeeps DEF Ending
<1>7. TypeOK'
  BY <1>1, <1>3, <1>6 DEF TypeOK, gateVars
<1>8. ThreadsKnow'
  <2>1. \A k \in Thread : thread[k].at \in Busy => job'[thread[k].req].status = "running"
    BY <1>4 DEF Inv, ThreadsKnow, Knows
  <2> QED
    BY <1>5, <1>6, <2>1, KnowledgeKept DEF Ledgered, Resting
<1>9. CreationOrder'
  BY <1>4, SameNumbers DEF Inv
<1>10. Reviewers' \subseteq Reviewers
  BY <1>6, NoNewReviewer DEF Resting
<1> QED
  BY <1>5, <1>6, <1>7, <1>8, <1>9, <1>10, Assembled

-----------------------------------------------------------------------------
(* The worker. *)

(* A worker at its job: the job fails, gets its verdict, or is gone on     *)
(* with.                                                                   *)
GoesOnWithJob(e) ==
  /\ UNCHANGED <<job, queueVars>>
  /\ \E th \in ThreadState :
       /\ thread' = [thread EXCEPT ![e] = th] /\ th.req = thread[e].req
       /\ \/ th.at = "recheck" /\ th.verdict \in Verdict
          \/ th.at \in {"fallback", "again"} /\ e \in Reviewers

WorkMoves(e) ==
  /\ thread[e].at \in Busy
  /\ Fail(e) \/ (\E v \in Verdict : Complete(e, v)) \/ GoesOnWithJob(e)
  /\ faults' \in 0 .. MaxFaults
  /\ UNCHANGED <<record, gateVars, head, skips, up, downs>>

LEMMA WorkKeeps ==
  ASSUME Inv, NEW e \in Exec, WorkMoves(e)
  PROVE  Inv' /\ Ledgered
<1>1. /\ TypeOK /\ thread[e].at \in Busy /\ Knows(e) /\ e \in Thread
      /\ faults' \in 0 .. MaxFaults /\ UNCHANGED <<record, gateVars, head, skips, up, downs>>
  BY DEF Inv, ThreadsKnow, WorkMoves, Thread
<1>2. PICK r \in Request : /\ r = thread[e].req /\ ExecOf[r] = e
                         /\ job[r].status = "running" /\ ~Settled(r) /\ ~job[r].delivered
  BY <1>1 DEF Knows, Settled, Inv, JobsShaped
<1>3. \/ Fail(e)
      \/ \E v \in Verdict : Complete(e, v)
      \/ GoesOnWithJob(e)
  BY DEF WorkMoves
<1>4. job[r] \in Job
  BY <1>1 DEF TypeOK
(* The row of the job, the only one that can change.                       *)
<1>5. /\ job' \in [Request -> Job]
      /\ \A q \in Request \ {r} : job'[q] = job[q]
      /\ job'[r].status # "absent" /\ job'[r].at = job[r].at /\ ~job'[r].delivered
      /\ Settled(r)' => job'[r].verdict \in Final
  <2>1. CASE Fail(e)
    <3>1. job' = [job EXCEPT ![r] = [job[r] EXCEPT !.status = "failed"]]
      BY <1>1, <1>2, <2>1 DEF Fail, Settled, TypeOK
    <3>2. job[r] \in Job /\ [job[r] EXCEPT !.status = "failed"] \in Job
      BY <1>4 DEF Job
    <3> QED
      BY <1>1, <1>2, <3>1, <3>2 DEF TypeOK, Job, Settled
  <2>2. ASSUME NEW v \in Verdict, Complete(e, v)
        PROVE  /\ job' \in [Request -> Job]
               /\ \A q \in Request \ {r} : job'[q] = job[q]
               /\ job'[r].status # "absent" /\ job'[r].at = job[r].at /\ ~job'[r].delivered
               /\ Settled(r)' => job'[r].verdict \in Final
    <3>1. job' = [job EXCEPT ![r] = [job[r] EXCEPT !.status = "done", !.verdict = v]]
      BY <1>1, <1>2, <2>2 DEF Complete, TypeOK
    <3>2. /\ [job[r] EXCEPT !.status = "done", !.verdict = v] \in Job
          /\ [job[r] EXCEPT !.status = "done", !.verdict = v].verdict = v
      BY <1>4 DEF Job
    <3> QED
      BY <1>1, <1>2, <3>1, <3>2 DEF TypeOK, Job, Settled, Final
  <2>3. CASE GoesOnWithJob(e)
    BY <1>1, <1>2, <2>3 DEF GoesOnWithJob, TypeOK, Settled
  <2> QED
    BY <1>3, <2>1, <2>2, <2>3
<1>6. Ledgered
  BY <1>1, <1>2, <1>5 DEF Ledgered, Lasting, NewAnswers, NewStamps, NewVerdicts, NewRecords,
                          Settled, gateVars
(* Its thread and the queues.                                              *)
<1>7. /\ chain' \in [Exec -> Seq(Request)] /\ slots' \subseteq Exec /\ waiting' \in Seq(Exec)
      /\ thread' \in [Thread -> ThreadState]
      /\ \A k \in Thread \ {e} : thread'[k] = thread[k] \/ thread'[k].at = "ready"
      /\ Scheduled' /\ SlotsBounded'
      /\ \/ thread'[e].at = "idle"
         \/ thread'[e].at = "respond" /\ thread'[e].req = r /\ Settled(r)'
         \/ /\ thread'[e].req = r /\ job' = job
            /\ \/ thread'[e].at = "recheck" /\ thread'[e].verdict \in Verdict
               \/ thread'[e].at \in {"fallback", "again"} /\ e \in Reviewers
  <2>0. /\ chain \in [Exec -> Seq(Request)] /\ slots \subseteq Exec /\ waiting \in Seq(Exec)
        /\ thread[e].at \notin {"idle", "waiting"}
    BY <1>1 DEF TypeOK, Busy
  <2>1. CASE Fail(e)
    BY <1>1, <2>0, <2>1, LeaveKeeps DEF Fail, Idle
  <2>2. CASE \E v \in Verdict : Complete(e, v)
    <3>0. PICK v \in Verdict : Complete(e, v)
      BY <2>2
    <3>1. Goes(e, "respond", r) /\ UNCHANGED <<queueVars, up>>
      BY <1>1, <1>2, <3>0 DEF Complete
    <3>2. PICK th \in ThreadState : thread' = [thread EXCEPT ![e] = th] /\ th.at = "respond" /\ th.req = r
      BY <1>2, <3>1, Gone
    <3>3. Settled(r)'
      BY <1>1, <1>2, <3>0 DEF Complete, Settled, TypeOK
    <3> QED
      BY <1>1, <2>0, <3>1, <3>2, <3>3, GoesOn DEF queueVars
  <2>3. CASE GoesOnWithJob(e)
    <3>1. PICK th \in ThreadState :
            /\ thread' = [thread EXCEPT ![e] = th] /\ th.req = r
            /\ \/ th.at = "recheck" /\ th.verdict \in Verdict
               \/ th.at \in {"fallback", "again"} /\ e \in Reviewers
      BY <1>2, <2>3 DEF GoesOnWithJob
    <3>2. UNCHANGED <<job, queueVars, up>>
      BY <1>1, <2>3 DEF GoesOnWithJob
    <3> QED
      BY <1>1, <2>0, <3>1, <3>2, GoesOn DEF queueVars
  <2> QED
    BY <1>3, <2>1, <2>2, <2>3
<1>8. TypeOK'
  BY <1>1, <1>5, <1>7 DEF TypeOK, gateVars
<1>9. ThreadsKnow'
  <2>1. thread'[e].at \in Resting \/ Knows(e)'
    BY <1>2, <1>7 DEF Knows, Settled, Busy, Ending, Resting
  <2>2. \A k \in Thread \ {e} : thread[k].at \in Busy => job'[thread[k].req].status = "running"
    BY <1>2, <1>5 DEF Inv, ThreadsKnow, Knows
  <2> QED
    BY <1>6, <1>7, <2>1, <2>2, KnowledgeKept DEF Ledgered, Resting
<1>10. CreationOrder'
  BY <1>2, <1>5, SameNumbers DEF Inv
<1>11. Reviewers' \subseteq Reviewers
  BY <1>1, <1>7, NoNewReviewer DEF Resting
<1> QED
  BY <1>6, <1>7, <1>8, <1>9, <1>10, <1>11, Assembled

(* Every step of a worker at its job is of this kind.                      *)
LEMMA FaultsTyped ==
  ASSUME TypeOK, NEW open, NEW r, GateSeen(r, open) \/ HeadSeen(r, open)
  PROVE  faults' \in 0 .. MaxFaults
BY ReviewAssumption DEF TypeOK, GateSeen, HeadSeen

LEMMA ReviewMoves ==
  ASSUME Inv, NEW e \in Exec,
         ReviewFails(e) \/ SessionLost(e) \/ Fallback(e) \/ ReviewEnds(e) \/ Recheck(e)
  PROVE  WorkMoves(e)
<1> DEFINE r == thread[e].req
<1>1. TypeOK /\ Knows(e) /\ e \in Thread
  BY DEF Inv, ThreadsKnow, Thread
<1>2. ASSUME NEW to \in {"fallback", "again"}, thread[e].at \in {"review", "fallback"},
             Goes(e, to, r), UNCHANGED <<job, queueVars>>
      PROVE  GoesOnWithJob(e)
  <2>1. r \in Request /\ e \in Reviewers
    BY <1>1, <1>2 DEF Knows, Busy, Reviewers
  <2>2. PICK th \in ThreadState : thread' = [thread EXCEPT ![e] = th] /\ th.at = to /\ th.req = r
    BY <1>2, <2>1, Gone
  <2> QED
    BY <1>2, <2>1, <2>2 DEF GoesOnWithJob
<1>3. CASE ReviewFails(e)
  BY <1>1, <1>3 DEF ReviewFails, WorkMoves, Busy, TypeOK
<1>4. CASE SessionLost(e)
  <2>1. PICK open \in BOOLEAN :
          /\ GateSeen(r, open)
          /\ IF open THEN /\ Goes(e, IF TypeOf[r] = "code" THEN "fallback" ELSE "again", r)
                          /\ UNCHANGED <<job, queueVars>>
             ELSE Fail(e)
    BY <1>4 DEF SessionLost
  <2>2. thread[e].at = "review" /\ UNCHANGED <<record, gateVars, head, skips, up, downs>>
    BY <1>4 DEF SessionLost, At
  <2>3. faults' \in 0 .. MaxFaults
    BY <1>1, <2>1, FaultsTyped
  <2>4. Fail(e) \/ GoesOnWithJob(e)
    BY <1>2, <2>1, <2>2
  <2> QED
    BY <2>2, <2>3, <2>4 DEF WorkMoves, Busy
<1>5. CASE Fallback(e)
  <2>1. PICK h \in Head0 :
          /\ HeadSeen(e, h)
          /\ IF h # 0 /\ h = job[r].head
               THEN Goes(e, "again", r) /\ UNCHANGED <<job, queueVars>> ELSE Fail(e)
    BY <1>5 DEF Fallback
  <2>2. thread[e].at = "fallback" /\ UNCHANGED <<record, gateVars, head, skips, up, downs>>
    BY <1>5 DEF Fallback, At
  <2>3. faults' \in 0 .. MaxFaults
    BY <1>1, <2>1, FaultsTyped
  <2>4. Fail(e) \/ GoesOnWithJob(e)
    BY <1>2, <2>1, <2>2
  <2> QED
    BY <2>2, <2>3, <2>4 DEF WorkMoves, Busy
<1>6. CASE ReviewEnds(e)
  <2>1. PICK v \in Verdict, open \in BOOLEAN :
          /\ GateSeen(r, open)
          /\ IF ~open THEN Fail(e)
             ELSE IF TypeOf[r] = "design" THEN Complete(e, v)
             ELSE /\ thread' = [thread EXCEPT ![e] = [Idle EXCEPT !.at = "recheck", !.req = r, !.verdict = v]]
                  /\ UNCHANGED <<job, queueVars>>
    BY <1>6 DEF ReviewEnds
  <2>2. thread[e].at \in {"review", "again"} /\ UNCHANGED <<record, gateVars, head, skips, up, downs>>
    BY <1>6 DEF ReviewEnds
  <2>3. faults' \in 0 .. MaxFaults
    BY <1>1, <2>1, FaultsTyped
  <2>4. ASSUME thread' = [thread EXCEPT ![e] = [Idle EXCEPT !.at = "recheck", !.req = r, !.verdict = v]],
               UNCHANGED <<job, queueVars>>
        PROVE  GoesOnWithJob(e)
    <3> DEFINE th == [Idle EXCEPT !.at = "recheck", !.req = r, !.verdict = v]
    <3>1. r \in Request
      BY <1>1, <2>2 DEF Knows, Busy
    <3>2. th \in ThreadState /\ th.at = "recheck" /\ th.req = r /\ th.verdict = v
      BY <3>1 DEF Idle, ThreadState
    <3> HIDE DEF th
    <3> QED
      BY <2>4, <3>2 DEF GoesOnWithJob, th
  <2>5. Fail(e) \/ (\E w \in Verdict : Complete(e, w)) \/ GoesOnWithJob(e)
    BY <2>1, <2>4
  <2> QED
    BY <2>2, <2>3, <2>5 DEF WorkMoves, Busy
<1>7. CASE Recheck(e)
  <2>1. PICK h \in Head0, echo \in BOOLEAN :
          /\ HeadSeen(e, h)
          /\ IF h # 0 /\ h = job[r].head /\ echo THEN Complete(e, thread[e].verdict) ELSE Fail(e)
    BY <1>7 DEF Recheck
  <2>2. thread[e].at = "recheck" /\ UNCHANGED <<record, gateVars, head, skips, up, downs>>
    BY <1>7 DEF Recheck, At
  <2>3. faults' \in 0 .. MaxFaults
    BY <1>1, <2>1, FaultsTyped
  <2>4. Fail(e) \/ \E v \in Verdict : Complete(e, v)
    BY <1>1, <2>1, <2>2 DEF Knows
  <2> QED
    BY <2>2, <2>3, <2>4 DEF WorkMoves, Busy
<1> QED
  BY <1>3, <1>4, <1>5, <1>6, <1>7

(* A worker takes the next job of its chain, a slot, or a place in line.   *)
LEMMA BeginKeeps ==
  ASSUME Inv, NEW e \in Exec, Begin(e)
  PROVE  Inv' /\ Ledgered
<1>1. /\ TypeOK /\ Scheduled /\ SlotsBounded /\ thread[e].at = "idle" /\ chain[e] # <<>> /\ up # "down"
      /\ e \in Thread /\ e \in Exec /\ UNCHANGED <<storeVars, gateVars, head, skips, up, downs, faults>>
  BY DEF Inv, Begin, At, Yielded, Thread
<1>2. /\ chain \in [Exec -> Seq(Request)] /\ slots \subseteq Exec /\ waiting \in Seq(Exec)
      /\ thread \in [Thread -> ThreadState] /\ IsFiniteSet(slots) /\ Cardinality(slots) \in Nat
  BY <1>1, SlotsFinite DEF TypeOK
<1>3. Ledgered
  BY <1>1 DEF Ledgered, Lasting, NewAnswers, NewStamps, NewVerdicts, NewRecords,
              Settled, storeVars, gateVars
<1>4. /\ chain' \in [Exec -> Seq(Request)] /\ slots' \subseteq Exec /\ waiting' \in Seq(Exec)
      /\ thread' \in [Thread -> ThreadState] /\ thread'[e].at \in Resting
      /\ \A k \in Thread \ {e} : thread'[k] = thread[k]
      /\ Scheduled' /\ SlotsBounded'
  <2>1. CASE /\ up = "stopping" /\ chain' = [chain EXCEPT ![e] = Tail(@)]
             /\ UNCHANGED <<thread, slots, waiting>>
    <3>1. /\ Tail(chain[e]) \in Seq(Request)
          /\ \A i \in 1 .. Len(Tail(chain[e])) : Tail(chain[e])[i] = chain[e][i + 1]
                                                /\ i + 1 \in 1 .. Len(chain[e])
      BY <1>1, <1>2
    <3>2. /\ chain' \in [Exec -> Seq(Request)] /\ chain'[e] = Tail(chain[e])
          /\ \A k \in Exec \ {e} : chain'[k] = chain[k]
      BY <1>2, <2>1, <3>1
    <3>3. \A k \in Exec : \A i \in 1 .. Len(chain'[k]) : ExecOf[chain'[k][i]] = k
      <4> TAKE k \in Exec
      <4> TAKE i \in 1 .. Len(chain'[k])
      <4>1. CASE k = e
        <5>1. i \in 1 .. Len(Tail(chain[e])) /\ chain'[k][i] = Tail(chain[e])[i]
          BY <3>2, <4>1
        <5>2. chain'[k][i] = chain[e][i + 1] /\ i + 1 \in 1 .. Len(chain[e])
          BY <3>1, <5>1
        <5> QED
          BY <1>1, <4>1, <5>2 DEF Scheduled
      <4>2. CASE k # e
        BY <1>1, <3>2, <4>2 DEF Scheduled
      <4> QED
        BY <4>1, <4>2
    <3>4. \A k \in Exec : thread'[k].at # "idle" => chain'[k] # <<>>
      BY <1>1, <2>1, <3>2 DEF Scheduled
    <3>5. Scheduled'
      BY <1>1, <2>1, <3>3, <3>4 DEF Scheduled
    <3>6. SlotsBounded'
      BY <1>1, <2>1 DEF SlotsBounded
    <3> QED
      BY <1>1, <1>2, <2>1, <3>2, <3>5, <3>6 DEF Resting
  <2>2. CASE /\ up = "up" /\ Cardinality(slots) < MaxConcurrent
             /\ slots' = slots \cup {e} /\ Goes(e, "ready", None) /\ UNCHANGED <<chain, waiting>>
    <3>1. PICK th \in ThreadState : thread' = [thread EXCEPT ![e] = th] /\ th.at = "ready"
      BY <2>2, Gone
    <3>2. /\ thread' \in [Thread -> ThreadState] /\ thread'[e] = th
          /\ \A k \in Thread \ {e} : thread'[k] = thread[k]
      BY <1>1, <1>2, <3>1
    <3>3. /\ Cardinality(slots \cup {e}) = IF e \in slots THEN Cardinality(slots)
                                           ELSE Cardinality(slots) + 1
      BY <1>2, FS_AddElement
    <3>4. SlotsBounded'
      BY <1>1, <1>2, <2>2, <3>3, ReviewAssumption DEF SlotsBounded
    <3>5. \A k \in Exec : /\ thread'[k].at # "idle" => chain'[k] # <<>>
                          /\ thread'[k].at \notin {"idle", "waiting"} => k \in slots'
      BY <1>1, <2>2, <3>2 DEF Scheduled, Thread
    <3>6. \A i \in 1 .. Len(waiting) : thread'[waiting[i]].at = "waiting"
      <4> TAKE i \in 1 .. Len(waiting)
      <4>1. thread[waiting[i]].at = "waiting" /\ waiting[i] \in Thread
        BY <1>1, <1>2 DEF Scheduled, Thread
      <4> QED
        BY <1>1, <3>2, <4>1
    <3>7. Scheduled'
      BY <1>1, <2>2, <3>5, <3>6 DEF Scheduled
    <3> QED
      BY <1>1, <1>2, <2>2, <3>1, <3>2, <3>4, <3>7 DEF Resting
  <2>3. CASE /\ up = "up" /\ Cardinality(slots) >= MaxConcurrent
             /\ waiting' = Append(waiting, e) /\ Goes(e, "waiting", None) /\ UNCHANGED <<chain, slots>>
    <3>1. PICK th \in ThreadState : thread' = [thread EXCEPT ![e] = th] /\ th.at = "waiting"
      BY <2>3, Gone
    <3>2. /\ thread' \in [Thread -> ThreadState] /\ thread'[e] = th
          /\ \A k \in Thread \ {e} : thread'[k] = thread[k]
      BY <1>1, <1>2, <3>1
    <3>3. SlotsBounded'
      BY <1>1, <2>3 DEF SlotsBounded
    <3>4. \A i \in 1 .. Len(waiting) : thread[waiting[i]].at = "waiting" /\ waiting[i] \in Thread \ {e}
      BY <1>1, <1>2 DEF Scheduled, Thread
    <3>5. /\ waiting' \in Seq(Exec) /\ Len(waiting') = Len(waiting) + 1 /\ Len(waiting) \in Nat
          /\ waiting'[Len(waiting) + 1] = e
          /\ \A i \in 1 .. Len(waiting) : waiting'[i] = waiting[i]
      BY <1>2, <2>3
    <3>6. \A i \in 1 .. Len(waiting') : i \in 1 .. Len(waiting) \/ i = Len(waiting) + 1
      BY <3>5
    <3>7. \A i \in 1 .. Len(waiting') : thread'[waiting'[i]].at = "waiting"
      BY <3>1, <3>2, <3>4, <3>5, <3>6
    <3>8. \A i, k \in 1 .. Len(waiting') : waiting'[i] = waiting'[k] => i = k
      BY <1>1, <3>4, <3>5, <3>6 DEF Scheduled
    <3>9. \A k \in Exec : /\ thread'[k].at # "idle" => chain'[k] # <<>>
                          /\ thread'[k].at \notin {"idle", "waiting"} => k \in slots'
      BY <1>1, <2>3, <3>1, <3>2 DEF Scheduled, Thread
    <3>10. Scheduled'
      BY <1>1, <2>3, <3>7, <3>8, <3>9 DEF Scheduled
    <3> QED
      BY <1>1, <1>2, <2>3, <3>1, <3>2, <3>3, <3>5, <3>10 DEF Resting
  <2> QED
    BY <2>1, <2>2, <2>3 DEF Begin
<1>5. TypeOK'
  BY <1>1, <1>4 DEF TypeOK, storeVars, gateVars
<1>6. ThreadsKnow'
  <2>1. \A k \in Thread : thread[k].at \in Busy => job'[thread[k].req].status = "running"
    BY <1>1 DEF Inv, ThreadsKnow, Knows, storeVars
  <2> QED
    BY <1>3, <1>4, <2>1, KnowledgeKept DEF Ledgered
<1>7. CreationOrder'
  BY <1>1, SameNumbers DEF storeVars, Inv
<1>8. Reviewers' \subseteq Reviewers
  BY <1>1, <1>4, NoNewReviewer DEF Resting
<1> QED
  BY <1>3, <1>4, <1>5, <1>6, <1>7, <1>8, Assembled

(* A worker with a slot claims its job, or leaves.                         *)
LEMMA ClaimKeeps ==
  ASSUME Inv, NEW e \in Exec, Claim(e)
  PROVE  Inv' /\ Ledgered
<1>1. /\ TypeOK /\ Scheduled /\ SlotsBounded /\ thread[e].at = "ready" /\ e \in Thread
      /\ UNCHANGED <<record, gateVars, head, skips, up, downs, faults>>
  BY DEF Inv, Claim, At, Thread
<1>2. /\ chain \in [Exec -> Seq(Request)] /\ slots \subseteq Exec /\ waiting \in Seq(Exec)
      /\ thread \in [Thread -> ThreadState] /\ chain[e] # <<>>
  BY <1>1 DEF TypeOK, Scheduled
<1>3. PICK r \in Request : r = Head(chain[e]) /\ ExecOf[r] = e
  <2>1. Head(chain[e]) \in Request /\ Head(chain[e]) = chain[e][1] /\ 1 \in 1 .. Len(chain[e])
    BY <1>2
  <2> QED
    BY <1>1, <2>1 DEF Scheduled
<1>4. CASE Leave(e) /\ UNCHANGED job
  <2>1. Ledgered
    BY <1>1, <1>4 DEF Ledgered, Lasting, NewAnswers, NewStamps, NewVerdicts, NewRecords,
                      Settled, gateVars
  <2>2. /\ chain' \in [Exec -> Seq(Request)] /\ slots' \subseteq Exec /\ waiting' \in Seq(Exec)
        /\ thread' \in [Thread -> ThreadState] /\ thread'[e].at = "idle"
        /\ \A k \in Thread \ {e} : thread'[k] = thread[k] \/ thread'[k].at = "ready"
        /\ Scheduled' /\ SlotsBounded'
    BY <1>1, <1>4, LeaveKeeps DEF Idle
  <2>3. TypeOK'
    BY <1>1, <1>4, <2>2 DEF TypeOK, gateVars
  <2>4. ThreadsKnow'
    <3>1. \A k \in Thread : thread[k].at \in Busy => job'[thread[k].req].status = "running"
      BY <1>4 DEF Inv, ThreadsKnow, Knows
    <3> QED
      BY <2>1, <2>2, <3>1, KnowledgeKept DEF Ledgered, Resting
  <2>5. CreationOrder'
    BY <1>4, SameNumbers DEF Inv
  <2>6. Reviewers' \subseteq Reviewers
    BY <1>1, <2>2, NoNewReviewer DEF Resting
  <2> QED
    BY <2>1, <2>2, <2>3, <2>4, <2>5, <2>6, Assembled
<1>5. CASE /\ up = "up" /\ job[r].status \in {"pending", "failed"}
           /\ job' = [job EXCEPT ![r].status = "running", ![r].session = TRUE]
           /\ thread' = [thread EXCEPT ![e] = [Idle EXCEPT !.at = "review", !.req = r,
                             !.resume = job[r].round > 1 /\ job[r].session]]
           /\ UNCHANGED queueVars
  <2> DEFINE row == [job[r] EXCEPT !.status = "running", !.session = TRUE]
             th == [Idle EXCEPT !.at = "review", !.req = r,
                                !.resume = job[r].round > 1 /\ job[r].session]
  <2>1. job[r] \in Job
    BY <1>1 DEF TypeOK
  <2>2. row \in Job /\ row.status = "running" /\ row.at = job[r].at /\ row.delivered = job[r].delivered
    BY <2>1 DEF Job
  <2>3. th \in ThreadState /\ th.at = "review" /\ th.req = r
    BY <2>1 DEF ThreadState, Idle
  <2>4. job' = [job EXCEPT ![r] = row] /\ thread' = [thread EXCEPT ![e] = th]
    BY <1>1, <1>5 DEF TypeOK
  <2> HIDE DEF row, th
  <2>5. /\ job' \in [Request -> Job] /\ job'[r] = row
        /\ \A q \in Request \ {r} : job'[q] = job[q]
    BY <1>1, <2>2, <2>4 DEF TypeOK
  <2>6. ~Settled(r) /\ ~job[r].delivered
    BY <1>5 DEF Settled, Inv, JobsShaped
  <2>7. Ledgered
    BY <1>1, <2>2, <2>5, <2>6 DEF Ledgered, Lasting, NewAnswers, NewStamps, NewVerdicts, NewRecords,
                                  Settled, gateVars
  <2>8. /\ thread' \in [Thread -> ThreadState] /\ thread'[e] = th
        /\ \A k \in Thread \ {e} : thread'[k] = thread[k]
        /\ Scheduled' /\ SlotsBounded'
    BY <1>1, <1>5, <2>3, <2>4, GoesOn
  <2>9. TypeOK'
    BY <1>1, <1>5, <2>5, <2>8 DEF TypeOK, gateVars, queueVars
  <2>10. ThreadsKnow'
    <3>1. Knows(e)'
      BY <1>3, <2>2, <2>3, <2>5, <2>8 DEF Knows, Busy, Ending
    <3>2. \A k \in Thread : thread[k].at \in Busy => job'[thread[k].req].status = "running"
      BY <2>2, <2>5 DEF Inv, ThreadsKnow, Knows
    <3> QED
      BY <2>7, <2>8, <3>1, <3>2, KnowledgeKept DEF Ledgered
  <2>11. CreationOrder'
    BY <1>5, <2>2, <2>5, SameNumbers DEF Inv
  <2>12. up' = "up"
    BY <1>1, <1>5
  <2> QED
    BY <2>7, <2>8, <2>9, <2>10, <2>11, <2>12, Assembled
<1> QED
  BY <1>3, <1>4, <1>5 DEF Claim

-----------------------------------------------------------------------------
(* The bridge goes down and comes back; the other processes.               *)

LEMMA StopKeeps ==
  ASSUME Inv, Stop
  PROVE  Inv' /\ Ledgered
<1> DEFINE drained == {waiting[i] : i \in DOMAIN waiting}
<1>1. /\ TypeOK /\ Scheduled /\ up = "up" /\ up' = "stopping"
      /\ slots' = slots \cup drained /\ waiting' = <<>>
      /\ thread' = [t \in Thread |-> IF t \in drained THEN [Idle EXCEPT !.at = "ready"] ELSE thread[t]]
      /\ UNCHANGED <<storeVars, gateVars, head, skips, chain, downs, faults>>
  BY DEF Inv, Stop
<1>2. /\ drained \subseteq Exec
      /\ \A e \in drained : thread[e].at = "waiting" /\ e \in Thread
  <2>1. waiting \in Seq(Exec) /\ DOMAIN waiting = 1 .. Len(waiting)
    BY <1>1 DEF TypeOK
  <2> QED
    BY <1>1, <2>1 DEF Scheduled, Thread
<1> HIDE DEF drained
<1>3. /\ [Idle EXCEPT !.at = "ready"] \in ThreadState /\ [Idle EXCEPT !.at = "ready"].at = "ready"
  BY DEF Idle, ThreadState
<1>4. /\ thread' \in [Thread -> ThreadState]
      /\ \A t \in Thread : \/ t \notin drained /\ thread'[t] = thread[t]
                           \/ t \in drained /\ thread'[t].at = "ready"
  BY <1>1, <1>3 DEF TypeOK
<1>5. TypeOK'
  <2>1. waiting' \in Seq(Exec)
    BY <1>1
  <2> QED
    BY <1>1, <1>2, <1>4, <2>1 DEF TypeOK, storeVars, gateVars
<1>6. Ledgered
  BY <1>1 DEF Ledgered, Lasting, NewAnswers, NewStamps, NewVerdicts, NewRecords,
              Settled, storeVars, gateVars
<1>7. ThreadsKnow'
  <2>1. \A k \in Thread : thread[k].at \in Busy => job'[thread[k].req].status = "running"
    BY <1>1 DEF Inv, ThreadsKnow, Knows, storeVars
  <2> QED
    BY <1>4, <1>6, <2>1, KnowledgeKept DEF Ledgered, Resting
<1>8. CreationOrder'
  BY <1>1, SameNumbers DEF storeVars, Inv
<1>9. Scheduled'
  <2>1. Len(waiting') = 0
    BY <1>1
  <2>2. \A e \in Exec : /\ thread'[e].at # "idle" => chain'[e] # <<>>
                        /\ thread'[e].at \notin {"idle", "waiting"} => e \in slots'
    BY <1>1, <1>2, <1>4 DEF Scheduled, Thread
  <2> QED
    BY <1>1, <2>1, <2>2 DEF Scheduled
<1>10. SlotsBounded'
  BY <1>1 DEF SlotsBounded
<1>11. Reviewers' \subseteq Reviewers
  BY <1>4 DEF Reviewers, Thread
<1> QED
  BY <1>5, <1>6, <1>7, <1>8, <1>9, <1>10, <1>11, Assembled

LEMMA DieKeeps ==
  ASSUME Inv, Die
  PROVE  Inv' /\ Ledgered
<1>1. /\ TypeOK /\ up' = "down" /\ downs' \in 0 .. MaxDown
      /\ thread' = [t \in Thread |-> IF t \in Post /\ thread[t].at # "idle"
                                       THEN [Idle EXCEPT !.at = "over"] ELSE Idle]
      /\ chain' = [e \in Exec |-> <<>>] /\ slots' = {} /\ waiting' = <<>>
      /\ UNCHANGED <<storeVars, gateVars, head, skips, faults>>
  BY ReviewAssumption DEF Inv, Die, TypeOK
<1>2. /\ [Idle EXCEPT !.at = "over"] \in ThreadState /\ [Idle EXCEPT !.at = "over"].at = "over"
      /\ Idle \in ThreadState /\ Idle.at = "idle"
  BY DEF Idle, ThreadState
<1>3. /\ thread' \in [Thread -> ThreadState]
      /\ \A t \in Thread : thread'[t].at \in {"over", "idle"}
      /\ \A e \in Exec : thread'[e].at = "idle"
  <2> DEFINE over == [Idle EXCEPT !.at = "over"]
  <2>1. /\ thread' = [t \in Thread |-> IF t \in Post /\ thread[t].at # "idle" THEN over ELSE Idle]
        /\ over \in ThreadState /\ over.at = "over"
    BY <1>1, <1>2
  <2> HIDE DEF over
  <2>2. thread' \in [Thread -> ThreadState]
    <3> DEFINE of(t) == IF t \in Post /\ thread[t].at # "idle" THEN over ELSE Idle
    <3>1. \A t \in Thread : of(t) \in ThreadState
      BY <1>2, <2>1
    <3>2. thread' = [t \in Thread |-> of(t)]
      BY <2>1
    <3> HIDE DEF of
    <3> QED
      BY <3>1, <3>2
  <2>3. \A t \in Thread : thread'[t] = IF t \in Post /\ thread[t].at # "idle" THEN over ELSE Idle
    BY <2>1
  <2>4. \A e \in Exec : e \in Thread /\ e \notin Post
    BY ThreadAssumption DEF Thread
  <2>5. \A t \in Thread : thread'[t].at \in {"over", "idle"}
    <3> TAKE t \in Thread
    <3>1. thread'[t] = over \/ thread'[t] = Idle
      BY <2>3
    <3> QED
      BY <1>2, <2>1, <3>1
  <2>6. \A e \in Exec : thread'[e] = Idle
    BY <2>3, <2>4
  <2> QED
    BY <1>2, <2>2, <2>5, <2>6
<1>4. TypeOK'
  <2>1. chain' \in [Exec -> Seq(Request)] /\ waiting' \in Seq(Exec) /\ slots' \subseteq Exec
    BY <1>1
  <2>2. UNCHANGED <<job, record, answer, closed, head, skips, faults>>
    BY <1>1 DEF storeVars, gateVars
  <2>3. up' = "down" /\ downs' \in 0 .. MaxDown
    BY <1>1
  <2> QED
    BY <1>1, <1>3, <2>1, <2>2, <2>3 DEF TypeOK
<1>5. Ledgered
  BY <1>1 DEF Ledgered, Lasting, NewAnswers, NewStamps, NewVerdicts, NewRecords,
              Settled, storeVars, gateVars
<1>6. ThreadsKnow'
  BY <1>3, <1>5, KnowledgeKept DEF Ledgered, Resting
<1>7. CreationOrder'
  BY <1>1, SameNumbers DEF storeVars, Inv
<1>8. Scheduled' /\ SlotsBounded'
  <2>1. Len(waiting') = 0 /\ \A e \in Exec : Len(chain'[e]) = 0
    BY <1>1
  <2>2. Scheduled'
    BY <1>3, <2>1 DEF Scheduled
  <2>3. SlotsBounded'
    BY <1>1, <1>3 DEF SlotsBounded
  <2> QED
    BY <2>2, <2>3
<1>9. Reviewers' \subseteq Reviewers
  BY <1>3 DEF Reviewers
<1> QED
  BY <1>4, <1>5, <1>6, <1>7, <1>8, <1>9, Assembled

LEMMA BootKeeps ==
  ASSUME Inv, Boot
  PROVE  Inv' /\ Ledgered
<1>1. /\ TypeOK /\ up = "down" /\ up' = "up"
      /\ thread' = [t \in Thread |->
                      IF t \in Request /\ Undelivered(t)
                        THEN [Idle EXCEPT !.at = "respond", !.req = t] ELSE thread[t]]
      /\ record' = [e \in Exec |-> [h \in 1 .. MaxHead |->
                      IF \E r \in Request : /\ Undelivered(r) /\ job[r].status = "skipped"
                                            /\ TypeOf[r] = "code"
                                            /\ ExecOf[r] = e /\ job[r].head = h
                        THEN "skipped" ELSE record[e][h]]]
      /\ job' = [r \in Request |-> IF job[r].status = "running"
                                     THEN [job[r] EXCEPT !.status = "pending"] ELSE job[r]]
      /\ chain' = [e \in Exec |-> Redriven(e)]
      /\ UNCHANGED <<gateVars, head, skips, slots, waiting, downs, faults>>
  BY DEF Inv, Boot
<1>2. \A r \in Request : [Idle EXCEPT !.at = "respond", !.req = r] \in ThreadState
  BY DEF Idle, ThreadState
<1>3. /\ thread' \in [Thread -> ThreadState]
      /\ \A t \in Thread :
           \/ thread'[t] = thread[t]
           \/ t \in Request /\ Settled(t) /\ thread'[t].at = "respond" /\ thread'[t].req = t
      /\ \A e \in Exec : thread'[e] = thread[e] /\ thread[e].at = "idle"
  <2>1. \A t \in Thread : thread'[t] = IF t \in Request /\ Undelivered(t)
                            THEN [Idle EXCEPT !.at = "respond", !.req = t] ELSE thread[t]
    BY <1>1
  <2>2. \A t \in Request : /\ [Idle EXCEPT !.at = "respond", !.req = t].at = "respond"
                           /\ [Idle EXCEPT !.at = "respond", !.req = t].req = t
    BY DEF Idle
  <2>3. thread' \in [Thread -> ThreadState]
    BY <1>1, <1>2, <2>1 DEF TypeOK
  <2>4. \A e \in Exec : thread'[e] = thread[e] /\ thread[e].at = "idle"
    BY <1>1, <2>1, ThreadAssumption DEF Inv, SlotsBounded, Thread
  <2>5. ASSUME NEW t \in Thread
        PROVE  \/ thread'[t] = thread[t]
               \/ t \in Request /\ Settled(t) /\ thread'[t].at = "respond" /\ thread'[t].req = t
    <3>1. CASE t \in Request /\ Undelivered(t)
      <4>1. thread'[t] = [Idle EXCEPT !.at = "respond", !.req = t]
        BY <2>1, <3>1
      <4> QED
        BY <2>2, <3>1, <4>1 DEF Undelivered, Settled
    <3>2. CASE ~(t \in Request /\ Undelivered(t))
      BY <2>1, <3>2
    <3> QED
      BY <3>1, <3>2
  <2> QED
    BY <2>3, <2>4, <2>5
<1>4. /\ job' \in [Request -> Job]
      /\ \A r \in Request :
           \/ job'[r] = job[r]
           \/ /\ job[r].status = "running" /\ job'[r].status = "pending"
              /\ job'[r].at = job[r].at /\ job'[r].delivered = job[r].delivered
  <2>1. \A r \in Request : job[r] \in Job
    BY <1>1 DEF TypeOK
  <2>2. \A r \in Request : [job[r] EXCEPT !.status = "pending"] \in Job
    BY <2>1 DEF Job
  <2> QED
    BY <1>1, <2>1, <2>2 DEF Job
<1>5. /\ record' \in [Exec -> [1 .. MaxHead -> Request \cup {"skipped", None}]]
      /\ \A e \in Exec, h \in 1 .. MaxHead :
           record'[e][h] = record[e][h] \/ record'[e][h] = "skipped"
  <2> DEFINE Marked(e, h) == \E r \in Request : /\ Undelivered(r) /\ job[r].status = "skipped"
                                                /\ TypeOf[r] = "code"
                                                /\ ExecOf[r] = e /\ job[r].head = h
  <2>1. record' = [e \in Exec |-> [h \in 1 .. MaxHead |->
                     IF Marked(e, h) THEN "skipped" ELSE record[e][h]]]
    BY <1>1
  <2> HIDE DEF Marked
  <2>2. ASSUME NEW e \in Exec
        PROVE  /\ record'[e] \in [1 .. MaxHead -> Request \cup {"skipped", None}]
               /\ \A h \in 1 .. MaxHead : record'[e][h] = record[e][h] \/ record'[e][h] = "skipped"
    <3>1. record[e] \in [1 .. MaxHead -> Request \cup {"skipped", None}]
      BY <1>1 DEF TypeOK
    <3>2. record'[e] = [h \in 1 .. MaxHead |-> IF Marked(e, h) THEN "skipped" ELSE record[e][h]]
      BY <2>1
    <3> QED
      BY <3>1, <3>2
  <2>3. record' = [e \in Exec |-> record'[e]]
    BY <2>1
  <2> QED
    BY <2>2, <2>3
<1>6. chain' \in [Exec -> Seq(Request)] /\ \A e \in Exec : \A i \in 1 .. Len(chain'[e]) : ExecOf[chain'[e][i]] = e
  <2>1. ASSUME NEW e \in Exec
        PROVE  /\ Redriven(e) \in Seq(Request)
               /\ \A i \in 1 .. Len(Redriven(e)) : ExecOf[Redriven(e)[i]] = e
    <3>1. Redriven(e) \in Seq({r \in Request : ExecOf[r] = e})
      BY <1>1, RedrivenListed DEF Inv
    <3> QED
      BY <3>1
  <2> QED
    BY <1>1, <2>1
<1>7. TypeOK'
  BY <1>1, <1>3, <1>4, <1>5, <1>6 DEF TypeOK, gateVars
<1>8. Ledgered
  BY <1>1, <1>4, <1>5 DEF Ledgered, Lasting, NewAnswers, NewStamps, NewVerdicts, NewRecords,
                          Settled, gateVars
<1>9. ThreadsKnow'
  <2>1. \A t \in Thread : Knows(t)' \/ (thread'[t] = thread[t] /\ thread[t].at \notin Busy)
    <3> TAKE t \in Thread
    <3>1. thread[t].at \notin Busy
      BY <1>3 DEF Inv, ThreadsKnow, Knows, Busy
    <3>2. CASE t \in Request /\ Settled(t) /\ thread'[t].at = "respond" /\ thread'[t].req = t
      BY <1>4, <3>2 DEF Knows, Settled, Busy, Ending
    <3> QED
      BY <1>3, <3>1, <3>2
  <2> QED
    BY <1>8, <2>1, KnowledgeKept DEF Ledgered
<1>10. CreationOrder'
  BY <1>4, SameNumbers DEF Inv
<1>11. Scheduled' /\ SlotsBounded' /\ up' = "up"
  <2>0. waiting' = waiting /\ slots' = slots /\ up = "down" /\ up' = "up"
    BY <1>1
  <2>1. waiting \in Seq(Exec) /\ Scheduled
    BY <1>1 DEF Inv, TypeOK
  <2>2. \A i \in 1 .. Len(waiting) : waiting[i] \in Exec
    BY <2>1
  <2>3. Scheduled'
    <3>1. Len(waiting') = 0
      <4>1. ASSUME NEW i \in 1 .. Len(waiting) PROVE FALSE
        <5>1. waiting[i] \in Exec /\ thread[waiting[i]].at = "waiting"
          BY <2>1, <2>2 DEF Scheduled
        <5> QED
          BY <1>3, <5>1
      <4>2. Len(waiting) \in Nat
        BY <2>1
      <4>3. Len(waiting) = 0
        BY <4>1, <4>2
      <4> QED
        BY <2>0, <4>3
    <3>2. \A e \in Exec : thread'[e].at = "idle"
      BY <1>3
    <3>3. \A i \in 1 .. Len(waiting') : FALSE
      BY <3>1
    <3>4. \A e \in Exec : \A i \in 1 .. Len(chain'[e]) : ExecOf[chain'[e][i]] = e
      BY <1>6
    <3> QED
      BY <3>2, <3>3, <3>4 DEF Scheduled
  <2>4. slots' = {} /\ Cardinality({}) = 0
    BY <2>0, FS_EmptySet DEF Inv, SlotsBounded
  <2>5. SlotsBounded'
    BY <2>0, <2>4, ReviewAssumption DEF SlotsBounded
  <2> QED
    BY <2>0, <2>3, <2>5
<1> QED
  BY <1>7, <1>8, <1>9, <1>10, <1>11, Assembled

(* What the Lead, the gates' owners and the runner do is nobody's job.     *)
LEMMA OthersKeep ==
  ASSUME Inv, \/ \E q \in Gate : AnsweredByLead(q) \/ Close(q)
              \/ \E e \in Exec : Move(e)
              \/ UNCHANGED vars
  PROVE  Inv' /\ Ledgered
<1>1. /\ TypeOK
      /\ UNCHANGED <<job, record, skips, up, thread, chain, slots, waiting, downs, faults>>
  BY DEF Inv, AnsweredByLead, Close, Move, storeVars, queueVars, vars
<1>2. /\ answer' \in [Gate -> Answer \cup {Foreign, None}]
      /\ \A q \in Gate : answer'[q] = answer[q] \/ (answer[q] = None /\ answer'[q] = Foreign)
  <2>1. answer \in [Gate -> Answer \cup {Foreign, None}]
    BY <1>1 DEF TypeOK
  <2>2. \/ answer' = answer
        \/ \E q \in Gate : answer[q] = None /\ answer' = [answer EXCEPT ![q] = Foreign]
    BY DEF AnsweredByLead, Close, Move, gateVars, vars
  <2>3. ASSUME NEW g \in Gate, answer[g] = None, answer' = [answer EXCEPT ![g] = Foreign]
        PROVE  /\ answer' \in [Gate -> Answer \cup {Foreign, None}]
               /\ answer'[g] = Foreign /\ \A q \in Gate \ {g} : answer'[q] = answer[q]
    BY <2>1, <2>3
  <2> QED
    BY <2>1, <2>2, <2>3
<1>3. closed' \in [Gate -> BOOLEAN]
  <2>1. closed \in [Gate -> BOOLEAN]
    BY <1>1 DEF TypeOK
  <2>2. closed' = closed \/ \E q \in Gate : closed' = [closed EXCEPT ![q] = TRUE]
    BY DEF AnsweredByLead, Close, Move, gateVars, vars
  <2> QED
    BY <2>1, <2>2
<1>4. head' \in [Exec -> 1 .. MaxHead]
  <2>1. head \in [Exec -> 1 .. MaxHead] /\ MaxHead \in Nat
    BY <1>1, ReviewAssumption DEF TypeOK
  <2>2. CASE \E e \in Exec : Move(e)
    <3>1. PICK e \in Exec : head[e] < MaxHead /\ head' = [head EXCEPT ![e] = head[e] + 1]
      BY <2>2 DEF Move
    <3>2. head[e] + 1 \in 1 .. MaxHead
      BY <2>1, <3>1
    <3> QED
      BY <2>1, <3>1, <3>2
  <2>3. CASE \/ \E q \in Gate : AnsweredByLead(q) \/ Close(q)
             \/ UNCHANGED vars
    BY <2>1, <2>3 DEF AnsweredByLead, Close, vars
  <2> QED
    BY <2>2, <2>3
<1>5. TypeOK'
  BY <1>1, <1>2, <1>3, <1>4 DEF TypeOK
<1>6. Ledgered
  <2>1. /\ \A r \in Request : job'[r] = job[r]
        /\ \A e \in Exec, h \in 1 .. MaxHead : record'[e][h] = record[e][h]
    BY <1>1
  <2>2. NewAnswers /\ \A q \in Gate : answer[q] # None => answer'[q] = answer[q]
    BY <1>2 DEF NewAnswers
  <2> QED
    BY <2>1, <2>2 DEF Ledgered, Lasting, NewStamps, NewVerdicts, NewRecords, Settled
<1>7. ThreadsKnow'
  <2>1. \A t \in Thread : thread[t].at \in Busy => job'[thread[t].req].status = "running"
    BY <1>1 DEF Inv, ThreadsKnow, Knows
  <2> QED
    BY <1>1, <1>6, <2>1, KnowledgeKept DEF Ledgered
<1>8. CreationOrder'
  BY <1>1, SameNumbers DEF Inv
<1>9. Scheduled' /\ SlotsBounded' /\ Reviewers' \subseteq Reviewers
  BY <1>1 DEF Inv, Scheduled, SlotsBounded, Reviewers
<1> QED
  BY <1>5, <1>6, <1>7, <1>8, <1>9, Assembled

-----------------------------------------------------------------------------

LEMMA InvInit == Init => Inv
<1> SUFFICES ASSUME Init
             PROVE  Inv
  OBVIOUS
<1>1. Cardinality(Request) \in Nat /\ Cardinality({}) = 0 /\ MaxHead \in Nat \ {0} /\ MaxConcurrent \in Nat
  BY FiniteAssumption, ReviewAssumption, FS_CardinalityType, FS_EmptySet
<1>2. /\ \A r \in Request : job[r] = NoJob
      /\ NoJob.status = "absent" /\ ~NoJob.delivered
  BY DEF Init, NoJob
<1>3. /\ \A t \in Thread : thread[t] = Idle
      /\ Idle \in ThreadState /\ Idle.at = "idle"
  BY DEF Init, Idle, ThreadState
<1>4. /\ \A e \in Exec : Len(chain[e]) = 0
      /\ Len(waiting) = 0 /\ slots = {} /\ up = "up"
  BY DEF Init
<1>5. /\ \A q \in Gate : answer[q] = None
      /\ \A e \in Exec, h \in 1 .. MaxHead : record[e][h] = None
  BY DEF Init
<1>6. TypeOK
  <2>1. job \in [Request -> Job]
    <3>1. ASSUME NEW r \in Request PROVE NoJob \in Job
      <4>1. Cardinality(Request) # 0
        BY FiniteAssumption, FS_EmptySet
      <4>2. 1 \in 1 .. Cardinality(Request) /\ 0 \in 0 .. Cardinality(Request)
        BY <1>1, <4>1
      <4>3. 0 \in Head0
        BY <1>1 DEF Head0
      <4> QED
        BY <4>2, <4>3 DEF NoJob, Job
    <3> QED
      BY <3>1 DEF Init
  <2>2. thread \in [Thread -> ThreadState] /\ chain \in [Exec -> Seq(Request)] /\ waiting \in Seq(Exec)
    BY <1>3 DEF Init
  <2>3. record \in [Exec -> [1 .. MaxHead -> Request \cup {"skipped", None}]]
    BY DEF Init
  <2>4. head \in [Exec -> 1 .. MaxHead] /\ downs \in 0 .. MaxDown /\ faults \in 0 .. MaxFaults
    BY ReviewAssumption DEF Init
  <2> QED
    BY <2>1, <2>2, <2>3, <2>4 DEF Init, TypeOK
<1>7. ThreadsKnow
  BY <1>3 DEF ThreadsKnow, Knows, Busy, Ending
<1>8. JobsShaped /\ CreationOrder /\ StampsAreTrue
  BY <1>2 DEF JobsShaped, CreationOrder, StampsAreTrue, Settled
<1>9. Scheduled
  BY <1>3, <1>4 DEF Scheduled, Thread
<1>10. SlotsBounded
  BY <1>1, <1>4 DEF SlotsBounded
<1>11. ReviewersBounded
  <2>1. {e \in Exec : thread[e].at \in {"review", "fallback", "again"}} = {}
    BY <1>3 DEF Thread
  <2>2. Cardinality({}) <= MaxConcurrent
    BY <1>1
  <2> QED
    BY <2>1, <2>2 DEF ReviewersBounded
<1>12. VerdictsStand /\ AuthorityIsDelivered
  <2>1. \A r \in Request, v \in Final : [req |-> r, verdict |-> v] \in Answer
    BY DEF Answer, Final
  <2>2. VerdictsStand
    BY <1>5, <2>1, ValueAssumption DEF VerdictsStand, Final
  <2>3. AuthorityIsDelivered
    BY <1>5, ValueAssumption DEF AuthorityIsDelivered
  <2> QED
    BY <2>2, <2>3
<1> QED
  BY <1>6, <1>7, <1>8, <1>9, <1>10, <1>11, <1>12 DEF Inv

(* Every step keeps the invariant and the ledger of verdicts and answers.  *)
LEMMA InvNext ==
  ASSUME Inv, [Next]_vars
  PROVE  Inv' /\ Ledgered
<1>1. ASSUME NEW t \in Thread, Respond(t) \/ RespondFails(t) \/ Authorise(t) \/ Stamp(t)
      PROVE  Inv' /\ Ledgered
  BY <1>1, RespondKeeps, RespondFailsKeeps, AuthoriseKeeps, StampKeeps
<1>2. ASSUME NEW p \in Post, Admit(p) \/ Replay(p) \/ PostStep(p)
      PROVE  Inv' /\ Ledgered
  BY <1>1, <1>2, AcceptKeeps DEF PostStep, Thread
<1>3. ASSUME NEW e \in Exec, WorkerStep(e)
      PROVE  Inv' /\ Ledgered
  BY <1>1, <1>3, BeginKeeps, ClaimKeeps, ReviewMoves, WorkKeeps DEF WorkerStep, Thread
<1>4. ASSUME NEW r \in Request, OutboxStep(r)
      PROVE  Inv' /\ Ledgered
  BY <1>1, <1>4 DEF OutboxStep, Thread
<1>5. CASE Stop \/ Die \/ Boot
  BY <1>5, StopKeeps, DieKeeps, BootKeeps
<1>6. CASE \/ \E q \in Gate : AnsweredByLead(q) \/ Close(q)
           \/ \E e \in Exec : Move(e)
           \/ UNCHANGED vars
  BY <1>6, OthersKeep
<1> QED
  BY <1>2, <1>3, <1>4, <1>5, <1>6 DEF Next

(* The invariant of the review lane: whatever the posts, workers,          *)
(* deliveries, shutdowns, crashes and failed reads do.                     *)
THEOREM Invariant == Spec => []Inv
<1>1. Inv /\ [Next]_vars => Inv'
  BY InvNext
<1> QED
  BY InvInit, <1>1, PTL DEF Spec

(* Every variable of the lane keeps its type: the rows of codex_review_job *)
(* their fields, the threads their program counters, the chains their jobs.*)
THEOREM TypeCorrect == Spec => []TypeOK
<1>1. Inv => TypeOK
  BY DEF Inv
<1> QED
  BY Invariant, <1>1, PTL

(* "Authority follows delivery" (commitAuthorityIfApproved): a head of a   *)
(* code review is approved only by a request that froze this head, and     *)
(* after the gate holds its answer.                                        *)
THEOREM ApprovalsDelivered == Spec => []AuthorityIsDelivered
<1>1. Inv => AuthorityIsDelivered
  BY DEF Inv
<1> QED
  BY Invariant, <1>1, PTL

(* The verdict a gate shows is the one its job holds (respondToGate).      *)
THEOREM AnsweredByVerdicts == Spec => []VerdictsStand
<1>1. Inv => VerdictsStand
  BY DEF Inv
<1> QED
  BY Invariant, <1>1, PTL

(* markCodexReviewDelivered stamps a job only with its answer in the gate. *)
THEOREM StampsFollowAnswers == Spec => []StampsAreTrue
<1>1. Inv => StampsAreTrue
  BY DEF Inv
<1> QED
  BY Invariant, <1>1, PTL

(* The reviewers that run never outnumber the semaphore's slots, also when *)
(* stop() hands a slot to every worker that waits for one.                 *)
THEOREM ReviewersLimited == Spec => []ReviewersBounded
<1>1. Inv => ReviewersBounded
  BY DEF Inv
<1> QED
  BY Invariant, <1>1, PTL

(* A job that is through keeps its verdict, its head and its stamp, and a  *)
(* gate its first answer: no retry, second post, crash or boot of          *)
(* redriveOnBoot takes one back.                                           *)
THEOREM VerdictsLast == Spec => [][Lasting]_vars
<1>1. Inv /\ [Next]_vars => [Lasting]_vars
  BY InvNext DEF Ledgered
<1> QED
  BY Invariant, <1>1, PTL DEF Spec

-----------------------------------------------------------------------------
(* The ledger. *)

(* A ruling on code is about a head, and one that is waived has marked it. *)
RulingsShaped ==
  \A r \in Request :
    /\ job[r].status = "done" => job[r].verdict \in Verdict
    /\ job[r].status = "skipped" => job[r].verdict = "SKIPPED"
    /\ TypeOf[r] = "design" => job[r].head = 0
    /\ TypeOf[r] = "code" /\ Settled(r) => job[r].head # 0
    /\ TypeOf[r] = "code" /\ job[r].status = "skipped" =>
         record[ExecOf[r]][job[r].head] = "skipped"

Recorded(r) ==
  TypeOf[r] = "code" /\ job[r].verdict = "APPROVED" => record[ExecOf[r]][job[r].head] # None

(* Only code reviews wait for git, and a thread that is about to stamp an  *)
(* approval has recorded it.                                               *)
Ready(t) ==
  LET r == thread[t].req IN
    /\ thread[t].at = "derive" => TypeOf[r] = "code"
    /\ thread[t].at = "stamp" => Recorded(r)

ThreadsReady == \A t \in Thread : Ready(t)

LedgerInv == RulingsShaped /\ ThreadsReady

(* A step that leaves every ruling, answer and record as it is.            *)
SameRuling(r) ==
  /\ job'[r].delivered = job[r].delivered
  /\ \/ /\ Settled(r) /\ job'[r].status = job[r].status
        /\ job'[r].verdict = job[r].verdict /\ job'[r].head = job[r].head
     \/ ~Settled(r) /\ ~Settled(r)' /\ (TypeOf[r] = "design" => job'[r].head = 0)

Rests(t) == thread'[t] = thread[t] \/ thread'[t].at \notin {"derive", "stamp"}

Still ==
  /\ record' = record /\ \A r \in Request : SameRuling(r)
  /\ \A t \in Thread : Rests(t) \/ (thread'[t].at = "derive" /\ TypeOf[thread'[t].req] = "code")

Quiet == Still /\ UNCHANGED <<answer, closed, head, skips>>

(* A step that settles one job.                                            *)
Ruled(r) ==
  /\ ~Settled(r)
  /\ \E row \in Job :
       /\ job' = [job EXCEPT ![r] = row]
       /\ row.status \in {"done", "skipped"} /\ ~row.delivered
       /\ row.head = IF TypeOf[r] = "code" THEN head[ExecOf[r]] ELSE 0
       /\ row.status = "done" => row.verdict \in Verdict /\ record' = record
       /\ row.status = "skipped" =>
            /\ row.verdict = "SKIPPED" /\ ExecOf[r] \in skips
            /\ record' = IF TypeOf[r] = "code"
                           THEN [record EXCEPT ![ExecOf[r]][head[ExecOf[r]]] = "skipped"] ELSE record
  /\ UNCHANGED <<answer, closed, head, skips>>
  /\ \A t \in Thread : Rests(t)

LEMMA StillKeeps ==
  ASSUME Inv, LedgerInv, Still
  PROVE  LedgerInv' /\ Rulings' = Rulings /\ Ticked' = Ticked
<1>1. /\ TypeOK /\ ThreadsKnow /\ record' = record
      /\ \A r \in Request : SameRuling(r)
  BY DEF Inv, Still
<1>2. RulingsShaped'
  BY <1>1 DEF LedgerInv, RulingsShaped, SameRuling, Settled
<1>3. ThreadsReady'
  <2> SUFFICES ASSUME NEW t \in Thread, thread'[t] = thread[t]
               PROVE  Ready(t)'
    BY DEF Still, ThreadsReady, Ready, Rests
  <2>1. Ready(t) /\ Knows(t)
    BY <1>1 DEF LedgerInv, ThreadsReady, ThreadsKnow
  <2>2. thread[t].at = "stamp" => thread[t].req \in Request /\ Settled(thread[t].req)
    BY <2>1 DEF Knows, Ending
  <2> QED
    BY <1>1, <2>1, <2>2 DEF Ready, Recorded, SameRuling
<1>4. Rulings' = Rulings
  BY <1>1 DEF Rulings, SameRuling, Settled
<1>5. Ticked' = Ticked
  BY <1>1 DEF Ticked, SameRuling
<1> QED
  BY <1>2, <1>3, <1>4, <1>5 DEF LedgerInv

LEMMA QuietImplements ==
  ASSUME Inv, LedgerInv, Quiet
  PROVE  LedgerInv' /\ UNCHANGED Ledger!vars
BY StillKeeps DEF Quiet, Still, Ledger!vars

LEMMA RuledImplements ==
  ASSUME Inv, LedgerInv, NEW r \in Request, Ruled(r)
  PROVE  LedgerInv' /\ Ledger!Rule(r)
<1> DEFINE e == ExecOf[r]
           h == IF TypeOf[r] = "code" THEN head[e] ELSE 0
<1>1. /\ TypeOK /\ ThreadsKnow /\ ~Settled(r) /\ UNCHANGED <<answer, closed, head, skips>>
      /\ ~job[r].delivered /\ e \in Exec /\ head[e] \in 1 .. MaxHead /\ TypeOf[r] \in {"design", "code"}
  BY ReviewAssumption DEF Inv, JobsShaped, Ruled, TypeOK
<1>2. PICK row \in Job :
        /\ job' = [job EXCEPT ![r] = row]
        /\ row.status \in {"done", "skipped"} /\ ~row.delivered
        /\ row.head = h
        /\ row.status = "done" => row.verdict \in Verdict /\ record' = record
        /\ row.status = "skipped" =>
             /\ row.verdict = "SKIPPED" /\ e \in skips
             /\ record' = IF TypeOf[r] = "code" THEN [record EXCEPT ![e][head[e]] = "skipped"] ELSE record
  BY DEF Ruled
<1>3. job'[r] = row /\ \A q \in Request \ {r} : job'[q] = job[q]
  BY <1>1, <1>2 DEF TypeOK
<1>4. /\ \A x \in Exec, k \in 1 .. MaxHead :
           record'[x][k] = record[x][k] \/ record'[x][k] = "skipped"
      /\ row.status = "skipped" /\ TypeOf[r] = "code" => record'[e][head[e]] = "skipped"
  <2>1. CASE record' = record /\ ~(row.status = "skipped" /\ TypeOf[r] = "code")
    BY <2>1
  <2>2. CASE record' = [record EXCEPT ![e][head[e]] = "skipped"]
    BY <1>1, <2>2 DEF TypeOK
  <2> QED
    BY <1>1, <1>2, <2>1, <2>2
<1>5. RulingsShaped'
  <2> SUFFICES ASSUME NEW q \in Request
               PROVE  (/\ job[q].status = "done" => job[q].verdict \in Verdict
                       /\ job[q].status = "skipped" => job[q].verdict = "SKIPPED"
                       /\ TypeOf[q] = "design" => job[q].head = 0
                       /\ TypeOf[q] = "code" /\ Settled(q) => job[q].head # 0
                       /\ TypeOf[q] = "code" /\ job[q].status = "skipped" =>
                            record[ExecOf[q]][job[q].head] = "skipped")'
    BY DEF RulingsShaped
  <2>1. CASE q = r
    BY <1>1, <1>2, <1>3, <1>4, <2>1 DEF Settled
  <2>2. CASE q # r
    <3>1. job'[q] = job[q] /\ ExecOf[q] \in Exec /\ job[q].head \in Head0
      BY <1>1, <1>3, <2>2, ReviewAssumption DEF TypeOK, Job
    <3>2. job[q].head # 0 => job[q].head \in 1 .. MaxHead
      BY <3>1, ReviewAssumption DEF Head0
    <3> QED
      BY <1>4, <3>1, <3>2 DEF LedgerInv, RulingsShaped, Settled
  <2> QED
    BY <2>1, <2>2
<1>6. ThreadsReady'
  <2> SUFFICES ASSUME NEW t \in Thread, thread'[t] = thread[t]
               PROVE  Ready(t)'
    BY DEF Ruled, ThreadsReady, Ready, Rests
  <2>1. Ready(t) /\ Knows(t)
    BY <1>1 DEF LedgerInv, ThreadsReady, ThreadsKnow
  <2>2. CASE thread[t].at = "stamp"
    <3>1. PICK q \in Request : q = thread[t].req /\ q # r /\ Settled(q) /\ Recorded(q)
      BY <1>1, <2>1, <2>2 DEF Knows, Ending, Ready
    <3>2. ExecOf[q] \in Exec /\ job'[q] = job[q] /\ job[q].head \in Head0
      BY <1>1, <1>3, <3>1, ReviewAssumption DEF TypeOK, Job
    <3>3. TypeOf[q] = "code" => job[q].head \in 1 .. MaxHead
      BY <3>1, <3>2, ReviewAssumption DEF LedgerInv, RulingsShaped, Head0
    <3>4. Recorded(q)'
      BY <1>4, <3>1, <3>2, <3>3, ValueAssumption DEF Recorded
    <3> QED
      BY <2>2, <3>1, <3>4 DEF Ready
  <2>3. CASE thread[t].at # "stamp"
    BY <2>1, <2>3 DEF Ready
  <2> QED
    BY <2>2, <2>3
<1>7. Ledger!Rule(r)
  <2>1. Rulings[r] = None
    BY <1>1 DEF Rulings, Settled
  <2>2. Rulings' = [Rulings EXCEPT ![r] = [verdict |-> row.verdict, head |-> h]]
    BY <1>2, <1>3 DEF Rulings
  <2>3. Ticked' = Ticked
    BY <1>1, <1>2, <1>3 DEF Ticked
  <2>4. /\ row.verdict \in {"APPROVED", "CHANGES_REQUESTED", "SKIPPED"}
        /\ row.verdict = "SKIPPED" => e \in skips
        /\ record' = IF row.verdict = "SKIPPED" /\ TypeOf[r] = "code"
                       THEN [record EXCEPT ![e][h] = "skipped"] ELSE record
    BY <1>2 DEF Verdict
  <2> QED
    BY <1>1, <2>1, <2>2, <2>3, <2>4 DEF Ledger!Rule
<1> QED
  BY <1>5, <1>6, <1>7 DEF LedgerInv

(* Marking again what is marked changes nothing.                           *)
LEMMA MarkedAlready ==
  ASSUME TypeOK, RulingsShaped, NEW r \in Request, job[r].status = "skipped",
         Skipped(r, job[r].head)
  PROVE  record' = record
<1>1. CASE TypeOf[r] = "code" /\ job[r].head # 0
  <2>1. /\ ExecOf[r] \in Exec /\ record[ExecOf[r]][job[r].head] = "skipped"
        /\ record' = [record EXCEPT ![ExecOf[r]][job[r].head] = "skipped"]
    BY <1>1, ReviewAssumption DEF RulingsShaped, Skipped
  <2>2. record \in [Exec -> [1 .. MaxHead -> Request \cup {"skipped", None}]]
    BY DEF TypeOK
  <2> QED
    BY <2>1, <2>2
<1>2. CASE ~(TypeOf[r] = "code" /\ job[r].head # 0)
  BY <1>2 DEF Skipped
<1> QED
  BY <1>1, <1>2

(* accept inserts a row: pending, or skipped with its head marked.         *)
LEMMA InsertRules ==
  ASSUME Inv, LedgerInv, NEW p \in Post, NEW r \in Request,
         Insert(p, r, IF TypeOf[r] = "code" THEN head[ExecOf[r]] ELSE 0),
         UNCHANGED <<answer, closed, head, skips>>
  PROVE  Quiet \/ Ruled(r)
<1> DEFINE h == IF TypeOf[r] = "code" THEN head[ExecOf[r]] ELSE 0
<1>1. /\ TypeOK /\ p \in Thread /\ ExecOf[r] \in Exec /\ TypeOf[r] \in {"design", "code"}
      /\ head[ExecOf[r]] \in 1 .. MaxHead /\ MaxHead \in Nat
  BY ReviewAssumption DEF Inv, Thread, TypeOK
<1>2. h \in Head0 /\ h \in 0 .. MaxHead /\ (TypeOf[r] = "code" => h # 0)
  BY <1>1 DEF Head0
<1>3. ASSUME NEW to \in {"over", "respond"}, NEW q \in Request \cup {None}, Goes(p, to, q)
      PROVE  \A t \in Thread : Rests(t)
  <2>1. PICK th \in ThreadState : thread' = [thread EXCEPT ![p] = th] /\ th.at = to
    BY <1>3, Gone
  <2>2. thread'[p] = th /\ \A t \in Thread \ {p} : thread'[t] = thread[t]
    BY <1>1, <2>1 DEF TypeOK
  <2> QED
    BY <2>1, <2>2 DEF Rests
<1>4. CASE job[r].status # "absent" /\ Goes(p, "over", None) /\ UNCHANGED <<storeVars, chain>>
  BY <1>3, <1>4 DEF Quiet, Still, SameRuling, storeVars, Settled, LedgerInv, RulingsShaped
<1>5. CASE /\ job[r].status = "absent" /\ ExecOf[r] \in skips
           /\ job' = [job EXCEPT ![r] = [NoJob EXCEPT !.status = "skipped", !.head = h,
                                           !.verdict = "SKIPPED", !.at = Count + 1]]
           /\ Skipped(r, h) /\ Goes(p, "respond", r)
  <2> DEFINE row == [NoJob EXCEPT !.status = "skipped", !.head = h, !.verdict = "SKIPPED", !.at = Count + 1]
  <2>1. /\ Count + 1 \in 0 .. Cardinality(Request) /\ 1 \in 1 .. Cardinality(Request)
    BY <1>1, <1>5, Counted DEF Inv
  <2> HIDE DEF h
  <2>2. /\ row \in Job /\ row.status = "skipped" /\ ~row.delivered /\ row.head = h
        /\ row.verdict = "SKIPPED"
    BY <1>2, <2>1 DEF NoJob, Job
  <2> HIDE DEF row
  <2>3. job' = [job EXCEPT ![r] = row]
    BY <1>5 DEF row
  <2>4. record' = IF TypeOf[r] = "code" THEN [record EXCEPT ![ExecOf[r]][h] = "skipped"] ELSE record
    BY <1>2, <1>5 DEF Skipped
  <2>5. record' = IF TypeOf[r] = "code"
                    THEN [record EXCEPT ![ExecOf[r]][head[ExecOf[r]]] = "skipped"] ELSE record
    BY <2>4 DEF h
  <2>6. \A t \in Thread : Rests(t)
    BY <1>3, <1>5
  <2>7. row.head = IF TypeOf[r] = "code" THEN head[ExecOf[r]] ELSE 0
    BY <2>2 DEF h
  <2>8. ~Settled(r)
    BY <1>5 DEF Settled
  <2> QED
    BY <1>5, <2>2, <2>3, <2>5, <2>6, <2>7, <2>8 DEF Ruled
<1>6. CASE /\ job[r].status = "absent" /\ job' = [job EXCEPT ![r] = Row(r, "pending", h)]
           /\ Goes(p, "over", None) /\ UNCHANGED record
  <2>1. /\ Row(r, "pending", h).status = "pending" /\ Row(r, "pending", h).head = h
        /\ Row(r, "pending", h).delivered = FALSE
    BY DEF Row, NoJob
  <2> HIDE DEF h
  <2>2. job'[r] = Row(r, "pending", h) /\ \A q \in Request \ {r} : job'[q] = job[q]
    BY <1>1, <1>6 DEF TypeOK
  <2>3. job[r].delivered = FALSE /\ ~Settled(r)
    BY <1>1, <1>6 DEF Inv, JobsShaped, Settled, TypeOK, Job
  <2>4. \A t \in Thread : Rests(t)
    BY <1>3, <1>6
  <2>5. \A q \in Request : SameRuling(q)
    <3> TAKE q \in Request
    <3>1. CASE q = r
      BY <2>1, <2>2, <2>3, <3>1 DEF SameRuling, Settled, h
    <3>2. CASE q # r
      BY <2>2, <3>2 DEF SameRuling, Settled, LedgerInv, RulingsShaped
    <3> QED
      BY <3>1, <3>2
  <2> QED
    BY <1>6, <2>4, <2>5 DEF Quiet, Still
<1> QED
  BY <1>4, <1>5, <1>6 DEF Insert

LEMMA SameJobs ==
  ASSUME LedgerInv, job' = job
  PROVE  \A r \in Request : SameRuling(r)
BY DEF LedgerInv, RulingsShaped, SameRuling, Settled

(* What a post does comes down to at most one ruling.                      *)
LEMMA AcceptRules ==
  ASSUME Inv, LedgerInv, NEW p \in Post, Admit(p) \/ Freeze(p) \/ Replay(p)
  PROVE  Quiet \/ \E r \in Request : Ruled(r)
<1>1. /\ TypeOK /\ ThreadsKnow /\ p \in Thread /\ RequestOf[p] \in Request
      /\ UNCHANGED <<answer, closed, head, skips>>
  BY ReviewAssumption DEF Inv, Thread, Admit, Freeze, Replay, gateVars
<1>2. ASSUME NEW to \in {"over", "respond", "derive"}, NEW q \in Request \cup {None}, Goes(p, to, q),
             to = "derive" => TypeOf[q] = "code"
      PROVE  \A t \in Thread : Rests(t) \/ (thread'[t].at = "derive" /\ TypeOf[thread'[t].req] = "code")
  <2>0. Goes(p, to, q) /\ to \in {"derive", "respond", "over", "idle", "ready", "waiting", "review",
                                    "fallback", "again", "woken", "stamp"}
    BY <1>2
  <2>1. PICK th \in ThreadState : thread' = [thread EXCEPT ![p] = th] /\ th.at = to /\ th.req = q
    BY <2>0, Gone
  <2>2. thread'[p] = th /\ \A t \in Thread \ {p} : thread'[t] = thread[t]
    BY <1>1, <2>1 DEF TypeOK
  <2> QED
    BY <1>2, <2>1, <2>2 DEF Rests
<1>3. ASSUME NEW to \in {"over", "respond", "derive"}, NEW q \in Request \cup {None}, Goes(p, to, q),
             to = "derive" => TypeOf[q] = "code", UNCHANGED <<job, record>>
      PROVE  Quiet
  BY <1>1, <1>2, <1>3, SameJobs DEF Quiet, Still
<1>4. CASE Admit(p)
  <2> DEFINE r == RequestOf[p]
  <2>1. PICK open \in BOOLEAN :
          IF ~open
            THEN /\ job' = [job EXCEPT ![r] = [NoJob EXCEPT !.status = "failed", !.at = Count + 1]]
                 /\ Goes(p, "over", None) /\ UNCHANGED <<record, chain>>
          ELSE IF TypeOf[r] = "code"
            THEN Goes(p, "derive", r) /\ UNCHANGED <<storeVars, chain>>
          ELSE Insert(p, r, 0)
    BY <1>4 DEF Admit
  <2>2. CASE ~open
    <3>1. job[r].status = "absent" /\ job[r].delivered = FALSE
      BY <1>1, <1>4 DEF Admit, Inv, JobsShaped, Settled, TypeOK, Job
    <3>2. /\ job'[r].status = "failed" /\ job'[r].head = 0 /\ job'[r].delivered = FALSE
          /\ \A q \in Request \ {r} : job'[q] = job[q]
      BY <1>1, <2>1, <2>2 DEF TypeOK, NoJob
    <3>3. \A q \in Request : SameRuling(q)
      BY <3>1, <3>2 DEF SameRuling, Settled, LedgerInv, RulingsShaped
    <3> QED
      BY <1>1, <1>2, <2>1, <2>2, <3>3 DEF Quiet, Still
  <2>3. CASE open /\ TypeOf[r] = "code"
    BY <1>1, <1>3, <2>1, <2>3 DEF storeVars
  <2>4. CASE open /\ TypeOf[r] # "code"
    BY <1>1, <2>1, <2>4, InsertRules
  <2> QED
    BY <2>2, <2>3, <2>4
<1>5. CASE Freeze(p)
  <2>1. PICK r \in Request : r = thread[p].req /\ TypeOf[r] = "code"
    BY <1>1, <1>5 DEF Freeze, At, ThreadsKnow, Knows, LedgerInv, ThreadsReady, Ready
  <2>2. PICK h \in Head0 :
          /\ HeadSeen(ExecOf[r], h)
          /\ IF h = 0 THEN Goes(p, "over", None) /\ UNCHANGED <<storeVars, chain>>
             ELSE Insert(p, r, h)
    BY <1>5, <2>1 DEF Freeze
  <2>3. CASE h = 0
    BY <1>1, <1>3, <2>2, <2>3 DEF storeVars
  <2>4. CASE h # 0
    <3>1. h = head[ExecOf[r]] /\ Insert(p, r, h)
      BY <2>2, <2>4 DEF HeadSeen
    <3> QED
      BY <1>1, <2>1, <3>1, InsertRules
  <2> QED
    BY <2>3, <2>4
<1>6. CASE Replay(p)
  <2> DEFINE r == RequestOf[p]
  <2>1. job' = job /\ \E to \in {"over", "respond"}, q \in Request \cup {None} : Goes(p, to, q)
    BY <1>1, <1>6 DEF Replay, storeVars
  <2>2. record' = record
    BY <1>1, <1>6, MarkedAlready DEF Replay, storeVars, LedgerInv
  <2> QED
    BY <1>3, <2>1, <2>2
<1> QED
  BY <1>4, <1>5, <1>6

(* A worker that waits, claims, fails or goes on rules on nothing; one     *)
(* that completes rules on a head it has just looked up.                   *)
LEMMA WorkerRules ==
  ASSUME Inv, LedgerInv, NEW e \in Exec,
         \/ Begin(e) \/ Claim(e) \/ ReviewFails(e) \/ SessionLost(e) \/ Fallback(e)
         \/ ReviewEnds(e) \/ Recheck(e)
  PROVE  Quiet \/ \E r \in Request : Ruled(r)
<1>1. /\ TypeOK /\ ThreadsKnow /\ Knows(e) /\ e \in Thread
      /\ UNCHANGED <<record, answer, closed, head, skips>>
  BY DEF Inv, ThreadsKnow, Thread, Begin, Claim, ReviewFails, SessionLost, Fallback, ReviewEnds,
         Recheck, storeVars, gateVars
<1>2. ASSUME NEW th \in ThreadState, th.at \notin {"derive", "stamp"},
             thread' = [thread EXCEPT ![e] = th]
      PROVE  \A t \in Thread : Rests(t)
  BY <1>1, <1>2 DEF TypeOK, Rests
<1>3. ASSUME Leave(e), thread[e].at \notin {"idle", "waiting"}, up' = up
      PROVE  \A t \in Thread : Rests(t)
  <2>1. /\ thread'[e] = Idle /\ \A t \in Thread \ {e} : thread'[t] = thread[t] \/ thread'[t].at = "ready"
    BY <1>3, LeaveKeeps
  <2> QED
    BY <2>1 DEF Rests, Idle
<1>4. CASE Begin(e)
  <2>1. job' = job /\ \A t \in Thread : Rests(t)
    <3>1. job' = job /\ (thread' = thread \/ \E to \in {"ready", "waiting"} : Goes(e, to, None))
      BY <1>4 DEF Begin, storeVars
    <3> QED
      BY <1>2, <3>1, Gone DEF Rests
  <2> QED
    BY <1>1, <2>1, SameJobs DEF Quiet, Still
<1>5. CASE Claim(e)
  <2>1. up' = up /\ thread[e].at = "ready"
    BY <1>5 DEF Claim, At
  <2>2. CASE Leave(e) /\ UNCHANGED job
    BY <1>1, <1>3, <2>1, <2>2, SameJobs DEF Quiet, Still
  <2>3. CASE ~(Leave(e) /\ UNCHANGED job)
    <3>1. PICK r \in Request : r = Head(chain[e])
      <4>1. chain[e] \in Seq(Request) /\ chain[e] # <<>>
        BY <1>1, <2>1 DEF TypeOK, Inv, Scheduled
      <4> QED
        BY <4>1
    <3>2. /\ job[r].status \in {"pending", "failed"}
          /\ job' = [job EXCEPT ![r].status = "running", ![r].session = TRUE]
          /\ thread' = [thread EXCEPT ![e] = [Idle EXCEPT !.at = "review", !.req = r,
                            !.resume = job[r].round > 1 /\ job[r].session]]
      BY <1>5, <2>3, <3>1 DEF Claim
    <3>3. job[r] \in Job
      BY <1>1 DEF TypeOK
    <3>4. /\ job'[r].status = "running" /\ job'[r].head = job[r].head
          /\ job'[r].delivered = job[r].delivered
          /\ \A q \in Request \ {r} : job'[q] = job[q]
      BY <1>1, <3>2, <3>3 DEF TypeOK, Job
    <3>5. \A q \in Request : SameRuling(q)
      BY <3>2, <3>4 DEF SameRuling, Settled, LedgerInv, RulingsShaped
    <3>6. /\ [Idle EXCEPT !.at = "review", !.req = r,
                          !.resume = job[r].round > 1 /\ job[r].session] \in ThreadState
          /\ [Idle EXCEPT !.at = "review", !.req = r,
                          !.resume = job[r].round > 1 /\ job[r].session].at = "review"
      BY <3>3 DEF Idle, ThreadState, Job
    <3> QED
      BY <1>1, <1>2, <3>2, <3>5, <3>6 DEF Quiet, Still
  <2> QED
    BY <2>2, <2>3
<1>6. ASSUME ReviewFails(e) \/ SessionLost(e) \/ Fallback(e) \/ ReviewEnds(e) \/ Recheck(e)
      PROVE  Quiet \/ \E r \in Request : Ruled(r)
  <2>1. WorkMoves(e)
    BY <1>6, ReviewMoves
  <2>2. PICK r \in Request : r = thread[e].req /\ ExecOf[r] = e /\ job[r].status = "running"
    BY <1>1, <2>1 DEF WorkMoves, Knows
  <2>3. /\ job[r] \in Job /\ ~Settled(r) /\ job[r].delivered = FALSE
        /\ thread[e].at \notin {"idle", "waiting"} /\ up' = up
        /\ TypeOf[r] \in {"design", "code"} /\ (TypeOf[r] = "design" => job[r].head = 0)
    BY <1>1, <2>1, <2>2, ReviewAssumption DEF TypeOK, Job, Settled, Inv, JobsShaped, WorkMoves,
       Busy, LedgerInv, RulingsShaped
  <2>4. CASE Fail(e)
    <3>1. job' = [job EXCEPT ![r].status = "failed"] /\ Leave(e)
      BY <2>2, <2>4 DEF Fail
    <3>2. /\ job'[r].status = "failed" /\ job'[r].head = job[r].head /\ job'[r].delivered = FALSE
          /\ \A q \in Request \ {r} : job'[q] = job[q]
      BY <1>1, <2>3, <3>1 DEF TypeOK, Job
    <3>3. \A q \in Request : SameRuling(q)
      BY <2>3, <3>2 DEF SameRuling, Settled, LedgerInv, RulingsShaped
    <3> QED
      BY <1>1, <1>3, <2>3, <3>1, <3>3 DEF Quiet, Still
  <2>6. ASSUME NEW v \in Verdict, Complete(e, v),
               job[r].head = IF TypeOf[r] = "code" THEN head[e] ELSE 0
        PROVE  Ruled(r)
    <3> DEFINE row == [job[r] EXCEPT !.status = "done", !.verdict = v]
    <3>1. /\ row \in Job /\ row.status = "done" /\ row.verdict = v /\ row.delivered = FALSE
          /\ row.head = job[r].head
      BY <2>3 DEF Job
    <3>2. job' = [job EXCEPT ![r] = row] /\ Goes(e, "respond", r)
      BY <1>1, <2>2, <2>6 DEF Complete, TypeOK
    <3> HIDE DEF row
    <3>3. \A t \in Thread : Rests(t)
      BY <1>2, <3>2, Gone
    <3> QED
      BY <1>1, <2>2, <2>3, <2>6, <3>1, <3>2, <3>3 DEF Ruled
  <2>7. CASE ReviewEnds(e)
    <3>1. PICK v \in Verdict, open \in BOOLEAN :
            IF ~open THEN Fail(e)
            ELSE IF TypeOf[r] = "design" THEN Complete(e, v)
            ELSE /\ thread' = [thread EXCEPT ![e] = [Idle EXCEPT !.at = "recheck", !.req = r, !.verdict = v]]
                 /\ UNCHANGED <<job, queueVars>>
      BY <2>2, <2>7 DEF ReviewEnds
    <3>2. CASE open /\ TypeOf[r] = "design"
      BY <2>3, <2>6, <3>1, <3>2
    <3>3. CASE open /\ TypeOf[r] # "design"
      <4>1. /\ [Idle EXCEPT !.at = "recheck", !.req = r, !.verdict = v] \in ThreadState
            /\ [Idle EXCEPT !.at = "recheck", !.req = r, !.verdict = v].at = "recheck"
        BY DEF Idle, ThreadState
      <4>2. job' = job /\ \A t \in Thread : Rests(t)
        BY <1>2, <3>1, <3>3, <4>1
      <4> QED
        BY <1>1, <4>2, SameJobs DEF Quiet, Still
    <3> QED
      BY <2>4, <3>1, <3>2, <3>3
  <2>8. CASE Recheck(e)
    <3>1. PICK h \in Head0, echo \in BOOLEAN :
            /\ HeadSeen(e, h)
            /\ IF h # 0 /\ h = job[r].head /\ echo THEN Complete(e, thread[e].verdict) ELSE Fail(e)
      BY <2>2, <2>8 DEF Recheck
    <3>2. thread[e].verdict \in Verdict
      BY <1>1, <2>8 DEF Recheck, At, Knows
    <3>3. h # 0 /\ h = job[r].head => TypeOf[r] = "code" /\ job[r].head = head[e]
      BY <2>3, <3>1 DEF HeadSeen
    <3> QED
      BY <2>4, <2>6, <3>1, <3>2, <3>3
  <2>9. CASE ReviewFails(e) \/ SessionLost(e) \/ Fallback(e)
    <3>1. \/ Fail(e)
          \/ /\ \E to \in {"fallback", "again"} : Goes(e, to, r)
             /\ UNCHANGED <<job, queueVars>>
      BY <2>2, <2>9 DEF ReviewFails, SessionLost, Fallback
    <3>2. CASE \E to \in {"fallback", "again"} : Goes(e, to, r) /\ UNCHANGED job
      <4>1. job' = job /\ \A t \in Thread : Rests(t)
        BY <1>2, <3>2, Gone
      <4> QED
        BY <1>1, <4>1, SameJobs DEF Quiet, Still
    <3> QED
      BY <2>4, <3>1, <3>2
  <2> QED
    BY <1>6, <2>7, <2>8, <2>9
<1> QED
  BY <1>4, <1>5, <1>6

(* respond: the ledger's answer, or none.                                  *)
LEMMA RespondImplements ==
  ASSUME Inv, LedgerInv, NEW t \in Thread, Respond(t)
  PROVE  LedgerInv' /\ [Ledger!Next]_(Ledger!vars)
<1>1. /\ TypeOK /\ thread[t].at = "respond" /\ Knows(t)
      /\ UNCHANGED <<job, record, closed, head, skips, up>>
  BY DEF Inv, ThreadsKnow, Respond, At, storeVars
<1>2. PICK r \in Request : r = thread[t].req /\ Settled(r)
  BY <1>1 DEF Knows, Ending
<1>3. \A k \in Thread : Rests(k)
  <2>1. CASE Goes(t, "woken", r)
    <3>1. PICK th \in ThreadState : thread' = [thread EXCEPT ![t] = th] /\ th.at = "woken"
      <4>1. Goes(t, "woken", r) /\ r \in Request \cup {None}
        BY <2>1
      <4> QED
        BY <4>1, Gone
    <3> QED
      BY <1>1, <3>1 DEF TypeOK, Rests
  <2>2. CASE End(t)
    BY <1>1, <2>2, EndKeeps DEF Rests, Resting, Ending
  <2> QED
    BY <1>2, <2>1, <2>2 DEF Respond
<1>4. Still
  BY <1>1, <1>3, SameJobs DEF Still
<1>5. CASE IsOpen(r)
  <2>1. Rulings[r] = [verdict |-> job[r].verdict, head |-> job[r].head] /\ Rulings[r] # None
    <3>1. job[r] \in Job /\ job[r].verdict \in Verdict \cup {"SKIPPED"}
      BY <1>1, <1>2 DEF TypeOK, LedgerInv, RulingsShaped, Settled
    <3> QED
      BY <1>2, <3>1, ValueAssumption DEF Rulings, Settled, Job
  <2>2. answer' = [answer EXCEPT ![GateOf[r]] = [req |-> r, verdict |-> Rulings[r].verdict]]
    BY <1>2, <1>5, <2>1 DEF Respond, Ours
  <2>3. Ledger!Respond(r)
    BY <1>1, <1>4, <1>5, <2>1, <2>2, StillKeeps DEF Ledger!Respond, IsOpen
  <2> QED
    BY <1>4, <2>3, StillKeeps DEF Ledger!Next
<1>6. CASE ~IsOpen(r)
  <2>1. answer' = answer
    BY <1>2, <1>6 DEF Respond
  <2> QED
    BY <1>1, <1>4, <2>1, QuietImplements DEF Quiet
<1> QED
  BY <1>5, <1>6

(* commitAuthorityIfApproved: the ledger's approval, or nothing new.       *)
LEMMA AuthoriseImplements ==
  ASSUME Inv, LedgerInv, NEW t \in Thread, Authorise(t)
  PROVE  LedgerInv' /\ [Ledger!Next]_(Ledger!vars)
<1>1. /\ TypeOK /\ ThreadsKnow /\ thread[t].at = "woken" /\ Knows(t) /\ RulingsShaped
      /\ UNCHANGED <<job, answer, closed, head, skips>>
  BY DEF Inv, ThreadsKnow, Authorise, At, gateVars, LedgerInv
<1>2. PICK r \in Request : r = thread[t].req /\ Settled(r) /\ answer[GateOf[r]] = Ours(r)
  BY <1>1 DEF Knows, Ending
<1> DEFINE e == ExecOf[r]
           h == job[r].head
<1>3. /\ e \in Exec /\ h \in Head0 /\ job[r] \in Job
      /\ TypeOf[r] = "code" => h \in 1 .. MaxHead
  BY <1>1, <1>2, ReviewAssumption DEF TypeOK, Job, RulingsShaped, Head0
<1>4. /\ record' = IF /\ job[r].verdict = "APPROVED" /\ TypeOf[r] = "code"
                      /\ record[e][h] # "skipped"
                     THEN [record EXCEPT ![e][h] = r] ELSE record
      /\ Goes(t, "stamp", r)
  BY <1>1, <1>2, <1>3 DEF Authorise, RulingsShaped
<1>5. PICK th \in ThreadState : thread' = [thread EXCEPT ![t] = th] /\ th.at = "stamp" /\ th.req = r
  <2>1. Goes(t, "stamp", r) /\ r \in Request \cup {None}
    BY <1>4
  <2> QED
    BY <2>1, Gone
<1>6. thread'[t] = th /\ \A k \in Thread \ {t} : thread'[k] = thread[k]
  BY <1>1, <1>5 DEF TypeOK
<1>7. \A x \in Exec, k \in 1 .. MaxHead : /\ record[x][k] = "skipped" => record'[x][k] = "skipped"
                                          /\ record[x][k] # None => record'[x][k] # None
  <2>1. record \in [Exec -> [1 .. MaxHead -> Request \cup {"skipped", None}]]
    BY <1>1 DEF TypeOK
  <2> QED
    BY <1>3, <1>4, <2>1, ValueAssumption
<1>8. Recorded(r)'
  <2>1. record \in [Exec -> [1 .. MaxHead -> Request \cup {"skipped", None}]]
    BY <1>1 DEF TypeOK
  <2> QED
    BY <1>1, <1>3, <1>4, <2>1, ValueAssumption DEF Recorded
<1>9. \A q \in Request : /\ ExecOf[q] \in Exec
                         /\ TypeOf[q] = "code" /\ Settled(q) => job[q].head \in 1 .. MaxHead
  <2> TAKE q \in Request
  <2>1. job[q].head \in Head0
    BY <1>1 DEF TypeOK, Job
  <2> QED
    BY <1>1, <2>1, ReviewAssumption DEF RulingsShaped, Head0
<1>10. RulingsShaped'
  BY <1>1, <1>7, <1>9 DEF RulingsShaped, Settled
<1>11. ThreadsReady'
  <2> SUFFICES ASSUME NEW k \in Thread, k # t
               PROVE  Ready(k)'
    BY <1>5, <1>6, <1>8 DEF ThreadsReady, Ready
  <2>1. Ready(k) /\ Knows(k) /\ thread'[k] = thread[k]
    BY <1>1, <1>6 DEF LedgerInv, ThreadsReady, ThreadsKnow
  <2>2. thread[k].at = "stamp" => thread[k].req \in Request /\ Settled(thread[k].req)
    BY <2>1 DEF Knows, Ending
  <2> QED
    BY <1>1, <1>7, <1>9, <2>1, <2>2 DEF Ready, Recorded
<1>12. Rulings' = Rulings /\ Ticked' = Ticked
  BY <1>1 DEF Rulings, Ticked
<1>13. [Ledger!Next]_(Ledger!vars)
  <2>1. CASE job[r].verdict = "APPROVED" /\ TypeOf[r] = "code" /\ record[e][h] # "skipped"
    <3>1. Rulings[r] = [verdict |-> job[r].verdict, head |-> h] /\ Rulings[r] # None
      BY <1>2, <1>3, <2>1, ValueAssumption DEF Rulings, Settled, Verdict
    <3>2. Ledger!Shows(GateOf[r], r)
      BY <1>2, <3>1 DEF Ledger!Shows, Ours
    <3>3. Ledger!Approve(r)
      BY <1>1, <1>4, <1>12, <2>1, <3>1, <3>2 DEF Ledger!Approve
    <3> QED
      BY <3>3 DEF Ledger!Next
  <2>2. CASE ~(job[r].verdict = "APPROVED" /\ TypeOf[r] = "code" /\ record[e][h] # "skipped")
    BY <1>1, <1>4, <1>12, <2>2 DEF Ledger!vars
  <2> QED
    BY <2>1, <2>2
<1> QED
  BY <1>10, <1>11, <1>13 DEF LedgerInv

(* markCodexReviewDelivered: with the answer in the gate and the approval  *)
(* or the waiver on record.                                                *)
LEMMA StampImplements ==
  ASSUME Inv, LedgerInv, NEW t \in Thread, Stamp(t)
  PROVE  LedgerInv' /\ [Ledger!Next]_(Ledger!vars)
<1>1. /\ TypeOK /\ thread[t].at = "stamp" /\ Knows(t) /\ Ready(t) /\ End(t) /\ up' = up
      /\ RulingsShaped /\ ThreadsKnow /\ UNCHANGED <<record, answer, closed, head, skips>>
  BY DEF Inv, ThreadsKnow, Stamp, At, gateVars, LedgerInv, ThreadsReady
<1>2. PICK r \in Request : r = thread[t].req /\ Settled(r) /\ answer[GateOf[r]] = Ours(r) /\ Recorded(r)
  BY <1>1 DEF Knows, Ending, Ready
<1>3. /\ job' = [job EXCEPT ![r].delivered = TRUE] /\ job[r] \in Job
      /\ job[r].verdict \in Verdict \cup {"SKIPPED"}
  BY <1>1, <1>2 DEF Stamp, TypeOK, RulingsShaped, Settled
<1>4. /\ job'[r].delivered /\ job'[r].status = job[r].status /\ job'[r].verdict = job[r].verdict
      /\ job'[r].head = job[r].head
      /\ \A q \in Request \ {r} : job'[q] = job[q]
  BY <1>1, <1>3 DEF TypeOK, Job
<1>5. \A q \in Request : /\ job'[q].status = job[q].status /\ job'[q].verdict = job[q].verdict
                         /\ job'[q].head = job[q].head
  BY <1>4
<1>6. \A k \in Thread : Rests(k)
  BY <1>1, EndKeeps DEF Rests, Resting, Ending
<1>7. RulingsShaped'
  BY <1>1, <1>5 DEF RulingsShaped, Settled
<1>8. ThreadsReady'
  <2> SUFFICES ASSUME NEW k \in Thread, thread'[k] = thread[k]
               PROVE  Ready(k)'
    BY <1>6 DEF ThreadsReady, Ready, Rests
  <2>1. Ready(k) /\ Knows(k)
    BY <1>1 DEF LedgerInv, ThreadsReady, ThreadsKnow
  <2>2. thread[k].at = "stamp" => thread[k].req \in Request
    BY <2>1 DEF Knows, Ending
  <2> QED
    BY <1>1, <1>5, <2>1, <2>2 DEF Ready, Recorded
<1>9. Rulings' = Rulings /\ Ticked' = Ticked \cup {r}
  BY <1>4, <1>5 DEF Rulings, Ticked
<1>10. Rulings[r] = [verdict |-> job[r].verdict, head |-> job[r].head] /\ Rulings[r] # None
  BY <1>2, <1>3, ValueAssumption DEF Rulings, Settled, Job
<1>11. Ledger!Shows(GateOf[r], r)
  BY <1>2, <1>10 DEF Ledger!Shows, Ours
<1>12. Ledger!OnRecord(r)
  <2>1. TypeOf[r] = "code" /\ job[r].verdict = "SKIPPED" => record[ExecOf[r]][job[r].head] = "skipped"
    BY <1>1, <1>2 DEF RulingsShaped, Settled, Verdict
  <2> QED
    BY <1>2, <1>10, <2>1 DEF Ledger!OnRecord, Recorded
<1>13. Ledger!TickOff(r)
  BY <1>1, <1>9, <1>11, <1>12 DEF Ledger!TickOff
<1> QED
  BY <1>7, <1>8, <1>13 DEF LedgerInv, Ledger!Next

(* A failed answer, a shutdown, a crash and a boot rule on nothing.        *)
LEMMA FailuresRule ==
  ASSUME Inv, LedgerInv, Stop \/ Die \/ Boot \/ \E t \in Thread : RespondFails(t)
  PROVE  Quiet
<1>1. /\ TypeOK /\ UNCHANGED <<answer, closed, head, skips>>
  BY DEF Inv, Stop, Die, Boot, RespondFails, gateVars
<1>2. CASE Stop
  <2>1. job' = job /\ record' = record
    BY <1>2 DEF Stop, storeVars
  <2>2. \A t \in Thread : Rests(t)
    <3>1. \A t \in Thread : thread'[t] = thread[t] \/ thread'[t] = [Idle EXCEPT !.at = "ready"]
      BY <1>2 DEF Stop
    <3>2. [Idle EXCEPT !.at = "ready"].at = "ready"
      BY DEF Idle
    <3> QED
      BY <3>1, <3>2 DEF Rests
  <2> QED
    BY <1>1, <2>1, <2>2, SameJobs DEF Quiet, Still
<1>3. CASE Die
  <2>1. job' = job /\ record' = record
    BY <1>3 DEF Die, storeVars
  <2>2. \A t \in Thread : Rests(t)
    <3>1. \A t \in Thread : thread'[t] = Idle \/ thread'[t] = [Idle EXCEPT !.at = "over"]
      BY <1>3 DEF Die
    <3>2. [Idle EXCEPT !.at = "over"].at = "over" /\ Idle.at = "idle"
      BY DEF Idle
    <3> QED
      BY <3>1, <3>2 DEF Rests
  <2> QED
    BY <1>1, <2>1, <2>2, SameJobs DEF Quiet, Still
<1>4. CASE \E t \in Thread : RespondFails(t)
  <2>1. PICK t \in Thread : RespondFails(t)
    BY <1>4
  <2>2. /\ job' = job /\ record' = record /\ thread[t].at \in Ending /\ End(t) /\ up' = up
    BY <2>1 DEF RespondFails, storeVars, At, Ending
  <2>3. \A k \in Thread : Rests(k)
    BY <2>2, EndKeeps DEF Rests, Resting
  <2> QED
    BY <1>1, <2>2, <2>3, SameJobs DEF Quiet, Still
<1>5. CASE Boot
  <2> DEFINE Marked(e, h) == \E r \in Request : /\ Undelivered(r) /\ job[r].status = "skipped"
                                                /\ TypeOf[r] = "code"
                                                /\ ExecOf[r] = e /\ job[r].head = h
  <2>1. record' = [e \in Exec |-> [h \in 1 .. MaxHead |->
                     IF Marked(e, h) THEN "skipped" ELSE record[e][h]]]
    BY <1>5 DEF Boot
  <2>2. \A e \in Exec, h \in 1 .. MaxHead : Marked(e, h) => record[e][h] = "skipped"
    BY DEF LedgerInv, RulingsShaped
  <2> HIDE DEF Marked
  <2>3. record' = record
    <3>1. record \in [Exec -> [1 .. MaxHead -> Request \cup {"skipped", None}]]
      BY <1>1 DEF TypeOK
    <3>2. \A e \in Exec : [h \in 1 .. MaxHead |-> IF Marked(e, h) THEN "skipped" ELSE record[e][h]]
                            = record[e]
      BY <2>2, <3>1
    <3> QED
      BY <2>1, <3>1, <3>2
  <2>4. \A r \in Request : SameRuling(r)
    <3> TAKE r \in Request
    <3>1. job[r] \in Job
      BY <1>1 DEF TypeOK
    <3>2. job'[r] = IF job[r].status = "running" THEN [job[r] EXCEPT !.status = "pending"] ELSE job[r]
      BY <1>5 DEF Boot
    <3>3. \/ job'[r] = job[r]
          \/ /\ job[r].status = "running" /\ job'[r].status = "pending" /\ job'[r].head = job[r].head
             /\ job'[r].delivered = job[r].delivered
      BY <3>1, <3>2 DEF Job
    <3> QED
      BY <3>3 DEF LedgerInv, RulingsShaped, SameRuling, Settled
  <2>5. \A t \in Thread : Rests(t)
    <3>1. \A t \in Thread : \/ thread'[t] = thread[t]
                            \/ thread'[t] = [Idle EXCEPT !.at = "respond", !.req = t]
      BY <1>5 DEF Boot
    <3>2. \A t : [Idle EXCEPT !.at = "respond", !.req = t].at = "respond"
      BY DEF Idle
    <3> QED
      BY <3>1, <3>2 DEF Rests
  <2> QED
    BY <1>1, <2>3, <2>4, <2>5 DEF Quiet, Still
<1> QED
  BY <1>2, <1>3, <1>4, <1>5

LEMMA OthersImplement ==
  ASSUME Inv, LedgerInv, \/ \E q \in Gate : AnsweredByLead(q) \/ Close(q)
                         \/ \E e \in Exec : Move(e)
                         \/ UNCHANGED vars
  PROVE  LedgerInv' /\ [Ledger!Next]_(Ledger!vars)
<1>1. /\ TypeOK /\ UNCHANGED <<job, record, thread, skips>>
  BY DEF Inv, AnsweredByLead, Close, Move, storeVars, vars
<1>2. Still
  BY <1>1, SameJobs DEF Still, Rests
<1>3. LedgerInv' /\ Rulings' = Rulings /\ Ticked' = Ticked
  BY <1>2, StillKeeps
<1>4. ASSUME NEW q \in Gate, AnsweredByLead(q)
      PROVE  Ledger!AnswerByLead(q)
  BY <1>1, <1>3, <1>4 DEF AnsweredByLead, Ledger!AnswerByLead
<1>5. ASSUME NEW q \in Gate, Close(q)
      PROVE  Ledger!Close(q)
  BY <1>1, <1>3, <1>5 DEF Close, Ledger!Close, gateVars
<1>6. ASSUME NEW e \in Exec, Move(e)
      PROVE  Ledger!Move(e)
  BY <1>1, <1>3, <1>6 DEF Move, Ledger!Move, gateVars
<1>7. CASE UNCHANGED vars
  BY <1>1, <1>3, <1>7 DEF vars, gateVars, Ledger!vars
<1> QED
  BY <1>3, <1>4, <1>5, <1>6, <1>7 DEF Ledger!Next

LEMMA LedgerNext ==
  ASSUME Inv, LedgerInv, [Next]_vars
  PROVE  LedgerInv' /\ [Ledger!Next]_(Ledger!vars)
<1>1. ASSUME Quiet \/ \E r \in Request : Ruled(r)
      PROVE  LedgerInv' /\ [Ledger!Next]_(Ledger!vars)
  BY <1>1, QuietImplements, RuledImplements DEF Ledger!Next
<1>2. ASSUME NEW t \in Thread, Respond(t) \/ RespondFails(t) \/ Authorise(t) \/ Stamp(t)
      PROVE  LedgerInv' /\ [Ledger!Next]_(Ledger!vars)
  BY <1>1, <1>2, RespondImplements, FailuresRule, AuthoriseImplements, StampImplements
<1>3. ASSUME NEW p \in Post, Admit(p) \/ Replay(p) \/ PostStep(p)
      PROVE  LedgerInv' /\ [Ledger!Next]_(Ledger!vars)
  BY <1>1, <1>2, <1>3, AcceptRules DEF PostStep, Thread
<1>4. ASSUME NEW e \in Exec, WorkerStep(e)
      PROVE  LedgerInv' /\ [Ledger!Next]_(Ledger!vars)
  BY <1>1, <1>2, <1>4, WorkerRules DEF WorkerStep, Thread
<1>5. ASSUME NEW r \in Request, OutboxStep(r)
      PROVE  LedgerInv' /\ [Ledger!Next]_(Ledger!vars)
  BY <1>2, <1>5 DEF OutboxStep, Thread
<1>6. CASE Stop \/ Die \/ Boot
  BY <1>1, <1>6, FailuresRule
<1>7. CASE \/ \E q \in Gate : AnsweredByLead(q) \/ Close(q)
           \/ \E e \in Exec : Move(e)
           \/ UNCHANGED vars
  BY <1>7, OthersImplement
<1> QED
  BY <1>3, <1>4, <1>5, <1>6, <1>7 DEF Next

LEMMA LedgerInit == Init => LedgerInv /\ Ledger!Init
<1> SUFFICES ASSUME Init
             PROVE  LedgerInv /\ Ledger!Init
  OBVIOUS
<1>1. \A r \in Request : job[r] = NoJob
  BY DEF Init
<1>2. NoJob.status = "absent" /\ NoJob.head = 0 /\ ~NoJob.delivered
  BY DEF NoJob
<1>3. \A t \in Thread : thread[t].at = "idle"
  BY DEF Init, Idle
<1>4. RulingsShaped /\ ThreadsReady
  BY <1>1, <1>2, <1>3 DEF RulingsShaped, Settled, ThreadsReady, Ready
<1>5. Rulings = [r \in Request |-> None] /\ Ticked = {}
  BY <1>1, <1>2 DEF Rulings, Ticked
<1> QED
  BY <1>4, <1>5 DEF Init, LedgerInv, Ledger!Init

(* Posts, workers, the outbox, crashes and boots do no more than the       *)
(* ledger does, for every set of requests, executions, gates and posts.    *)
THEOREM LedgerImplemented == Spec => ImplementsLedger
<1>1. Init => LedgerInv /\ Ledger!Init
  BY LedgerInit
<1>2. Inv /\ LedgerInv /\ [Next]_vars => LedgerInv' /\ [Ledger!Next]_(Ledger!vars)
  BY LedgerNext
<1> QED
  BY <1>1, <1>2, Invariant, PTL DEF Spec, ImplementsLedger, Ledger!Spec
=============================================================================
