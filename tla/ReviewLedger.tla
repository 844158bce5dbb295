---------------------------- MODULE ReviewLedger ----------------------------
(***************************************************************************)
(* What the review lane promises, with no post, worker, slot, outbox,      *)
(* crash or boot in it: a request is ruled on once, a code request on the  *)
(* head the worktree has at that moment; a gate takes one answer, and      *)
(* takes it while it is open; a head is approved by a ruling that its own  *)
(* gate shows; and a ruling is ticked off only with its answer in the gate *)
(* and with what it means for the head on record.                          *)
(***************************************************************************)
EXTENDS Naturals

CONSTANTS Exec, Request, Gate, ExecOf, TypeOf, GateOf, MaxHead, None, Foreign

VARIABLES
  head,     \* the head of each worktree
  skips,    \* the executions whose reviews are waived
  ruling,   \* request -> its verdict and the head it is about, or None
  answer,   \* gate -> the ruling it shows, Foreign, or None
  closed,   \* gate -> resolved or expired
  record,   \* execution, head -> the request that approved it, "skipped", or None
  ticked    \* the requests that are through

vars == <<head, skips, ruling, answer, closed, record, ticked>>

Shows(q, r) ==
  ruling[r] # None /\ answer[q] = [req |-> r, verdict |-> ruling[r].verdict]

(* What a ruling on code means for its head is on record. *)
OnRecord(r) ==
  TypeOf[r] = "code" =>
    LET entry == record[ExecOf[r]][ruling[r].head] IN
      /\ ruling[r].verdict = "SKIPPED" => entry = "skipped"
      /\ ruling[r].verdict = "APPROVED" => entry # None

Init ==
  /\ ruling = [r \in Request |-> None]
  /\ answer = [q \in Gate |-> None]
  /\ closed = [q \in Gate |-> FALSE]
  /\ record = [e \in Exec |-> [h \in 1 .. MaxHead |-> None]]
  /\ ticked = {}

(* A reviewed request gets its verdict, a waived one is skipped. *)
Rule(r) ==
  /\ ruling[r] = None
  /\ \E v \in {"APPROVED", "CHANGES_REQUESTED", "SKIPPED"} :
       LET e == ExecOf[r]
           h == IF TypeOf[r] = "code" THEN head[e] ELSE 0 IN
         /\ v = "SKIPPED" => e \in skips
         /\ ruling' = [ruling EXCEPT ![r] = [verdict |-> v, head |-> h]]
         /\ record' = IF v = "SKIPPED" /\ TypeOf[r] = "code"
                        THEN [record EXCEPT ![e][h] = "skipped"] ELSE record
  /\ UNCHANGED <<head, skips, answer, closed, ticked>>

Respond(r) ==
  /\ ruling[r] # None /\ answer[GateOf[r]] = None /\ ~closed[GateOf[r]]
  /\ answer' = [answer EXCEPT ![GateOf[r]] = [req |-> r, verdict |-> ruling[r].verdict]]
  /\ UNCHANGED <<head, skips, ruling, closed, record, ticked>>

(* An approval of code, never over a head whose review was waived. *)
Approve(r) ==
  /\ Shows(GateOf[r], r) /\ ruling[r].verdict = "APPROVED" /\ TypeOf[r] = "code"
  /\ LET e == ExecOf[r]  h == ruling[r].head IN
       /\ record[e][h] # "skipped"
       /\ record' = [record EXCEPT ![e][h] = r]
  /\ UNCHANGED <<head, skips, ruling, answer, closed, ticked>>

TickOff(r) ==
  /\ Shows(GateOf[r], r) /\ OnRecord(r)
  /\ ticked' = ticked \cup {r}
  /\ UNCHANGED <<head, skips, ruling, answer, closed, record>>

AnswerByLead(q) ==
  /\ answer[q] = None /\ answer' = [answer EXCEPT ![q] = Foreign]
  /\ UNCHANGED <<head, skips, ruling, closed, record, ticked>>

Close(q) ==
  /\ ~closed[q] /\ closed' = [closed EXCEPT ![q] = TRUE]
  /\ UNCHANGED <<head, skips, ruling, answer, record, ticked>>

Move(e) ==
  /\ head' = [head EXCEPT ![e] = @ + 1]
  /\ UNCHANGED <<skips, ruling, answer, closed, record, ticked>>

Next ==
  \/ \E r \in Request : Rule(r) \/ Respond(r) \/ Approve(r) \/ TickOff(r)
  \/ \E q \in Gate : AnswerByLead(q) \/ Close(q)
  \/ \E e \in Exec : Move(e)

Spec == Init /\ [][Next]_vars
=============================================================================
