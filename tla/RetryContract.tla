---------------------------- MODULE RetryContract ----------------------------
(***************************************************************************)
(* What a founder-confirmed retry promises, with no gateway, bridge, WAL,  *)
(* claim, commit file, mutex or crash in it: a request is open until it is *)
(* settled, once; the founder's consent is consumed once, while it is      *)
(* open; a call is sent only for an open request with consent; of all the  *)
(* calls of a request at most one becomes a runner; and a request succeeds *)
(* only if a call was sent for it.                                         *)
(***************************************************************************)
CONSTANTS Request, Call, RequestOf

VARIABLES
  state,     \* request -> "none", "open", or how it was settled
  consumed,  \* the requests whose consent is consumed
  sent,      \* the calls that were sent
  started    \* the calls whose launch became a runner

vars == <<state, consumed, sent, started>>

Init ==
  /\ state = [r \in Request |-> "none"]
  /\ consumed = {} /\ sent = {} /\ started = {}

Ask(r) ==
  /\ state[r] = "none" /\ state' = [state EXCEPT ![r] = "open"]
  /\ UNCHANGED <<consumed, sent, started>>

Consume(r) ==
  /\ state[r] = "open" /\ r \notin consumed
  /\ consumed' = consumed \cup {r}
  /\ UNCHANGED <<state, sent, started>>

Send(c) ==
  /\ state[RequestOf[c]] = "open" /\ RequestOf[c] \in consumed /\ c \notin sent
  /\ sent' = sent \cup {c}
  /\ UNCHANGED <<state, consumed, started>>

(* The one start of a request, which may come after it was settled. *)
Start(c) ==
  /\ c \in sent /\ \A d \in started : RequestOf[d] # RequestOf[c]
  /\ started' = started \cup {c}
  /\ UNCHANGED <<state, consumed, sent>>

(* Without consent a request can only be refused. *)
Settle(r) ==
  /\ state[r] = "open"
  /\ \E s \in {"succeeded", "ambiguous", "not_dispatched", "refused"} :
       /\ s # "refused" => r \in consumed
       /\ s = "succeeded" => \E c \in sent : RequestOf[c] = r
       /\ state' = [state EXCEPT ![r] = s]
  /\ UNCHANGED <<consumed, sent, started>>

Next ==
  \/ \E r \in Request : Ask(r) \/ Consume(r) \/ Settle(r)
  \/ \E c \in Call : Send(c) \/ Start(c)

Spec == Init /\ [][Next]_vars

=============================================================================
