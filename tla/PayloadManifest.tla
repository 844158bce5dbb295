-------------------------- MODULE PayloadManifest --------------------------
(***************************************************************************)
(* The manifest of the payload endpoint and the one place that judges a    *)
(* write to it: the transition classifier, the capability table and the    *)
(* full-state validator (packages/payload-endpoint/src).                   *)
(*                                                                         *)
(* A version is <<base, n>>: the n-th beta of a base, or the clean version *)
(* when n = 0.  An object key is <<version, sha>>, so a record's key is    *)
(* derived from its sha.  A clock is "null", "running" or, once the        *)
(* retention window has passed since its timestamp, "elapsed".             *)
(***************************************************************************)
EXTENDS Naturals

CONSTANTS
  OpId,      \* release ids
  Base,      \* clean semvers
  Commit,    \* source commits
  Sha,       \* payload hashes
  MaxBeta,   \* bound on the betas of a base
  None

ASSUME MaxBetaAssumption == MaxBeta \in Nat
ASSUME NoneAssumption == None \notin OpId \cup Commit \cup Sha \cup (Base \X Nat)

Ver == Base \X (0 .. MaxBeta)
IsBeta(v) == v[2] > 0
Clean(v) == <<v[1], 0>>
Channel == {"beta", "release"}
ChannelOf(v) == IF IsBeta(v) THEN "beta" ELSE "release"
Key == Ver \X Sha
Clock == {"null", "running", "elapsed"}
Capability == {"beta-publish", "customer-release", "ops-admin"}

Op == [state : {"absent", "reserved", "prepared", "committed", "abandoned"},
       ver : Ver \cup {None}, beta : Ver \cup {None},
       commit : Commit \cup {None}, sha : Sha \cup {None}]
Entry == [status : {"absent", "active", "quarantined", "expired"},
          op : OpId \cup {None}, commit : Commit \cup {None}, sha : Sha \cup {None},
          beta : Ver \cup {None}, since : Clock, quarantined : Clock]
Manifest == [latest : [Channel -> Ver \cup {None}], op : [OpId -> Op],
             entry : [Ver -> Entry], next : [Base -> 1 .. MaxBeta + 1],
             tombs : SUBSET Key]

NoOp == [state |-> "absent", ver |-> None, beta |-> None, commit |-> None, sha |-> None]
NoEntry == [status |-> "absent", op |-> None, commit |-> None, sha |-> None,
            beta |-> None, since |-> "null", quarantined |-> "null"]
Empty == [latest |-> [c \in Channel |-> None], op |-> [i \in OpId |-> NoOp],
          entry |-> [v \in Ver |-> NoEntry], next |-> [b \in Base |-> 1], tombs |-> {}]

Present(m, v) == m.entry[v].status # "absent"
Latest(m, v)  == \E c \in Channel : m.latest[c] = v
Live(o)       == o.state \in {"reserved", "prepared"}
LiveClaim(m, k) ==
  \E i \in OpId : Live(m.op[i]) /\ m.op[i].ver = k[1] /\ m.op[i].sha = k[2]
Added(old, new)    == {v \in Ver : ~Present(old, v) /\ Present(new, v)}
Reserved(old, new) == {i \in OpId : old.op[i].state = "absent" /\ new.op[i].state # "absent"}
Moved(old, new)    == {v \in Ver : Present(old, v) /\ old.entry[v].status # new.entry[v].status}

-----------------------------------------------------------------------------
(* applyTransition: what a diff may do. *)

StatusMoves == {<<"active", "quarantined">>, <<"active", "expired">>,
                <<"quarantined", "expired">>}
StateMoves == {<<"reserved", "prepared">>, <<"reserved", "abandoned">>,
               <<"prepared", "committed">>, <<"prepared", "abandoned">>}

EntryMoves(old, new) ==
  \A v \in Ver : Present(old, v) =>
    LET o == old.entry[v] n == new.entry[v] IN
      /\ <<n.sha, n.commit, n.op, n.beta>> = <<o.sha, o.commit, o.op, o.beta>>
      /\ o.status # n.status => <<o.status, n.status>> \in StatusMoves

(* A tuple field is written once, and only while the op is reserved. *)
OpMoves(old, new) ==
  \A i \in OpId :
    LET o == old.op[i] n == new.op[i] IN
      IF o.state = "absent" THEN n = NoOp \/ n.state = "reserved"
      ELSE /\ <<n.ver, n.beta>> = <<o.ver, o.beta>>
           /\ <<n.commit, n.sha>> # <<o.commit, o.sha>> => o.state = "reserved"
           /\ o.commit # None => n.commit = o.commit
           /\ o.sha # None => n.sha = o.sha
           /\ o.state # n.state => <<o.state, n.state>> \in StateMoves

(* A beta reservation takes the ledger's next number and advances it in    *)
(* the same write; nothing else moves the ledger.                          *)
LedgerFused(old, new) ==
  LET betas == {i \in Reserved(old, new) : IsBeta(new.op[i].ver)} IN
    /\ \A b \in Base : new.next[b] # old.next[b] =>
         /\ new.next[b] = old.next[b] + 1
         /\ \E i \in betas : new.op[i].ver = <<b, old.next[b]>>
    /\ \A i \in betas : \E b \in Base :
         new.op[i].ver = <<b, old.next[b]>> /\ new.next[b] = old.next[b] + 1

(* A bug: a quarantined version expires by the clock of its retention. *)
ExpiryClockSince(e) == e.since

(* The clock expire looks at. *)
ExpiryClock(e) == IF e.status = "quarantined" THEN e.quarantined ELSE e.since

WindowElapsed(old, new) ==
  \A v \in Moved(old, new) : new.entry[v].status = "expired" =>
    ~Latest(new, v) /\ ExpiryClock(old.entry[v]) = "elapsed"

LegalDiff(old, new) ==
  /\ EntryMoves(old, new) /\ OpMoves(old, new) /\ LedgerFused(old, new)
  /\ old.tombs \subseteq new.tombs
  /\ WindowElapsed(old, new)

(* The server owns the timestamps: a client's are overwritten. *)
StampSince(old, new, v) ==
  IF Latest(new, v) THEN "null"
  ELSE IF ~Present(old, v) \/ Latest(old, v) THEN "running" ELSE old.entry[v].since
StampQuarantine(old, new, v) ==
  IF old.entry[v].status = "active" /\ new.entry[v].status = "quarantined"
    THEN "running" ELSE old.entry[v].quarantined
Stamp(old, new) ==
  [new EXCEPT !.entry = [v \in Ver |->
     IF Present(new, v)
       THEN [new.entry[v] EXCEPT !.since = StampSince(old, new, v),
                                 !.quarantined = StampQuarantine(old, new, v)]
       ELSE NoEntry]]

-----------------------------------------------------------------------------
(* capabilityAllows: who may make which part of a diff. *)

PublisherOf(v) == IF IsBeta(v) THEN "beta-publish" ELSE "customer-release"

CapabilityAllows(cap, old, new) ==
  /\ old.latest["beta"] # new.latest["beta"] => cap = "beta-publish"
  /\ old.latest["release"] # new.latest["release"] => cap = "customer-release"
  /\ \A v \in Added(old, new) : cap = PublisherOf(v)
  /\ \A v \in Moved(old, new) :
       cap = IF new.entry[v].status = "quarantined" THEN "customer-release" ELSE "ops-admin"
  /\ Reserved(old, new) # {} => cap = "beta-publish"
  /\ \A i \in OpId : LET o == old.op[i] n == new.op[i] IN o.state # "absent" =>
       /\ <<n.commit, n.sha>> # <<o.commit, o.sha>> => cap = "beta-publish"
       /\ o.state # n.state =>
            CASE n.state = "prepared"  -> cap = "beta-publish"
              [] n.state = "committed" -> cap = PublisherOf(o.ver)
              [] n.state = "abandoned" -> cap \in {"ops-admin", PublisherOf(o.ver)}
              [] OTHER -> FALSE
  /\ old.tombs # new.tombs => cap = "ops-admin"

-----------------------------------------------------------------------------
(* validateManifest: what every stored manifest satisfies. *)

EntriesValid(m) ==
  \A v \in Ver : LET e == m.entry[v] IN Present(m, v) =>
    /\ e.op # None /\ \A w \in Ver : m.entry[w].op = e.op => w = v
    /\ IF IsBeta(v) THEN e.beta = None
       ELSE /\ e.beta \in Ver /\ IsBeta(e.beta) /\ Clean(e.beta) = v
            /\ Present(m, e.beta) /\ m.entry[e.beta].commit = e.commit
    /\ e.status = "quarantined" => e.quarantined # "null"

(* A bug: a pointer may name any version of the channel. *)
PointersNamed(m) ==
  \A c \in Channel :
    IF m.latest[c] = None THEN \A v \in Ver : Present(m, v) => ChannelOf(v) # c
    ELSE Present(m, m.latest[c]) /\ ChannelOf(m.latest[c]) = c

PointersValid(m) ==
  \A c \in Channel :
    IF m.latest[c] = None THEN \A v \in Ver : Present(m, v) => ChannelOf(v) # c
    ELSE m.entry[m.latest[c]].status = "active" /\ ChannelOf(m.latest[c]) = c

TenureValid(m) ==
  \A v \in Ver :
    IF Latest(m, v) THEN m.entry[v].since = "null"
    ELSE m.entry[v].status = "active" => m.entry[v].since # "null"

OpsValid(m) ==
  \A i \in OpId : LET o == m.op[i] IN o.state # "absent" =>
    /\ o.ver \in Ver
    /\ IF IsBeta(o.ver) THEN o.beta = None
       ELSE o.beta \in Ver /\ IsBeta(o.beta) /\ Clean(o.beta) = o.ver
    /\ o.state \in {"prepared", "committed"} => o.commit # None /\ o.sha # None

(* Each version belongs to one committed op with the same tuple, and each  *)
(* committed op has its version.                                           *)
CommittedMatch(m) ==
  /\ \A v \in Ver : LET e == m.entry[v] IN Present(m, v) =>
       /\ m.op[e.op].state = "committed"
       /\ m.op[e.op].ver = v /\ m.op[e.op].beta = e.beta
       /\ m.op[e.op].sha = e.sha /\ m.op[e.op].commit = e.commit
  /\ \A i \in OpId : m.op[i].state = "committed" =>
       \E v \in Ver : Present(m, v) /\ m.entry[v].op = i

(* A bug: a tombstoned object may be claimed again. *)
TombstonesUnclaimed(m) ==
  \A k \in m.tombs :
    Present(m, k[1]) /\ m.entry[k[1]].sha = k[2] => m.entry[k[1]].status = "expired"

(* Only records at their end refer to a tombstoned object. *)
TombstonesTerminal(m) ==
  \A k \in m.tombs :
    /\ Present(m, k[1]) /\ m.entry[k[1]].sha = k[2] => m.entry[k[1]].status = "expired"
    /\ ~LiveClaim(m, k)

Valid(m) ==
  /\ EntriesValid(m) /\ PointersValid(m) /\ TenureValid(m)
  /\ OpsValid(m) /\ CommittedMatch(m) /\ TombstonesTerminal(m)

(* The POST handler's verdict on a candidate whose base is the current     *)
(* manifest; the head check of added objects is the endpoint's.            *)
Accepts(cap, old, new) ==
  /\ LegalDiff(old, new)
  /\ CapabilityAllows(cap, old, new)
  /\ Valid(Stamp(old, new))
=============================================================================
