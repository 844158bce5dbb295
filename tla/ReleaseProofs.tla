---------------------------- MODULE ReleaseProofs ----------------------------
(***************************************************************************)
(* The release pipeline keeps its types and the manifest stays valid, for  *)
(* any release ids, runs and payloads and whatever stops on the way.  The  *)
(* invariant also says what each run and each upload knows of its release  *)
(* id, and that a commit that is still fresh will be valid when it lands.  *)
(***************************************************************************)
EXTENDS ReleasePipeline, PayloadProofs

(* What becomes of an op: it keeps its version and its payload, and a      *)
(* committed one stays committed.                                          *)
OpsGrow(old, new) ==
  \A i \in OpId : old.op[i].state # "absent" =>
    /\ new.op[i].state # "absent" /\ new.op[i].ver = old.op[i].ver
    /\ old.op[i].sha # None => new.op[i].sha = old.op[i].sha
    /\ old.op[i].state \in {"committed", "abandoned"} => new.op[i].state = old.op[i].state

AbsentOps(m) == \A i \in OpId : m.op[i].state = "absent" => m.op[i] = NoOp

RunKnown(r) ==
  /\ pc[r] \in {"build", "register", "upload", "sending", "readback", "prepare", "commit",
                "committing"}
       => OpRec(r).state # "absent"
  /\ pc[r] \in {"register", "upload", "sending", "readback", "prepare", "commit", "committing"}
       => built[r] \in Sha
  /\ pc[r] \in {"upload", "sending", "readback", "prepare", "commit", "committing"}
       => OpRec(r).state = "committed" \/ OpRec(r).sha = built[r]
  /\ put[r] # "none" =>
       /\ OpRec(r).state # "absent" /\ built[r] \in Sha /\ OpRec(r).sha = built[r]
       /\ pc[r] \in {"sending", "readback", "prepare", "commit", "committing", "done", "failed"}

FreshKnown(r) == r \in fresh =>
  /\ pc[r] \in {"committing", "failed"} /\ built[r] \in Sha /\ OpRec(r).state = "prepared"
  /\ ~Present(manifest, OpRec(r).ver)
  /\ Valid(Stamp(manifest, Committed(r)))

Inv ==
  /\ TypeOK
  /\ Valid(manifest) /\ AbsentOps(manifest)
  /\ \A r \in Run : RunKnown(r) /\ FreshKnown(r)

-----------------------------------------------------------------------------
(* Manifests. *)

(* The empty manifest is valid. *)
LEMMA EmptyValid == Empty \in Manifest /\ Valid(Empty) /\ AbsentOps(Empty)
<1>1. NoOp \in Op /\ NoEntry \in Entry
  BY DEF NoOp, Op, NoEntry, Entry, Clock
<1>2. Empty \in Manifest
  BY <1>1, MaxBetaAssumption DEF Empty, Manifest
<1>3. /\ \A c \in Channel : Empty.latest[c] = None
      /\ \A i \in OpId : Empty.op[i] = NoOp /\ Empty.op[i].state = "absent"
      /\ \A v \in Ver : ~Present(Empty, v) /\ Empty.entry[v].status = "absent"
      /\ Empty.tombs = {}
  BY DEF Empty, NoOp, NoEntry, Present
<1>4. EntriesValid(Empty) /\ PointersValid(Empty) /\ OpsValid(Empty) /\ CommittedMatch(Empty)
      /\ TombstonesTerminal(Empty) /\ AbsentOps(Empty)
  BY <1>3 DEF EntriesValid, PointersValid, OpsValid, CommittedMatch, TombstonesTerminal, AbsentOps
<1>5. TenureValid(Empty)
  BY <1>3, NoneAssumption DEF TenureValid, Latest, Ver, Present
<1> QED
  BY <1>2, <1>4, <1>5 DEF Valid

(* Writing one op changes this op alone. *)
LEMMA SetOpFields ==
  ASSUME manifest \in Manifest, NEW i \in OpId, NEW o \in Op
  PROVE  LET m == SetOp(i, o) IN
         /\ m \in Manifest
         /\ m.latest = manifest.latest /\ m.entry = manifest.entry
         /\ m.next = manifest.next /\ m.tombs = manifest.tombs
         /\ m.op = [manifest.op EXCEPT ![i] = o]
<1> DEFINE f == [manifest.op EXCEPT ![i] = o]
<1>1. SetOp(i, o) = [manifest EXCEPT !.op = f]
  BY DEF SetOp, Manifest
<1>2. f \in [OpId -> Op]
  BY DEF Manifest
<1> HIDE DEF f
<1>3. /\ [manifest EXCEPT !.op = f] \in Manifest
      /\ [manifest EXCEPT !.op = f].op = f
  BY <1>2 DEF Manifest
<1> QED
  BY <1>1, <1>3 DEF Manifest, f

(* A diff the classifier lets pass keeps what an op has fixed. *)
LEMMA MovesGrow ==
  ASSUME NEW old \in Manifest, NEW new \in Manifest, OpMoves(old, new)
  PROVE  OpsGrow(old, new)
<1> SUFFICES ASSUME NEW i \in OpId, old.op[i].state # "absent"
             PROVE  /\ new.op[i].state # "absent" /\ new.op[i].ver = old.op[i].ver
                    /\ old.op[i].sha # None => new.op[i].sha = old.op[i].sha
                    /\ old.op[i].state \in {"committed", "abandoned"} =>
                         new.op[i].state = old.op[i].state
  BY DEF OpsGrow
<1>1. /\ <<new.op[i].ver, new.op[i].beta>> = <<old.op[i].ver, old.op[i].beta>>
      /\ old.op[i].sha # None => new.op[i].sha = old.op[i].sha
      /\ old.op[i].state # new.op[i].state => <<old.op[i].state, new.op[i].state>> \in StateMoves
  BY DEF OpMoves
<1> QED
  BY <1>1 DEF StateMoves

(* A write the endpoint accepts leaves a valid manifest. *)
LEMMA PostValid ==
  ASSUME TypeOK, AbsentOps(manifest), NEW cap, NEW c \in Manifest, Post(cap, c)
  PROVE  /\ manifest' \in Manifest /\ Valid(manifest') /\ AbsentOps(manifest')
         /\ OpsGrow(manifest, manifest')
         /\ manifest'.op = c.op /\ fresh' = {}
<1>1. /\ manifest' = Stamp(manifest, c) /\ fresh' = {}
      /\ LegalDiff(manifest, c) /\ Valid(manifest')
  BY DEF Post, Accepts
<1>2. manifest' \in Manifest /\ manifest'.op = c.op
  BY <1>1, StampFields DEF TypeOK
<1>3. OpMoves(manifest, c)
  BY <1>1 DEF LegalDiff
<1>4. OpsGrow(manifest, c)
  BY <1>3, MovesGrow DEF TypeOK
<1>5. AbsentOps(manifest')
  <2> SUFFICES ASSUME NEW i \in OpId, c.op[i].state = "absent" PROVE c.op[i] = NoOp
    BY <1>2 DEF AbsentOps
  <2>1. manifest.op[i].state = "absent"
    BY <1>4 DEF OpsGrow
  <2> QED
    BY <2>1, <1>3 DEF OpMoves
<1> QED
  BY <1>1, <1>2, <1>4, <1>5 DEF OpsGrow

-----------------------------------------------------------------------------
(* Runs a step does not belong to. *)

(* What a run knows outlives the writes of others. *)
LEMMA RunKeeps ==
  ASSUME NEW r \in Run, RunKnown(r), OpsGrow(manifest, manifest'),
         pc'[r] = pc[r], built'[r] = built[r], put'[r] = put[r]
  PROVE  RunKnown(r)'
<1>1. OpOf[r] \in OpId
  BY RunAssumption
<1>2. built[r] \in Sha => built[r] # None
  BY NoneAssumption
<1> QED
  BY <1>1, <1>2 DEF RunKnown, OpRec, OpsGrow

(* An unchanged manifest has the same ops. *)
LEMMA UnchangedGrows ==
  ASSUME UNCHANGED manifest PROVE OpsGrow(manifest, manifest')
BY DEF OpsGrow

(* A commit stays fresh as long as nobody writes. *)
LEMMA FreshKeeps ==
  ASSUME NEW r \in Run, FreshKnown(r), r \in fresh' => r \in fresh,
         UNCHANGED manifest, pc'[r] = pc[r], built'[r] = built[r]
  PROVE  FreshKnown(r)'
<1>1. Committed(r)' = Committed(r) /\ OpRec(r)' = OpRec(r)
  BY DEF Committed, OpRec, SetOp
<1> QED
  BY <1>1 DEF FreshKnown

(* A step that leaves the manifest alone and moves only run r. *)
LEMMA OthersKeep ==
  ASSUME Inv, NEW r \in Run, UNCHANGED manifest,
         \A q \in Run \ {r} : /\ pc'[q] = pc[q] /\ built'[q] = built[q] /\ put'[q] = put[q]
                              /\ q \in fresh' => q \in fresh
  PROVE  \A q \in Run \ {r} : RunKnown(q)' /\ FreshKnown(q)'
BY RunKeeps, FreshKeeps, UnchangedGrows DEF Inv

(* A write that leaves no commit fresh and moves only run r. *)
LEMMA OthersKeepPost ==
  ASSUME Inv, NEW r \in Run, OpsGrow(manifest, manifest'), fresh' = {},
         \A q \in Run \ {r} : pc'[q] = pc[q] /\ built'[q] = built[q] /\ put'[q] = put[q]
  PROVE  \A q \in Run \ {r} : RunKnown(q)' /\ FreshKnown(q)'
BY RunKeeps DEF Inv, FreshKnown

-----------------------------------------------------------------------------
(* The steps of a run. *)

(* A write of the run's op and nothing a customer sees; only a run that is *)
(* about to makes an op prepared.                                          *)
OpWrite(r) ==
  \E cap \in Capability, c \in Manifest :
    /\ Post(cap, c)
    /\ c.latest = manifest.latest /\ c.entry = manifest.entry /\ c.tombs = manifest.tombs
    /\ \A i \in OpId \ {OpOf[r]} : c.op[i] = manifest.op[i]
    /\ \A i \in OpId : c.op[i].state = "prepared" /\ manifest.op[i].state # "prepared" =>
         i = OpOf[r] /\ pc[r] = "prepare" /\ OpRec(r).state = "reserved"

Effect(r) == UNCHANGED manifest \/ OpWrite(r)

(* What a step of a run leaves alone, in its types. *)
Outside == UNCHANGED <<cleanupVars, withdraws>> /\ Tenure

(* casUpdate: refused, or a valid write. *)
LEMMA UpdateKeeps ==
  ASSUME Inv, NEW r \in Run, NEW cap \in Capability, NEW c \in Manifest, NEW to \in ScriptState,
         Update(r, cap, c, to), Outside, pc[r] \notin {"committing", "failed"},
         c.latest = manifest.latest, c.entry = manifest.entry, c.tombs = manifest.tombs,
         NEW new, c.op = [manifest.op EXCEPT ![OpOf[r]] = new],
         new.state = "prepared" => \/ OpRec(r).state = "prepared"
                                   \/ pc[r] = "prepare" /\ OpRec(r).state = "reserved",
         Post(cap, c) /\ OpsGrow(manifest, manifest') => RunKnown(r)'
  PROVE  Inv' /\ Effect(r)
<1> USE DEF Update, Goes
<1>0. rested' \subseteq Ver /\ UNCHANGED takenBack
  BY DEF Outside, Tenure, Inv, TypeOK
<1>1. CASE ~Accepts(cap, manifest, c)
  <2>1. UNCHANGED <<manifest, objects, put, built, fresh>> /\ pc' = [pc EXCEPT ![r] = "failed"]
    BY <1>1
  <2>2. TypeOK'
    BY <2>1, <1>0 DEF Inv, TypeOK, Outside, cleanupVars, ScriptState
  <2>3. RunKnown(r)' /\ FreshKnown(r)'
    <3>1. pc'[r] = "failed" /\ OpRec(r)' = OpRec(r)
      BY <2>1 DEF Inv, TypeOK, OpRec
    <3>2. r \notin fresh
      BY DEF Inv, FreshKnown
    <3> QED
      BY <3>1, <3>2, <2>1 DEF Inv, RunKnown, FreshKnown
  <2>4. \A q \in Run \ {r} : RunKnown(q)' /\ FreshKnown(q)'
    BY <2>1, OthersKeep DEF Inv, TypeOK
  <2>5. Valid(manifest') /\ AbsentOps(manifest')
    BY <2>1 DEF Inv
  <2> QED
    BY <2>1, <2>2, <2>3, <2>4, <2>5 DEF Inv, Effect
<1>2. CASE Accepts(cap, manifest, c)
  <2>1. Post(cap, c) /\ UNCHANGED <<objects, put, built>> /\ pc' = [pc EXCEPT ![r] = to]
    BY <1>2
  <2>2. /\ manifest' \in Manifest /\ Valid(manifest') /\ AbsentOps(manifest')
        /\ OpsGrow(manifest, manifest') /\ fresh' = {}
    BY <2>1, PostValid DEF Inv
  <2>3. TypeOK'
    BY <2>1, <2>2, <1>0 DEF Inv, TypeOK, Outside, cleanupVars
  <2>4. RunKnown(r)' /\ FreshKnown(r)'
    BY <2>1, <2>2 DEF FreshKnown
  <2>5. \A q \in Run \ {r} : RunKnown(q)' /\ FreshKnown(q)'
    BY <2>1, <2>2, OthersKeepPost DEF Inv, TypeOK
  <2>6. \A i \in OpId : c.op[i].state = "prepared" /\ manifest.op[i].state # "prepared" =>
          i = OpOf[r] /\ pc[r] = "prepare" /\ OpRec(r).state = "reserved"
    BY DEF Inv, TypeOK, Manifest, OpRec
  <2>u. \A i \in OpId \ {OpOf[r]} : c.op[i] = manifest.op[i]
    BY DEF Inv, TypeOK, Manifest
  <2>7. OpWrite(r)
    BY <2>1, <2>6, <2>u DEF OpWrite
  <2> QED
    BY <2>2, <2>3, <2>4, <2>5, <2>7 DEF Inv, Effect
<1> QED
  BY <1>1, <1>2 DEF Effect

(* A step that reads the manifest and moves the run. *)
LEMMA MoveKeeps ==
  ASSUME Inv, NEW r \in Run, NEW to \in ScriptState, Goes(r, to), Outside,
         UNCHANGED <<manifest, objects, fresh>>, pc[r] \notin {"committing", "failed"},
         built' = built \/ \E s \in Sha : built' = [built EXCEPT ![r] = s],
         put' = put \/ put' = [put EXCEPT ![r] = "asked"],
         RunKnown(r)'
  PROVE  Inv' /\ Effect(r)
<1>1. rested' \subseteq Ver /\ UNCHANGED takenBack
  BY DEF Outside, Tenure, Inv, TypeOK
<1>2. TypeOK'
  BY <1>1 DEF Inv, TypeOK, Outside, cleanupVars, Goes, UploadState
<1>3. FreshKnown(r)'
  BY DEF Inv, FreshKnown
<1>4. \A q \in Run \ {r} : RunKnown(q)' /\ FreshKnown(q)'
  BY OthersKeep DEF Inv, TypeOK, Goes
<1> QED
  BY <1>2, <1>3, <1>4 DEF Inv, Effect

(* Reading the manifest, a run learns nothing that gets lost. *)
LEMMA StartKeeps ==
  ASSUME Inv, NEW r \in Run, Start(r), Outside PROVE Inv' /\ Effect(r)
<1>1. \E to \in {"done", "reserve"} : Goes(r, to)
  BY DEF Start
<1>2. UNCHANGED <<manifest, objects, put, fresh, built>> /\ pc[r] = "idle"
  BY DEF Start, Keeps, endpointVars, At
<1>3. RunKnown(r)'
  BY <1>1, <1>2 DEF Inv, TypeOK, RunKnown, Goes
<1> QED
  BY <1>1, <1>2, <1>3, MoveKeeps DEF ScriptState

(* A reservation: the release id has its version from now on. *)
LEMMA ReserveBetaKeeps ==
  ASSUME Inv, NEW r \in Run, ReserveBeta(r), Outside PROVE Inv' /\ Effect(r)
<1> DEFINE b == BaseAt[CommitOf[r]]
           n == manifest.next[b]
           new == [NoOp EXCEPT !.state = "reserved", !.ver = <<b, n>>]
           c == [SetOp(OpOf[r], new) EXCEPT !.next[b] = n + 1]
<1>1. pc[r] = "reserve" /\ OpOf[r] \in OpId /\ put[r] = "none"
  BY RunAssumption DEF ReserveBeta, At, Inv, RunKnown
<1>2. CASE OpRec(r).state # "absent"
  <2>1. \E to \in {"build", "failed"} : Goes(r, to)
    BY <1>2 DEF ReserveBeta
  <2>2. UNCHANGED <<manifest, objects, put, fresh, built>>
    BY <1>2 DEF ReserveBeta, Keeps, endpointVars
  <2>3. RunKnown(r)'
    BY <1>1, <1>2, <2>1, <2>2 DEF Inv, TypeOK, RunKnown, Goes, OpRec
  <2> QED
    BY <1>1, <2>1, <2>2, <2>3, MoveKeeps DEF ScriptState
<1>3. CASE OpRec(r).state = "absent"
  <2>1. n \in 1 .. MaxBeta /\ Update(r, "beta-publish", c, "build")
    <3>1. b \in Base /\ n \in 1 .. MaxBeta + 1
      BY ScriptAssumption DEF Inv, TypeOK, Manifest
    <3> QED
      BY <1>3, <3>1, MaxBetaAssumption DEF ReserveBeta
  <2>2. new \in Op /\ new.state = "reserved"
    <3>1. <<b, n>> \in Ver
      BY <2>1, MaxBetaAssumption, ScriptAssumption DEF Ver
    <3> QED
      BY <3>1 DEF NoOp, Op
  <2> HIDE DEF new
  <2>3. /\ SetOp(OpOf[r], new) \in Manifest
        /\ SetOp(OpOf[r], new).latest = manifest.latest
        /\ SetOp(OpOf[r], new).entry = manifest.entry
        /\ SetOp(OpOf[r], new).tombs = manifest.tombs
        /\ SetOp(OpOf[r], new).op = [manifest.op EXCEPT ![OpOf[r]] = new]
    BY <1>1, <2>2, SetOpFields DEF Inv, TypeOK
  <2>4. /\ c \in Manifest /\ c.op = [manifest.op EXCEPT ![OpOf[r]] = new]
        /\ c.latest = manifest.latest /\ c.entry = manifest.entry /\ c.tombs = manifest.tombs
    <3>1. n + 1 \in 1 .. MaxBeta + 1
      BY <2>1, MaxBetaAssumption
    <3> HIDE DEF n
    <3> QED
      BY <2>3, <3>1 DEF Manifest
  <2>5. Post("beta-publish", c) => OpRec(r)' = new
    BY <1>1, <2>4, PostValid DEF Inv, TypeOK, Manifest, OpRec
  <2>6. ASSUME Post("beta-publish", c) PROVE RunKnown(r)'
    <3>1. pc'[r] = "build" /\ put'[r] = "none"
      BY <1>1, <2>1, <2>6 DEF Update, Post, Goes, Inv, TypeOK
    <3> QED
      BY <2>2, <2>5, <2>6, <3>1 DEF RunKnown
  <2> HIDE DEF c
  <2> QED
    BY <1>1, <2>1, <2>2, <2>4, <2>6, UpdateKeeps DEF ScriptState, Capability
<1> QED
  BY <1>2, <1>3

(* A candidate takes the commit of its beta. *)
LEMMA ReserveCandidateKeeps ==
  ASSUME Inv, NEW r \in Run, ReserveCandidate(r), Outside PROVE Inv' /\ Effect(r)
<1>1. pc[r] = "reserve" /\ OpOf[r] \in OpId /\ put[r] = "none"
  BY RunAssumption DEF ReserveCandidate, At, Inv, RunKnown
<1> PICK v \in Ver :
      /\ IsBeta(v) /\ Present(manifest, v)
      /\ IF OpRec(r).state = "absent"
           THEN Update(r, "beta-publish",
                  SetOp(OpOf[r], [NoOp EXCEPT !.state = "reserved", !.ver = Clean(v), !.beta = v,
                                    !.commit = manifest.entry[v].commit]), "build")
           ELSE Goes(r, IF OpRec(r).beta = v THEN "build" ELSE "failed") /\ Keeps
  BY DEF ReserveCandidate
<1> DEFINE new == [NoOp EXCEPT !.state = "reserved", !.ver = Clean(v), !.beta = v,
                               !.commit = manifest.entry[v].commit]
           c == SetOp(OpOf[r], new)
<1>2. CASE OpRec(r).state # "absent"
  <2>1. \E to \in {"build", "failed"} : Goes(r, to)
    BY <1>2
  <2>2. UNCHANGED <<manifest, objects, put, fresh, built>>
    BY <1>2 DEF Keeps, endpointVars
  <2>3. RunKnown(r)'
    BY <1>1, <1>2, <2>1, <2>2 DEF Inv, TypeOK, RunKnown, Goes, OpRec
  <2> QED
    BY <1>1, <2>1, <2>2, <2>3, MoveKeeps DEF ScriptState
<1>3. CASE OpRec(r).state = "absent"
  <2>1. Update(r, "beta-publish", c, "build")
    BY <1>3
  <2>2. new \in Op /\ new.state = "reserved"
    <3>1. Clean(v) \in Ver /\ v \in Ver /\ manifest.entry[v].commit \in Commit \cup {None}
      BY MaxBetaAssumption DEF Ver, Clean, Inv, TypeOK, Manifest, Entry
    <3> QED
      BY <3>1 DEF NoOp, Op
  <2> HIDE DEF new
  <2>3. /\ c \in Manifest /\ c.op = [manifest.op EXCEPT ![OpOf[r]] = new]
        /\ c.latest = manifest.latest /\ c.entry = manifest.entry /\ c.tombs = manifest.tombs
    BY <1>1, <2>2, SetOpFields DEF Inv, TypeOK
  <2>4. Post("beta-publish", c) => OpRec(r)' = new
    BY <1>1, <2>3, PostValid DEF Inv, TypeOK, Manifest, OpRec
  <2>5. ASSUME Post("beta-publish", c) PROVE RunKnown(r)'
    <3>1. pc'[r] = "build" /\ put'[r] = "none"
      BY <1>1, <2>1, <2>5 DEF Update, Post, Goes, Inv, TypeOK
    <3> QED
      BY <2>2, <2>4, <2>5, <3>1 DEF RunKnown
  <2> HIDE DEF c
  <2> QED
    BY <1>1, <1>3, <2>1, <2>2, <2>3, <2>5, UpdateKeeps DEF ScriptState, Capability
<1> QED
  BY <1>2, <1>3

(* A build yields a payload. *)
LEMMA BuildKeeps ==
  ASSUME Inv, NEW r \in Run, Build(r), Outside PROVE Inv' /\ Effect(r)
<1>1. /\ pc[r] = "build" /\ put[r] = "none" /\ OpRec(r).state # "absent"
      /\ UNCHANGED <<manifest, objects, put, fresh>>
  BY DEF Build, At, Inv, RunKnown, endpointVars
<1>2. CASE Goes(r, "done") /\ UNCHANGED built
  <2>1. RunKnown(r)'
    BY <1>1, <1>2 DEF Inv, TypeOK, RunKnown, Goes
  <2> QED
    BY <1>1, <1>2, <2>1, MoveKeeps DEF ScriptState
<1>3. CASE Goes(r, "register") /\ \E s \in Sha : built' = [built EXCEPT ![r] = s]
  <2>1. RunKnown(r)'
    BY <1>1, <1>3 DEF Inv, TypeOK, RunKnown, Goes, OpRec
  <2> QED
    BY <1>1, <1>3, <2>1, MoveKeeps DEF ScriptState
<1> QED
  BY <1>2, <1>3 DEF Build

(* From the registration on the op holds the run's payload. *)
LEMMA RegisterKeeps ==
  ASSUME Inv, NEW r \in Run, Register(r), Outside PROVE Inv' /\ Effect(r)
<1> DEFINE o == OpRec(r)
           commit == IF KindOf[r] = "beta" THEN CommitOf[r] ELSE o.commit
           new == [o EXCEPT !.commit = commit, !.sha = built[r]]
           c == SetOp(OpOf[r], new)
<1>1. /\ pc[r] = "register" /\ put[r] = "none" /\ o.state # "absent" /\ built[r] \in Sha
      /\ OpOf[r] \in OpId
  BY RunAssumption DEF Register, At, Inv, RunKnown
<1>2. CASE o.state = "committed" \/ o.sha # None
  <2>1. /\ UNCHANGED <<manifest, objects, put, fresh, built>>
        /\ \E to \in {"upload", "failed"} : Goes(r, to)
        /\ o.state # "committed" /\ o.sha # built[r] => Goes(r, "failed")
    BY <1>2 DEF Register, Keeps, endpointVars
  <2>2. RunKnown(r)'
    BY <1>1, <2>1 DEF Inv, TypeOK, RunKnown, Goes, OpRec
  <2> QED
    BY <1>1, <2>1, <2>2, MoveKeeps DEF ScriptState
<1>3. CASE o.state # "committed" /\ o.sha = None
  <2>1. Update(r, "beta-publish", c, "upload")
    BY <1>3 DEF Register
  <2>2. new \in Op /\ new.state = o.state /\ new.sha = built[r]
    <3>1. o \in Op
      BY <1>1 DEF Inv, TypeOK, Manifest, OpRec
    <3>2. commit \in Commit \cup {None}
      BY <3>1, ScriptAssumption DEF Op
    <3> HIDE DEF o, commit
    <3> QED
      BY <1>1, <3>1, <3>2 DEF Op
  <2> HIDE DEF new
  <2>3. /\ c \in Manifest /\ c.op = [manifest.op EXCEPT ![OpOf[r]] = new]
        /\ c.latest = manifest.latest /\ c.entry = manifest.entry /\ c.tombs = manifest.tombs
    BY <1>1, <2>2, SetOpFields DEF Inv, TypeOK
  <2>4. Post("beta-publish", c) => OpRec(r)' = new
    BY <1>1, <2>3, PostValid DEF Inv, TypeOK, Manifest, OpRec
  <2>5. ASSUME Post("beta-publish", c) PROVE RunKnown(r)'
    <3>1. pc'[r] = "upload" /\ put'[r] = "none" /\ built'[r] = built[r]
      BY <1>1, <2>1, <2>5 DEF Update, Post, Goes, Inv, TypeOK
    <3> QED
      BY <1>1, <2>2, <2>4, <2>5, <3>1 DEF RunKnown
  <2> HIDE DEF c
  <2> QED
    BY <1>1, <1>3, <2>1, <2>2, <2>3, <2>5, UpdateKeeps DEF ScriptState, Capability
<1> QED
  BY <1>2, <1>3

(* The upload, its answer and the readback. *)
LEMMA UploadKeeps ==
  ASSUME Inv, NEW r \in Run, Upload(r) \/ Uploaded(r) \/ Readback(r), Outside PROVE Inv' /\ Effect(r)
<1>1. CASE Upload(r)
  <2>1. pc[r] = "upload" /\ UNCHANGED <<manifest, objects, fresh, built>>
    BY <1>1 DEF Upload, At
  <2>2. CASE Goes(r, "sending") /\ put' = [put EXCEPT ![r] = "asked"] /\ OpRec(r).state = "reserved"
    <3>1. RunKnown(r)'
      BY <2>1, <2>2 DEF Inv, TypeOK, RunKnown, Goes, OpRec
    <3> QED
      BY <2>1, <2>2, <3>1, MoveKeeps DEF ScriptState
  <2>3. CASE UNCHANGED put /\ \E to \in {"commit", "done"} : Goes(r, to)
    <3>1. RunKnown(r)'
      BY <2>1, <2>3 DEF Inv, TypeOK, RunKnown, Goes, OpRec
    <3> QED
      BY <2>1, <2>3, <3>1, MoveKeeps DEF ScriptState
  <2> QED
    BY <1>1, <2>2, <2>3 DEF Upload, AfterPrepared, PutMoves
<1>2. CASE Uploaded(r) \/ Readback(r)
  <2>1. /\ pc[r] \in {"sending", "readback"} /\ UNCHANGED <<manifest, objects, fresh, built, put>>
        /\ \E to \in {"readback", "failed", "commit", "prepare"} : Goes(r, to)
    BY <1>2 DEF Uploaded, Readback, At, Keeps, endpointVars
  <2>2. RunKnown(r)'
    BY <2>1 DEF Inv, TypeOK, RunKnown, Goes, OpRec
  <2> QED
    BY <2>1, <2>2, MoveKeeps DEF ScriptState
<1> QED
  BY <1>1, <1>2

(* The op of an upload that was read back becomes prepared. *)
LEMMA ToPreparedKeeps ==
  ASSUME Inv, NEW r \in Run, ToPrepared(r), Outside PROVE Inv' /\ Effect(r)
<1> DEFINE o == OpRec(r)
           new == [o EXCEPT !.state = "prepared"]
           c == SetOp(OpOf[r], new)
           to == AfterPrepared(r)
<1>1. /\ pc[r] = "prepare" /\ o.state # "absent" /\ built[r] \in Sha /\ OpOf[r] \in OpId
      /\ to \in {"commit", "done"}
  BY RunAssumption DEF ToPrepared, At, Inv, RunKnown, AfterPrepared
<1> HIDE DEF to
<1>2. CASE o.state # "reserved"
  <2>1. UNCHANGED <<manifest, objects, put, fresh, built>> /\ Goes(r, to)
    BY <1>2 DEF ToPrepared, Keeps, endpointVars, to
  <2>2. RunKnown(r)'
    BY <1>1, <2>1 DEF Inv, TypeOK, RunKnown, Goes, OpRec
  <2> QED
    BY <1>1, <2>1, <2>2, MoveKeeps DEF ScriptState
<1>3. CASE o.state = "reserved"
  <2>1. Update(r, "beta-publish", c, to)
    BY <1>3 DEF ToPrepared, to
  <2>2. new \in Op /\ new.state = "prepared" /\ new.sha = o.sha
    <3>1. o \in Op
      BY <1>1 DEF Inv, TypeOK, Manifest, OpRec
    <3> HIDE DEF o
    <3> QED
      BY <3>1 DEF Op
  <2> HIDE DEF new
  <2>3. /\ c \in Manifest /\ c.op = [manifest.op EXCEPT ![OpOf[r]] = new]
        /\ c.latest = manifest.latest /\ c.entry = manifest.entry /\ c.tombs = manifest.tombs
    BY <1>1, <2>2, SetOpFields DEF Inv, TypeOK
  <2>4. Post("beta-publish", c) => OpRec(r)' = new
    BY <1>1, <2>3, PostValid DEF Inv, TypeOK, Manifest, OpRec
  <2>5. ASSUME Post("beta-publish", c) PROVE RunKnown(r)'
    <3>1. pc'[r] = to /\ put'[r] = put[r] /\ built'[r] = built[r]
      BY <1>1, <2>1, <2>5 DEF Update, Post, Goes, Inv, TypeOK
    <3>2. o.sha = built[r]
      BY <1>1, <1>3 DEF Inv, RunKnown
    <3> QED
      BY <1>1, <2>2, <2>4, <2>5, <3>1, <3>2 DEF RunKnown
  <2> HIDE DEF c
  <2> QED
    BY <1>1, <1>3, <2>1, <2>2, <2>3, <2>5, UpdateKeeps DEF ScriptState, Capability
<1> QED
  BY <1>2, <1>3

(* The commit of a candidate starts with the payload the op holds. *)
LEMMA StartCommitKeeps ==
  ASSUME Inv, NEW r \in Run, StartCommit(r), Outside PROVE Inv' /\ Effect(r)
<1>1. /\ pc[r] = "idle" /\ OpRec(r).state # "absent" /\ put[r] = "none"
      /\ UNCHANGED <<manifest, objects, put, fresh>>
  BY DEF StartCommit, At, Inv, RunKnown, endpointVars
<1> PICK s \in Sha :
      /\ built' = [built EXCEPT ![r] = s]
      /\ Goes(r, IF OpRec(r).sha # s \/ IsBeta(OpRec(r).ver) THEN "failed"
                 ELSE IF OpRec(r).state = "committed" THEN "done"
                 ELSE IF OpRec(r).state = "prepared" THEN "readback" ELSE "failed")
  BY DEF StartCommit
<1>2. \/ \E to \in {"done", "failed"} : Goes(r, to)
      \/ OpRec(r).sha = s /\ Goes(r, "readback")
  OBVIOUS
<1>3. built'[r] = s
  BY DEF Inv, TypeOK
<1>4. RunKnown(r)'
  BY <1>1, <1>2, <1>3 DEF Inv, TypeOK, RunKnown, Goes, OpRec
<1> QED
  BY <1>1, <1>2, <1>4, MoveKeeps DEF ScriptState

(* A run that stops leaves what it has done behind. *)
LEMMA StopKeeps ==
  ASSUME Inv, NEW r \in Run, CommitMisses(r) \/ GivesUp(r), Outside PROVE Inv' /\ Effect(r)
<1>1. /\ UNCHANGED <<manifest, objects, put, fresh, built>> /\ pc[r] \notin {"idle", "done", "failed"}
      /\ \/ Goes(r, "failed")
         \/ r \notin fresh /\ pc[r] = "committing" /\ Goes(r, "commit")
  BY DEF CommitMisses, GivesUp, At, Keeps, endpointVars
<1>2. RunKnown(r)'
  BY <1>1 DEF Inv, TypeOK, RunKnown, Goes, OpRec
<1>3. FreshKnown(r)'
  <2>1. Committed(r)' = Committed(r) /\ OpRec(r)' = OpRec(r)
    BY <1>1 DEF Committed, OpRec, SetOp
  <2> QED
    BY <1>1, <2>1 DEF Inv, TypeOK, FreshKnown, Goes
<1>4. \A q \in Run \ {r} : RunKnown(q)' /\ FreshKnown(q)'
  BY <1>1, OthersKeep DEF Inv, TypeOK, Goes
<1>5. TypeOK'
  BY <1>1 DEF Inv, TypeOK, Outside, cleanupVars, Tenure, Goes, ScriptState
<1> QED
  BY <1>1, <1>2, <1>3, <1>4, <1>5 DEF Inv, Effect

(* The entry a commit adds. *)
NewEntry(r, o) ==
  [NoEntry EXCEPT !.status = "active", !.op = OpOf[r], !.beta = o.beta,
     !.commit = IF KindOf[r] = "beta" THEN CommitOf[r] ELSE o.commit, !.sha = built[r]]

(* It carries the op and the payload of the run. *)
LEMMA CommittedEntry ==
  ASSUME NEW r \in Run, NEW o \in Op, built[r] \in Sha, NEW e, e = NewEntry(r, o)
  PROVE  e \in Entry /\ e.status = "active" /\ e.op = OpOf[r] /\ e.sha = built[r]
<1>1. (IF KindOf[r] = "beta" THEN CommitOf[r] ELSE o.commit) \in Commit \cup {None}
  BY ScriptAssumption DEF Op
<1>2. o.beta \in Ver \cup {None} /\ OpOf[r] \in OpId
  BY RunAssumption DEF Op
<1> QED
  BY <1>1, <1>2 DEF NewEntry, NoEntry, Entry, Clock

(* The write of a commit: entry, pointer and op, and nothing else. *)
LEMMA CommittedFields ==
  ASSUME manifest \in Manifest, OpsValid(manifest),
         NEW r \in Run, OpRec(r).state = "prepared", built[r] \in Sha
  PROVE  LET c == Committed(r) o == OpRec(r) IN
         /\ o \in Op /\ o.ver \in Ver /\ OpOf[r] \in OpId
         /\ c \in Manifest
         /\ c.next = manifest.next /\ c.tombs = manifest.tombs
         /\ c.latest = [manifest.latest EXCEPT ![ChannelOf(o.ver)] = o.ver]
         /\ c.op = [manifest.op EXCEPT ![OpOf[r]] = [o EXCEPT !.state = "committed"]]
         /\ \A v \in Ver \ {o.ver} : c.entry[v] = manifest.entry[v]
         /\ c.entry[o.ver].status = "active" /\ c.entry[o.ver].op = OpOf[r]
         /\ c.entry[o.ver].sha = built[r]
<1> DEFINE o == OpRec(r)
           e == NewEntry(r, o)
           new == [o EXCEPT !.state = "committed"]
<1>1. OpOf[r] \in OpId /\ o \in Op
  BY RunAssumption DEF Manifest, OpRec
<1>2. o.ver \in Ver
  BY <1>1 DEF OpsValid, OpRec
<1>3. Committed(r) = Written(manifest, OpOf[r], new, o.ver, e, ChannelOf(o.ver))
  BY DEF Committed, SetOp, Written, NewEntry
<1>4. e \in Entry /\ e.status = "active" /\ e.op = OpOf[r] /\ e.sha = built[r]
  BY <1>1, CommittedEntry
<1>5. ChannelOf(o.ver) \in Channel
  BY DEF ChannelOf, Channel
<1> HIDE DEF o, e
<1>6. new \in Op
  BY <1>1 DEF Op
<1> HIDE DEF new
<1>7. /\ Committed(r) \in Manifest
      /\ Committed(r).next = manifest.next /\ Committed(r).tombs = manifest.tombs
      /\ Committed(r).latest = [manifest.latest EXCEPT ![ChannelOf(o.ver)] = o.ver]
      /\ Committed(r).op = [manifest.op EXCEPT ![OpOf[r]] = new]
      /\ \A v \in Ver : Committed(r).entry[v] = IF v = o.ver THEN e ELSE manifest.entry[v]
  <2>1. WritesOnly(Committed(r), manifest, OpOf[r], new, o.ver, e, ChannelOf(o.ver))
    BY <1>1, <1>2, <1>3, <1>4, <1>5, <1>6, CommitWrite
  <2> QED
    BY <2>1 DEF WritesOnly
<1> QED
  <2>1. \A v \in Ver \ {o.ver} : Committed(r).entry[v] = manifest.entry[v]
    BY <1>7
  <2>2. Committed(r).entry[o.ver] = e
    BY <1>2, <1>7
  <2> QED
    BY <1>1, <1>2, <1>4, <1>7, <2>1, <2>2 DEF o, new

(* A commit that was checked will land on a version nobody has published. *)
LEMMA CommitCheckKeeps ==
  ASSUME Inv, NEW r \in Run, CommitCheck(r), Outside PROVE Inv' /\ Effect(r)
<1>1. /\ pc[r] = "commit" /\ OpRec(r).state # "absent" /\ built[r] \in Sha
      /\ UNCHANGED <<manifest, objects, put, built>>
  BY DEF CommitCheck, At, Inv, RunKnown
<1>2. CASE OpRec(r).state = "prepared" /\ Committable(r)
  <2>1. fresh' = fresh \cup {r} /\ Goes(r, "committing")
    BY <1>2 DEF CommitCheck
  <2>2. ~Present(manifest, OpRec(r).ver)
    <3> SUFFICES ASSUME Present(manifest, OpRec(r).ver) PROVE FALSE
      OBVIOUS
    <3>1. OpRec(r).ver \in Ver /\ Committed(r).entry[OpRec(r).ver].op = OpOf[r]
      BY <1>1, <1>2, CommittedFields DEF Inv, TypeOK, Valid
    <3>2. EntryMoves(manifest, Committed(r))
      BY <1>2 DEF Committable, Accepts, LegalDiff
    <3>3. manifest.entry[OpRec(r).ver].op = OpOf[r]
      BY <3>1, <3>2 DEF EntryMoves
    <3>4. manifest.op[manifest.entry[OpRec(r).ver].op].state = "committed"
      BY <3>1 DEF Inv, Valid, CommittedMatch
    <3> QED
      BY <1>2, <3>3, <3>4 DEF OpRec
  <2>3. Valid(Stamp(manifest, Committed(r)))
    BY <1>2 DEF Committable, Accepts
  <2>4. Committed(r)' = Committed(r) /\ OpRec(r)' = OpRec(r)
    BY <1>1 DEF Committed, OpRec, SetOp
  <2>5. pc'[r] = "committing"
    BY <2>1 DEF Inv, TypeOK, Goes
  <2>6. FreshKnown(r)'
    BY <1>1, <1>2, <2>2, <2>3, <2>4, <2>5 DEF FreshKnown
  <2>7. RunKnown(r)'
    BY <1>1, <2>4, <2>5 DEF Inv, RunKnown
  <2>8. \A q \in Run \ {r} : RunKnown(q)' /\ FreshKnown(q)'
    BY <1>1, <2>1, OthersKeep DEF Inv, TypeOK, Goes
  <2>9. TypeOK'
    BY <1>1, <2>1 DEF Inv, TypeOK, Outside, cleanupVars, Tenure, Goes, ScriptState
  <2> QED
    BY <1>1, <2>6, <2>7, <2>8, <2>9 DEF Inv, Effect
<1>3. CASE ~(OpRec(r).state = "prepared" /\ Committable(r))
  <2>1. UNCHANGED fresh /\ \E to \in {"done", "failed"} : Goes(r, to)
    BY <1>3 DEF CommitCheck
  <2>2. RunKnown(r)'
    BY <1>1, <2>1 DEF Inv, TypeOK, RunKnown, Goes, OpRec
  <2> QED
    BY <1>1, <2>1, <2>2, MoveKeeps DEF ScriptState
<1> QED
  BY <1>2, <1>3

(* What lands is the write that was checked. *)
LEMMA CommitLandsKeeps ==
  ASSUME Inv, NEW r \in Run, CommitLands(r), Outside PROVE Inv'
<1>1. /\ pc[r] = "committing" /\ r \in fresh /\ Goes(r, "done")
      /\ manifest' = Stamp(manifest, Committed(r)) /\ fresh' = {}
      /\ UNCHANGED <<objects, put, built>>
  BY DEF CommitLands, At
<1>2. /\ OpRec(r).state = "prepared" /\ built[r] \in Sha
      /\ OpRec(r).sha = built[r]
      /\ Valid(Stamp(manifest, Committed(r)))
  BY <1>1 DEF Inv, FreshKnown, RunKnown
<1>3. /\ Committed(r) \in Manifest /\ OpOf[r] \in OpId /\ OpRec(r) \in Op
      /\ Committed(r).op = [manifest.op EXCEPT ![OpOf[r]] = [OpRec(r) EXCEPT !.state = "committed"]]
  BY <1>2, CommittedFields DEF Inv, TypeOK, Valid
<1>4. manifest' \in Manifest /\ manifest'.op = Committed(r).op
  BY <1>1, <1>3, StampFields DEF Inv, TypeOK
<1>5. \A i \in OpId : manifest'.op[i] =
        IF i = OpOf[r] THEN [OpRec(r) EXCEPT !.state = "committed"] ELSE manifest.op[i]
  BY <1>3, <1>4 DEF Inv, TypeOK, Manifest
<1>6. /\ [OpRec(r) EXCEPT !.state = "committed"].state = "committed"
      /\ [OpRec(r) EXCEPT !.state = "committed"].ver = OpRec(r).ver
      /\ [OpRec(r) EXCEPT !.state = "committed"].sha = OpRec(r).sha
  BY <1>3 DEF Op
<1>7. OpsGrow(manifest, manifest') /\ AbsentOps(manifest')
  BY <1>2, <1>5, <1>6 DEF OpsGrow, AbsentOps, Inv, OpRec
<1>8. OpRec(r)'.state = "committed" /\ OpRec(r)'.sha = built[r] /\ OpRec(r)'.ver = OpRec(r).ver
  BY <1>2, <1>3, <1>5, <1>6 DEF OpRec
<1>9. RunKnown(r)' /\ FreshKnown(r)'
  BY <1>1, <1>2, <1>8 DEF Inv, TypeOK, RunKnown, FreshKnown, Goes
<1>10. \A q \in Run \ {r} : RunKnown(q)' /\ FreshKnown(q)'
  BY <1>1, <1>7, OthersKeepPost DEF Inv, TypeOK, Goes
<1>11. TypeOK'
  BY <1>1, <1>4 DEF Inv, TypeOK, Outside, cleanupVars, Tenure, Goes, ScriptState
<1> QED
  BY <1>1, <1>2, <1>7, <1>9, <1>10, <1>11 DEF Inv

(* Every step of a run keeps the invariant. *)
LEMMA RunStepKeeps ==
  ASSUME Inv, NEW r \in Run, RunStep(r) \/ GivesUp(r), Outside
  PROVE  Inv' /\ (Effect(r) \/ CommitLands(r))
BY StartKeeps, ReserveBetaKeeps, ReserveCandidateKeeps, BuildKeeps, RegisterKeeps,
   UploadKeeps, ToPreparedKeeps, StartCommitKeeps, CommitCheckKeeps, CommitLandsKeeps,
   StopKeeps DEF RunStep

-----------------------------------------------------------------------------
(* The founder, the operator, the cleanup, the uploads and the clock. *)

(* The bookkeeping of withdrawals and of the cleanup, in its types. *)
RestOK ==
  /\ phase \in {"idle", "expire", "tombstone", "delete"}
  /\ expiring \subseteq Ver /\ doomed \subseteq Key /\ sweep \subseteq Key
  /\ troubled \in BOOLEAN /\ withdraws \in 0 .. MaxWithdraws
  /\ rested \subseteq Ver /\ takenBack \subseteq Key

(* A write that belongs to no run. *)
LEMMA WriteKeeps ==
  ASSUME Inv, NEW cap, NEW c \in Manifest, Post(cap, c), UNCHANGED <<objects, put, pc, built>>,
         RestOK'
  PROVE  Inv'
<1>1. /\ manifest' \in Manifest /\ Valid(manifest') /\ AbsentOps(manifest')
      /\ OpsGrow(manifest, manifest') /\ fresh' = {}
  BY PostValid DEF Inv
<1>2. \A r \in Run : RunKnown(r)' /\ FreshKnown(r)'
  BY <1>1, RunKeeps DEF Inv, FreshKnown
<1>3. TypeOK'
  BY <1>1 DEF Inv, TypeOK, RestOK
<1> QED
  BY <1>1, <1>2, <1>3 DEF Inv

(* A step that leaves the manifest, the runs and their uploads alone. *)
LEMMA AsideKeeps ==
  ASSUME Inv, UNCHANGED <<manifest, fresh, put, pc, built>>, objects' \subseteq Key, RestOK'
  PROVE  Inv'
<1>1. \A r \in Run : RunKnown(r)' /\ FreshKnown(r)'
  BY RunKeeps, FreshKeeps, UnchangedGrows DEF Inv
<1>2. TypeOK'
  BY DEF Inv, TypeOK, RestOK
<1> QED
  BY <1>1, <1>2 DEF Inv

(* An entry with another status, in an otherwise unchanged manifest. *)
WithStatus(v, st) == [manifest EXCEPT !.entry[v].status = st]

(* It writes nothing else. *)
LEMMA StatusWrite ==
  ASSUME manifest \in Manifest, NEW v \in Ver, NEW st \in {"quarantined", "expired"},
         NEW c, c = WithStatus(v, st)
  PROVE  /\ c \in Manifest
         /\ c.latest = manifest.latest /\ c.op = manifest.op /\ c.tombs = manifest.tombs
         /\ \A w \in Ver : c.entry[w].status = IF w = v THEN st ELSE manifest.entry[w].status
<1> DEFINE e == [manifest.entry[v] EXCEPT !.status = st]
           g == [manifest.entry EXCEPT ![v] = e]
           d == [manifest EXCEPT !.entry = g]
<1>1. manifest.entry[v] \in Entry
  BY DEF Manifest
<1>2. e \in Entry /\ e.status = st
  BY <1>1 DEF Entry
<1>3. c = d
  BY DEF WithStatus, Manifest
<1> HIDE DEF e
<1>4. /\ g \in [Ver -> Entry]
      /\ \A w \in Ver : g[w] = IF w = v THEN e ELSE manifest.entry[w]
  BY <1>2 DEF Manifest
<1> HIDE DEF g
<1>5. /\ d \in Manifest /\ d.entry = g
      /\ d.latest = manifest.latest /\ d.op = manifest.op /\ d.tombs = manifest.tombs
  BY <1>4 DEF Manifest
<1> HIDE DEF d
<1>6. \A w \in Ver : g[w].status = IF w = v THEN st ELSE manifest.entry[w].status
  BY <1>2, <1>4
<1> QED
  BY <1>3, <1>5, <1>6

(* The write of a withdrawal. *)
Withdrawn(v, f) ==
  [manifest EXCEPT !.entry[v].status = "quarantined", !.latest["release"] = f]

OnlyWithdraws(c, v, f) ==
  /\ c \in Manifest
  /\ c.latest = [manifest.latest EXCEPT !["release"] = f]
  /\ c.op = manifest.op /\ c.tombs = manifest.tombs
  /\ \A w \in Ver : c.entry[w].status =
       IF w = v THEN "quarantined" ELSE manifest.entry[w].status

(* It moves the pointer of the release channel as well. *)
LEMMA WithdrawWrite ==
  ASSUME manifest \in Manifest, NEW v \in Ver, NEW f \in Ver, NEW c, c = Withdrawn(v, f)
  PROVE  OnlyWithdraws(c, v, f)
<1> DEFINE b == WithStatus(v, "quarantined")
           h == [manifest.latest EXCEPT !["release"] = f]
           d == [b EXCEPT !.latest = h]
<1>1. c = [b EXCEPT !.latest = [b.latest EXCEPT !["release"] = f]]
  BY DEF Withdrawn, WithStatus
<1>2. h \in [Channel -> Ver \cup {None}]
  BY DEF Manifest
<1> HIDE DEF b
<1>b. b = WithStatus(v, "quarantined")
  BY DEF b
<1>3. /\ b \in Manifest
      /\ b.latest = manifest.latest /\ b.op = manifest.op /\ b.tombs = manifest.tombs
      /\ \A w \in Ver : b.entry[w].status =
           IF w = v THEN "quarantined" ELSE manifest.entry[w].status
  BY <1>b, StatusWrite
<1>4. c = d
  BY <1>1, <1>3
<1> HIDE DEF h
<1>5. /\ d \in Manifest /\ d.latest = h
      /\ d.op = b.op /\ d.tombs = b.tombs /\ d.entry = b.entry
  BY <1>2, <1>3 DEF Manifest
<1> HIDE DEF d
<1> QED
  BY <1>3, <1>4, <1>5 DEF h, OnlyWithdraws

(* A withdrawal. *)
LEMMA WithdrawKeeps ==
  ASSUME Inv, NEW v \in Ver, NEW f \in Ver, Withdraw(v, f), Tenure PROVE Inv'
<1>1. Post("customer-release", Withdrawn(v, f)) /\ UNCHANGED <<objects, put, pc, built>>
  BY DEF Withdraw, Withdrawn, scriptVars
<1>2. RestOK'
  BY OperatorAssumption DEF Withdraw, Tenure, cleanupVars, Inv, TypeOK, RestOK
<1>3. Withdrawn(v, f) \in Manifest
  BY WithdrawWrite DEF Inv, TypeOK, OnlyWithdraws
<1> QED
  BY <1>1, <1>2, <1>3, WriteKeeps

(* An abandoned release id. *)
LEMMA AbandonKeeps ==
  ASSUME Inv, NEW i \in OpId, Abandon(i), Tenure PROVE Inv'
<1> DEFINE o == [manifest.op[i] EXCEPT !.state = "abandoned"]
           c == SetOp(i, o)
<1>1. o \in Op
  BY DEF Inv, TypeOK, Manifest, Op
<1>2. c \in Manifest
  BY <1>1, SetOpFields DEF Inv, TypeOK
<1>3. Post("ops-admin", c) /\ UNCHANGED <<objects, put, pc, built>>
  BY DEF Abandon, scriptVars
<1>4. RestOK'
  BY DEF Abandon, Tenure, cleanupVars, Inv, TypeOK, RestOK
<1> HIDE DEF c
<1> QED
  BY <1>2, <1>3, <1>4, WriteKeeps

(* The keys to tombstone are object keys. *)
LEMMA CandidateKeys == ASSUME Inv PROVE TombstoneCandidates \subseteq Key
<1>1. ASSUME NEW v \in Ver, manifest.entry[v].status = "expired"
      PROVE  <<v, manifest.entry[v].sha>> \in Key
  <2>1. Present(manifest, v)
    BY <1>1 DEF Present
  <2>2. PICK i \in OpId : manifest.entry[v].op = i
    BY <2>1 DEF Inv, TypeOK, Valid, EntriesValid, Manifest, Entry
  <2>3. manifest.op[i].state = "committed" /\ manifest.op[i].sha = manifest.entry[v].sha
    BY <2>1, <2>2 DEF Inv, Valid, CommittedMatch
  <2>4. manifest.op[i].sha # None /\ manifest.op[i] \in Op
    BY <2>3 DEF Inv, TypeOK, Valid, OpsValid, Manifest
  <2> QED
    BY <2>3, <2>4 DEF Op, Key
<1>2. ASSUME NEW i \in OpId, manifest.op[i].state = "abandoned", manifest.op[i].sha # None
      PROVE  <<manifest.op[i].ver, manifest.op[i].sha>> \in Key
  <2>1. manifest.op[i].ver \in Ver /\ manifest.op[i] \in Op
    BY <1>2 DEF Inv, TypeOK, Valid, OpsValid, Manifest
  <2> QED
    BY <1>2, <2>1 DEF Op, Key
<1> QED
  BY <1>1, <1>2 DEF TombstoneCandidates

(* The cleanup. *)
LEMMA CleanupKeeps ==
  ASSUME Inv, StartCleanup \/ CleanupStep \/ CleanupDies, UNCHANGED <<scriptVars, withdraws>>,
         Tenure
  PROVE  Inv'
<1> USE DEF scriptVars, endpointVars
<1>0. /\ manifest \in Manifest /\ objects \subseteq Key /\ RestOK
      /\ rested' \subseteq Ver /\ takenBack' \subseteq Key /\ withdraws' \in 0 .. MaxWithdraws
      /\ UNCHANGED <<pc, built>>
  BY DEF Inv, TypeOK, RestOK, Tenure
<1>1. CASE StartCleanup \/ CleanupDies \/ StartTombstones \/ StartSweep \/ EndCleanup
  <2>1. ExpireCandidates \subseteq Ver /\ TombstoneCandidates \subseteq Key
        /\ manifest.tombs \subseteq Key
    BY <1>0, CandidateKeys DEF ExpireCandidates, Manifest
  <2>2. UNCHANGED <<manifest, fresh, put, objects>> /\ RestOK'
    BY <1>0, <1>1, <2>1 DEF StartCleanup, CleanupDies, StartTombstones, StartSweep, EndCleanup,
         RestOK
  <2> QED
    BY <1>0, <2>2, AsideKeeps
<1>2. ASSUME NEW v \in expiring, ExpireOne(v) PROVE Inv'
  <2>1. /\ v \in Ver
        /\ Post("ops-admin", WithStatus(v, "expired")) \/ UNCHANGED <<manifest, fresh>>
        /\ UNCHANGED <<objects, put>> /\ RestOK'
    BY <1>0, <1>2 DEF ExpireOne, CasPost, RestOK, WithStatus
  <2>2. WithStatus(v, "expired") \in Manifest
    BY <1>0, <2>1, StatusWrite
  <2> QED
    BY <1>0, <2>1, <2>2, WriteKeeps, AsideKeeps
<1>3. ASSUME NEW k \in doomed, TombstoneOne(k) PROVE Inv'
  <2> DEFINE c == [manifest EXCEPT !.tombs = @ \cup {k}]
  <2>1. /\ k \in Key
        /\ Post("ops-admin", c) \/ UNCHANGED <<manifest, fresh>>
        /\ UNCHANGED <<objects, put>> /\ RestOK'
    BY <1>0, <1>3 DEF TombstoneOne, CasPost, RestOK
  <2>2. c \in Manifest
    BY <1>0, <2>1 DEF Manifest
  <2> HIDE DEF c
  <2> QED
    BY <1>0, <2>1, <2>2, WriteKeeps, AsideKeeps
<1>4. ASSUME NEW k \in sweep, DeleteOne(k) \/ DeleteFails(k) PROVE Inv'
  <2>1. UNCHANGED <<manifest, fresh, put>> /\ objects' \subseteq Key /\ RestOK'
    BY <1>0, <1>4 DEF DeleteOne, DeleteFails, Delete, RestOK
  <2> QED
    BY <1>0, <2>1, AsideKeeps
<1> QED
  BY <1>1, <1>2, <1>3, <1>4 DEF CleanupStep

(* An upload puts the object its run has registered. *)
LEMMA UploadingKeeps ==
  ASSUME Inv, NEW r \in Run, Uploading(r) PROVE Inv'
<1>1. /\ UNCHANGED <<manifest, fresh, pc, built>> /\ put[r] # "none"
      /\ \E to \in UploadState \ {"none"} : put' = [put EXCEPT ![r] = to]
      /\ objects' \subseteq objects \cup {KeyOf(r)}
      /\ UNCHANGED <<cleanupVars, withdraws, rested>>
      /\ takenBack' \subseteq takenBack \cup objects
  BY DEF Uploading, PutStep, PutClaim, PutStore, PutCheck, PutRemove, PutDies, PutMoves,
         scriptVars, UploadState
<1>2. KeyOf(r) \in Key
  <2>1. OpRec(r).state # "absent" /\ built[r] \in Sha /\ OpOf[r] \in OpId
    BY <1>1, RunAssumption DEF Inv, RunKnown
  <2>2. OpRec(r).ver \in Ver
    BY <2>1 DEF Inv, Valid, OpsValid, OpRec
  <2> QED
    BY <2>1, <2>2 DEF KeyOf, Key
<1>3. TypeOK'
  BY <1>1, <1>2 DEF Inv, TypeOK, cleanupVars
<1>4. RunKnown(r)' /\ FreshKnown(r)'
  <2>1. FreshKnown(r)'
    BY <1>1, FreshKeeps DEF Inv
  <2>2. RunKnown(r)'
    BY <1>1 DEF Inv, TypeOK, RunKnown, OpRec
  <2> QED
    BY <2>1, <2>2
<1>5. \A q \in Run \ {r} : RunKnown(q)' /\ FreshKnown(q)'
  BY <1>1, OthersKeep DEF Inv, TypeOK
<1> QED
  BY <1>1, <1>3, <1>4, <1>5 DEF Inv

(* The write of a commit, in the terms of the manifest it is written to. *)
LEMMA CommittedWritten ==
  ASSUME NEW r \in Run
  PROVE  Committed(r) = Written(manifest, OpOf[r], [OpRec(r) EXCEPT !.state = "committed"],
                                OpRec(r).ver, NewEntry(r, OpRec(r)), ChannelOf(OpRec(r).ver))
BY DEF Committed, SetOp, Written, NewEntry

(* What a passing window changes. *)
LEMMA WindowAlike ==
  ASSUME manifest \in Manifest, NEW v \in Ver, WindowPasses(v)
  PROVE  manifest' \in Manifest /\ SameButClocks(manifest, manifest')
<1> DEFINE e == IF manifest.entry[v].status = "quarantined"
                  THEN [manifest.entry[v] EXCEPT !.quarantined = "elapsed"]
                  ELSE [manifest.entry[v] EXCEPT !.since = "elapsed"]
           g == [manifest.entry EXCEPT ![v] = e]
<1>1. manifest.entry[v] \in Entry /\ ExpiryClock(manifest.entry[v]) = "running"
  BY DEF WindowPasses, Manifest
<1>2. /\ e \in Entry
      /\ e.status = manifest.entry[v].status /\ e.op = manifest.entry[v].op
      /\ e.commit = manifest.entry[v].commit /\ e.sha = manifest.entry[v].sha
      /\ e.beta = manifest.entry[v].beta
      /\ e.since = "null" <=> manifest.entry[v].since = "null"
      /\ e.quarantined = "null" <=> manifest.entry[v].quarantined = "null"
  BY <1>1 DEF Entry, Clock, ExpiryClock
<1>3. manifest' = [manifest EXCEPT !.entry = g]
  BY DEF WindowPasses, Manifest
<1> HIDE DEF e
<1>4. /\ g \in [Ver -> Entry]
      /\ \A w \in Ver : g[w] = IF w = v THEN e ELSE manifest.entry[w]
  BY <1>2 DEF Manifest
<1> HIDE DEF g
<1>5. /\ manifest' \in Manifest /\ manifest'.entry = g
      /\ manifest'.latest = manifest.latest /\ manifest'.op = manifest.op
      /\ manifest'.tombs = manifest.tombs
  BY <1>3, <1>4 DEF Manifest
<1>6. ASSUME NEW w \in Ver
      PROVE  /\ g[w].status = manifest.entry[w].status /\ g[w].op = manifest.entry[w].op
             /\ g[w].commit = manifest.entry[w].commit /\ g[w].sha = manifest.entry[w].sha
             /\ g[w].beta = manifest.entry[w].beta
             /\ g[w].since = "null" <=> manifest.entry[w].since = "null"
             /\ g[w].quarantined = "null" <=> manifest.entry[w].quarantined = "null"
  BY <1>2, <1>4
<1> QED
  BY <1>5, <1>6 DEF SameButClocks

(* A window that passes changes no verdict on a commit under way. *)
LEMMA TimeKeeps ==
  ASSUME Inv, NEW v \in Ver, TimePasses(v) PROVE Inv'
<1>1. /\ UNCHANGED <<objects, put, fresh, pc, built, cleanupVars, withdraws, takenBack>>
      /\ WindowPasses(v) /\ rested' \subseteq Ver
  BY DEF TimePasses, WindowPasses, scriptVars, Inv, TypeOK
<1>2. manifest \in Manifest /\ manifest' \in Manifest /\ SameButClocks(manifest, manifest')
  BY <1>1, WindowAlike DEF Inv, TypeOK
<1>3. Valid(manifest')
  BY <1>2, ClocksIrrelevant DEF Inv
<1>4. manifest'.op = manifest.op
  BY <1>2 DEF SameButClocks
<1>5. AbsentOps(manifest') /\ OpsGrow(manifest, manifest')
  BY <1>4 DEF Inv, AbsentOps, OpsGrow
<1>6. ASSUME NEW r \in Run PROVE RunKnown(r)'
  BY <1>1, <1>5, RunKeeps DEF Inv
<1>7. ASSUME NEW r \in Run, r \in fresh' PROVE FreshKnown(r)'
  <2> DEFINE o == OpRec(r)
             new == [o EXCEPT !.state = "committed"]
             e == NewEntry(r, o)
             c == Committed(r)
             d == Written(manifest', OpOf[r], new, o.ver, e, ChannelOf(o.ver))
  <2>1. /\ r \in fresh /\ pc[r] \in {"committing", "failed"} /\ o.state = "prepared"
        /\ ~Present(manifest, o.ver) /\ Valid(Stamp(manifest, c))
        /\ built[r] \in Sha /\ built[r] = built'[r] /\ pc'[r] = pc[r] /\ OpRec(r)' = o
    BY <1>1, <1>4, <1>7 DEF Inv, FreshKnown, OpRec
  <2>2. o \in Op /\ o.ver \in Ver /\ OpOf[r] \in OpId /\ ChannelOf(o.ver) \in Channel
    BY <1>2, <2>1, RunAssumption DEF Inv, Valid, OpsValid, OpRec, Manifest, ChannelOf, Channel
  <2>3. new \in Op
    <3> HIDE DEF o
    <3> QED
      BY <2>2 DEF Op
  <2>4. c = Written(manifest, OpOf[r], new, o.ver, e, ChannelOf(o.ver))
    BY CommittedWritten
  <2>5. Committed(r)' = d
    BY <1>1, <2>1 DEF Committed, SetOp, Written, NewEntry
  <2>6. e \in Entry
    BY <2>1, <2>2, CommittedEntry
  <2>7. c \in Manifest /\ d \in Manifest /\ SameButClocks(c, d)
    <3> HIDE DEF o, new, e, c, d
    <3>1. d = Written(manifest', OpOf[r], new, o.ver, e, ChannelOf(o.ver))
      BY DEF d
    <3> QED
      BY <1>2, <2>2, <2>3, <2>4, <2>6, <3>1, WritesAlike
  <2> HIDE DEF new, e, c, d
  <2>8. Valid(Stamp(manifest', d))
    <3> DEFINE x == Stamp(manifest, c)
               y == Stamp(manifest', d)
    <3>1. Valid(x)
      BY <2>1
    <3>2. x = Stamp(manifest, c) /\ y = Stamp(manifest', d)
      OBVIOUS
    <3> HIDE DEF x, y
    <3>3. x \in Manifest /\ y \in Manifest /\ SameButClocks(x, y)
      BY <1>2, <2>7, <3>2, StampsAlike
    <3>4. Valid(y)
      BY <3>1, <3>3, ClocksIrrelevant
    <3> QED
      BY <3>4 DEF y
  <2>9. ~Present(manifest', o.ver)
    BY <1>2, <2>1, <2>2 DEF SameButClocks, Present
  <2> QED
    BY <2>1, <2>5, <2>8, <2>9 DEF FreshKnown
<1>8. \A r \in Run : FreshKnown(r)'
  BY <1>7 DEF FreshKnown
<1>9. TypeOK'
  BY <1>1, <1>2 DEF Inv, TypeOK, cleanupVars
<1> QED
  BY <1>3, <1>5, <1>6, <1>8, <1>9 DEF Inv

-----------------------------------------------------------------------------

(* Initially nothing is published and nothing under way. *)
LEMMA InitInv == ASSUME Init PROVE Inv
<1>0. 0 \in 0 .. MaxWithdraws
  BY OperatorAssumption
<1>1. TypeOK
  BY <1>0, EmptyValid DEF Init, TypeOK, UploadState, ScriptState
<1>2. \A r \in Run : RunKnown(r) /\ FreshKnown(r)
  BY DEF Init, RunKnown, FreshKnown
<1> QED
  BY <1>1, <1>2, EmptyValid DEF Init, Inv

(* Every step keeps the invariant. *)
LEMMA NextKeeps == ASSUME Inv, [Next]_vars PROVE Inv'
<1>1. CASE Change /\ Tenure
  <2>1. ASSUME NEW r \in Run, RunStep(r) \/ GivesUp(r), UNCHANGED <<cleanupVars, withdraws>>
        PROVE  Inv'
    BY <1>1, <2>1, RunStepKeeps DEF Outside
  <2> QED
    BY <1>1, <2>1, WithdrawKeeps, AbandonKeeps, CleanupKeeps DEF Change
<1>2. CASE UNCHANGED vars
  <2>1. UNCHANGED <<manifest, fresh, put, pc, built, objects>> /\ RestOK'
    BY <1>2 DEF vars, endpointVars, scriptVars, cleanupVars, Inv, TypeOK, RestOK
  <2> QED
    BY <2>1, AsideKeeps DEF Inv, TypeOK
<1> QED
  BY <1>1, <1>2, UploadingKeeps, TimeKeeps DEF Next

(* The invariant of the pipeline. *)
LEMMA Invariant == Spec => []Inv
<1>1. Init => Inv
  BY InitInv
<1>2. Inv /\ [Next]_vars => Inv'
  BY NextKeeps
<1> QED
  BY <1>1, <1>2, PTL DEF Spec

(* The variables of the endpoint, of the scripts and of the cleanup keep   *)
(* their types; in particular no step looks an object up under a key that  *)
(* is none.                                                                *)
THEOREM TypeCorrect == Spec => []TypeOK
<1>1. Inv => TypeOK
  BY DEF Inv
<1> QED
  BY <1>1, Invariant, PTL

(* Every manifest the endpoint stores passes validateManifest, the one a   *)
(* commit stores after its objects were looked up included: between the    *)
(* check and the write only clocks advance.                                *)
THEOREM ManifestAlwaysValid == Spec => []Valid(manifest)
<1>1. Inv => Valid(manifest)
  BY DEF Inv
<1> QED
  BY <1>1, Invariant, PTL
=============================================================================
