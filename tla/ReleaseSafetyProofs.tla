------------------------- MODULE ReleaseSafetyProofs -------------------------
(***************************************************************************)
(* What customers rely on, for any release ids, runs and payloads: the     *)
(* payload of a version that has not expired is in the bucket, unless an   *)
(* upload's post-check took it away after its release id was settled; and  *)
(* a version expires only after a whole window off every pointer.          *)
(***************************************************************************)
EXTENDS ReleaseProofs

(* The objects somebody counts on: those of live versions, of prepared ops *)
(* and of runs that have read theirs back.                                 *)
Needs ==
  {<<v, manifest.entry[v].sha>> :
     v \in {w \in Ver : manifest.entry[w].status \in {"active", "quarantined"}}}
  \cup {<<manifest.op[i].ver, manifest.op[i].sha>> :
          i \in {j \in OpId : manifest.op[j].state = "prepared"}}
  \cup {KeyOf(r) : r \in {q \in Run : pc[q] = "prepare" /\ OpRec(q).state = "reserved"}}

(* They are there or were taken back; and an upload is about to take its   *)
(* object back only if its op is settled, for good.                        *)
Found == objects \cup takenBack
Settled(o) == o.state \in {"committed", "abandoned"}

Kept ==
  /\ Needs \subseteq Found
  /\ \A r \in Run : put[r] = "removing" => Settled(OpRec(r))

-----------------------------------------------------------------------------

(* Who does not write, build or move changes no need. *)
LEMMA NeedsSame ==
  ASSUME UNCHANGED <<manifest, pc, built>> PROVE Needs' = Needs /\ \A r \in Run : KeyOf(r)' = KeyOf(r)
BY DEF Needs, KeyOf, OpRec

(* A write that adds no version: what is needed after it was needed        *)
(* before.                                                                 *)
LEMMA PostNeeds ==
  ASSUME Inv, NEW cap, NEW c \in Manifest, Post(cap, c),
         \A v \in Ver : Present(c, v) => Present(manifest, v),
         \A i \in OpId : c.op[i].state = "prepared" /\ manifest.op[i].state # "prepared" =>
           \E r \in Run : i = OpOf[r] /\ pc[r] = "prepare" /\ OpRec(r).state = "reserved",
         \A r \in Run : pc'[r] = "prepare" => pc[r] = "prepare" /\ built'[r] = built[r]
  PROVE  Needs' \subseteq Needs
<1>1. /\ manifest' = Stamp(manifest, c) /\ EntryMoves(manifest, c) /\ OpMoves(manifest, c)
      /\ manifest \in Manifest
  BY DEF Post, Accepts, LegalDiff, Inv, TypeOK
<1>2. /\ manifest' \in Manifest /\ manifest'.op = c.op /\ OpsGrow(manifest, manifest')
  BY PostValid DEF Inv
<1>3. ASSUME NEW v \in Ver, manifest'.entry[v].status \in {"active", "quarantined"}
      PROVE  /\ manifest.entry[v].status \in {"active", "quarantined"}
             /\ manifest'.entry[v].sha = manifest.entry[v].sha
  <2>1. c.entry[v].status = manifest'.entry[v].status /\ Present(c, v)
    BY <1>1, <1>3, StampFields DEF Present
  <2>2. manifest'.entry[v].sha = c.entry[v].sha
    BY <1>1, <2>1, StampFields
  <2>3. Present(manifest, v)
    BY <2>1
  <2>4. /\ c.entry[v].sha = manifest.entry[v].sha
        /\ manifest.entry[v].status # c.entry[v].status =>
             <<manifest.entry[v].status, c.entry[v].status>> \in StatusMoves
    BY <1>1, <2>3 DEF EntryMoves
  <2> QED
    BY <1>3, <2>1, <2>2, <2>4 DEF StatusMoves
<1>4. ASSUME NEW i \in OpId, manifest'.op[i].state = "prepared"
      PROVE  <<manifest'.op[i].ver, manifest'.op[i].sha>> \in Needs
  <2>1. CASE manifest.op[i].state = "prepared"
    <3>1. manifest.op[i].sha # None
      BY <2>1 DEF Inv, Valid, OpsValid
    <3>2. manifest'.op[i].ver = manifest.op[i].ver /\ manifest'.op[i].sha = manifest.op[i].sha
      BY <1>2, <2>1, <3>1 DEF OpsGrow
    <3> QED
      BY <2>1, <3>2 DEF Needs
  <2>2. CASE manifest.op[i].state # "prepared"
    <3>1. PICK r \in Run : i = OpOf[r] /\ pc[r] = "prepare" /\ OpRec(r).state = "reserved"
      BY <1>2, <1>4, <2>2
    <3>2. built[r] \in Sha /\ manifest.op[i].sha = built[r] /\ manifest.op[i].state = "reserved"
      BY <3>1 DEF Inv, RunKnown, OpRec
    <3>3. built[r] # None
      BY <3>2, NoneAssumption
    <3>4. manifest'.op[i].ver = manifest.op[i].ver /\ manifest'.op[i].sha = manifest.op[i].sha
      BY <1>2, <3>2, <3>3 DEF OpsGrow
    <3> QED
      BY <3>1, <3>2, <3>4 DEF Needs, KeyOf, OpRec
  <2> QED
    BY <2>1, <2>2
<1>5. ASSUME NEW r \in Run, pc'[r] = "prepare", OpRec(r)'.state = "reserved"
      PROVE  KeyOf(r)' \in Needs
  <2>1. pc[r] = "prepare" /\ built'[r] = built[r] /\ OpOf[r] \in OpId
    BY <1>5, RunAssumption
  <2>2. OpRec(r).state # "absent"
    BY <2>1 DEF Inv, RunKnown
  <2>3. OpRec(r).state = "reserved"
    <3>1. manifest.op[OpOf[r]].state # c.op[OpOf[r]].state =>
            <<manifest.op[OpOf[r]].state, c.op[OpOf[r]].state>> \in StateMoves
      BY <1>1, <2>1, <2>2 DEF OpMoves, OpRec
    <3> QED
      BY <1>2, <1>5, <3>1 DEF StateMoves, OpRec
  <2>4. OpRec(r)'.ver = OpRec(r).ver
    BY <1>2, <2>1, <2>2 DEF OpsGrow, OpRec
  <2> QED
    BY <2>1, <2>3, <2>4 DEF Needs, KeyOf
<1> QED
  BY <1>3, <1>4, <1>5 DEF Needs

(* What a step of a run does besides writing. *)
LEMMA RunMoves ==
  ASSUME Inv, NEW r \in Run, RunStep(r) \/ GivesUp(r)
  PROVE  /\ UNCHANGED objects
         /\ \A q \in Run : put'[q] = put[q] \/ put'[q] = "asked"
         /\ \A q \in Run : pc'[q] = "prepare" =>
              /\ built'[q] = built[q]
              /\ pc[q] = "prepare" \/ (UNCHANGED manifest /\ KeyOf(q) \in objects)
<1> USE DEF At, Goes, Keeps, endpointVars
<1> DEFINE Moves(q) == pc'[q] = pc[q] /\ built'[q] = built[q] /\ put'[q] = put[q]
<1>0. pc \in [Run -> ScriptState] /\ put \in [Run -> UploadState]
      /\ built \in [Run -> Sha \cup {None}]
  BY DEF Inv, TypeOK
<1>1. \A q \in Run \ {r} : Moves(q)
  <2>1. CASE Start(r) \/ Uploaded(r) \/ Readback(r) \/ CommitCheck(r) \/ CommitMisses(r)
             \/ GivesUp(r)
    BY <1>0, <2>1 DEF Start, Uploaded, Readback, CommitCheck, CommitMisses, GivesUp
  <2>2. CASE Build(r) \/ StartCommit(r)
    BY <1>0, <2>2 DEF Build, StartCommit
  <2>3. CASE Upload(r)
    BY <1>0, <2>3 DEF Upload, PutMoves
  <2>4. CASE ReserveBeta(r)
    BY <1>0, <2>4 DEF ReserveBeta, Update
  <2>5. CASE ReserveCandidate(r)
    BY <1>0, <2>5 DEF ReserveCandidate, Update
  <2>6. CASE Register(r) \/ ToPrepared(r)
    BY <1>0, <2>6 DEF Register, ToPrepared, Update
  <2>7. CASE CommitLands(r)
    BY <1>0, <2>7 DEF CommitLands
  <2> QED
    BY <2>1, <2>2, <2>3, <2>4, <2>5, <2>6, <2>7 DEF RunStep
<1>2. UNCHANGED objects
  BY DEF RunStep, Start, ReserveBeta, ReserveCandidate, Build, Register, Upload, Uploaded,
     Readback, ToPrepared, StartCommit, CommitCheck, CommitLands, CommitMisses, GivesUp, Update
<1>3. put'[r] = put[r] \/ put'[r] = "asked"
  BY <1>0 DEF RunStep, Start, ReserveBeta, ReserveCandidate, Build, Register, Upload, Uploaded,
     Readback, ToPrepared, StartCommit, CommitCheck, CommitLands, CommitMisses, GivesUp, Update,
     PutMoves
<1>4. pc'[r] = "prepare" => UNCHANGED <<built, manifest>> /\ KeyOf(r) \in objects
  <2>1. CASE Start(r) \/ Uploaded(r) \/ Readback(r) \/ CommitCheck(r) \/ CommitMisses(r)
             \/ GivesUp(r)
    BY <1>0, <2>1 DEF Start, Uploaded, Readback, CommitCheck, CommitMisses, GivesUp
  <2>2. CASE Build(r) \/ StartCommit(r) \/ Upload(r) \/ CommitLands(r)
    BY <1>0, <2>2 DEF Build, StartCommit, Upload, AfterPrepared, CommitLands
  <2>3. CASE ReserveBeta(r)
    BY <1>0, <2>3 DEF ReserveBeta, Update
  <2>4. CASE ReserveCandidate(r)
    BY <1>0, <2>4 DEF ReserveCandidate, Update
  <2>5. CASE Register(r) \/ ToPrepared(r)
    BY <1>0, <2>5 DEF Register, ToPrepared, Update, AfterPrepared
  <2> QED
    BY <2>1, <2>2, <2>3, <2>4, <2>5 DEF RunStep
<1>5. \A q \in Run : put'[q] = put[q] \/ put'[q] = "asked"
  BY <1>1, <1>3
<1>6. ASSUME NEW q \in Run, pc'[q] = "prepare"
      PROVE  /\ built'[q] = built[q]
             /\ pc[q] = "prepare" \/ (UNCHANGED manifest /\ KeyOf(q) \in objects)
  BY <1>1, <1>4, <1>6
<1> QED
  BY <1>2, <1>5, <1>6

(* The write of a commit needs what the prepared op it commits needed.     *)
LEMMA CommitNeeds ==
  ASSUME Inv, NEW r \in Run, CommitLands(r) PROVE Needs' \subseteq Needs
<1>1. /\ pc[r] = "committing" /\ r \in fresh /\ pc' = [pc EXCEPT ![r] = "done"]
      /\ manifest' = Stamp(manifest, Committed(r)) /\ UNCHANGED built
  BY DEF CommitLands, At, Goes
<1>2. /\ OpRec(r).state = "prepared" /\ built[r] \in Sha /\ OpRec(r).sha = built[r]
  BY <1>1 DEF Inv, FreshKnown, RunKnown
<1>3. manifest \in Manifest /\ OpsValid(manifest)
  BY DEF Inv, TypeOK, Valid
<1> DEFINE c == Committed(r)
           o == OpRec(r)
<1>4. /\ o \in Op /\ o.ver \in Ver /\ OpOf[r] \in OpId /\ c \in Manifest
      /\ c.op = [manifest.op EXCEPT ![OpOf[r]] = [o EXCEPT !.state = "committed"]]
      /\ \A v \in Ver \ {o.ver} : c.entry[v] = manifest.entry[v]
      /\ c.entry[o.ver].status = "active" /\ c.entry[o.ver].sha = built[r]
  BY <1>2, <1>3, CommittedFields
<1>5. manifest' = Stamp(manifest, c)
  BY <1>1
<1> HIDE DEF c
<1>6. /\ manifest'.op = c.op
      /\ \A v \in Ver : manifest'.entry[v].status = c.entry[v].status
      /\ \A v \in Ver : Present(c, v) => manifest'.entry[v].sha = c.entry[v].sha
  BY <1>3, <1>4, <1>5, StampFields
<1>7. ASSUME NEW v \in Ver, manifest'.entry[v].status \in {"active", "quarantined"}
      PROVE  <<v, manifest'.entry[v].sha>> \in Needs
  <2>1. manifest'.entry[v].sha = c.entry[v].sha
    BY <1>6, <1>7 DEF Present
  <2>2. CASE v = o.ver
    <3>1. <<manifest.op[OpOf[r]].ver, manifest.op[OpOf[r]].sha>> \in Needs
      BY <1>2, <1>4 DEF Needs, OpRec
    <3> QED
      BY <1>2, <1>4, <2>1, <2>2, <3>1 DEF OpRec
  <2>3. CASE v # o.ver
    BY <1>4, <1>6, <1>7, <2>1, <2>3 DEF Needs
  <2> QED
    BY <2>2, <2>3
<1>8. \A i \in OpId : manifest'.op[i] =
        IF i = OpOf[r] THEN [o EXCEPT !.state = "committed"] ELSE manifest.op[i]
  BY <1>3, <1>4, <1>6 DEF Manifest
<1>9. [o EXCEPT !.state = "committed"].state = "committed"
  BY <1>4 DEF Op
<1>10. ASSUME NEW i \in OpId, manifest'.op[i].state = "prepared"
       PROVE  <<manifest'.op[i].ver, manifest'.op[i].sha>> \in Needs
  BY <1>8, <1>9, <1>10 DEF Needs
<1>11. ASSUME NEW q \in Run, pc'[q] = "prepare", OpRec(q)'.state = "reserved"
       PROVE  KeyOf(q)' \in Needs
  <2>1. pc[q] = "prepare" /\ OpOf[q] \in OpId
    BY <1>1, <1>11, RunAssumption DEF Inv, TypeOK
  <2>2. OpRec(q)' = OpRec(q)
    BY <1>8, <1>9, <1>11, <2>1 DEF OpRec
  <2> QED
    BY <1>1, <1>11, <2>1, <2>2 DEF Needs, KeyOf
<1> QED
  BY <1>7, <1>10, <1>11 DEF Needs

(* Nothing that is needed is tombstoned. *)
LEMMA NeedsNoTomb ==
  ASSUME Inv, NEW k \in manifest.tombs PROVE k \notin Needs
<1>1. /\ Present(manifest, k[1]) /\ manifest.entry[k[1]].sha = k[2] =>
           manifest.entry[k[1]].status = "expired"
      /\ ~LiveClaim(manifest, k)
  BY DEF Inv, Valid, TombstonesTerminal
<1>2. ASSUME NEW v \in Ver, manifest.entry[v].status \in {"active", "quarantined"}
      PROVE  k # <<v, manifest.entry[v].sha>>
  BY <1>1, <1>2 DEF Present
<1>3. ASSUME NEW i \in OpId, manifest.op[i].state = "prepared"
      PROVE  k # <<manifest.op[i].ver, manifest.op[i].sha>>
  BY <1>1, <1>3 DEF LiveClaim, Live
<1>4. ASSUME NEW r \in Run, pc[r] = "prepare", OpRec(r).state = "reserved" PROVE k # KeyOf(r)
  <2>1. OpOf[r] \in OpId /\ OpRec(r).sha = built[r]
    BY <1>4, RunAssumption DEF Inv, RunKnown
  <2> QED
    BY <1>1, <1>4, <2>1 DEF LiveClaim, Live, KeyOf, OpRec
<1> QED
  BY <1>2, <1>3, <1>4 DEF Needs

-----------------------------------------------------------------------------
(* The writes there are, besides the landing of a commit: none adds a      *)
(* version, only a run that is about to makes an op prepared, and a status *)
(* or a pointer is changed by an expiry or a withdrawal only.              *)

StatusKept(c) ==
  /\ c.latest = manifest.latest
  /\ \A v \in Ver : c.entry[v].status = manifest.entry[v].status

Expires(c, v) ==
  /\ c.latest = manifest.latest
  /\ \A w \in Ver : c.entry[w].status = IF w = v THEN "expired" ELSE manifest.entry[w].status

AddsNone(c) ==
  /\ \A v \in Ver : Present(c, v) => Present(manifest, v)
  /\ \A i \in OpId : c.op[i].state = "prepared" /\ manifest.op[i].state # "prepared" =>
       \E r \in Run : i = OpOf[r] /\ pc[r] = "prepare" /\ OpRec(r).state = "reserved"
  /\ \A i, j \in Reserved(manifest, c) : i = j

Posted(c) ==
  /\ c \in Manifest /\ AddsNone(c)
  /\ \E cap \in Capability : Post(cap, c)
  /\ \/ StatusKept(c)
     \/ \E v \in Ver : Expires(c, v)
     \/ \E v, f \in Ver : OnlyWithdraws(c, v, f) /\ ~IsBeta(f)
                            /\ manifest.entry[f].status = "active"

Writes == UNCHANGED manifest \/ (\E c \in Manifest : Posted(c)) \/ \E r \in Run : CommitLands(r)

(* The writes of the runs. *)
LEMMA RunWrites ==
  ASSUME Inv, NEW r \in Run, RunStep(r) \/ GivesUp(r), Outside PROVE Writes
<1>1. ASSUME OpWrite(r) PROVE \E c \in Manifest : Posted(c)
  <2>1. PICK cap \in Capability, c \in Manifest :
          /\ Post(cap, c) /\ c.latest = manifest.latest /\ c.entry = manifest.entry
          /\ \A i \in OpId \ {OpOf[r]} : c.op[i] = manifest.op[i]
          /\ \A i \in OpId : c.op[i].state = "prepared" /\ manifest.op[i].state # "prepared" =>
               i = OpOf[r] /\ pc[r] = "prepare" /\ OpRec(r).state = "reserved"
    BY <1>1 DEF OpWrite
  <2>2. AddsNone(c) /\ StatusKept(c)
    BY <2>1 DEF AddsNone, StatusKept, Present, Reserved
  <2> QED
    BY <2>1, <2>2 DEF Posted
<1> QED
  BY <1>1, RunStepKeeps DEF Effect, Writes

(* The writes of the founder and the operator. *)
LEMMA HumanWrites ==
  ASSUME Inv, \/ \E v, f \in Ver : Withdraw(v, f)
              \/ \E i \in OpId : Abandon(i)
  PROVE  \E c \in Manifest : Posted(c)
<1>0. manifest \in Manifest
  BY DEF Inv, TypeOK
<1>1. ASSUME NEW v \in Ver, NEW f \in Ver, Withdraw(v, f) PROVE \E c \in Manifest : Posted(c)
  <2> DEFINE c == Withdrawn(v, f)
  <2>1. /\ Post("customer-release", c) /\ Present(manifest, v)
        /\ manifest.entry[f].status = "active" /\ ~IsBeta(f)
    BY <1>1 DEF Withdraw, Withdrawn
  <2>2. c = Withdrawn(v, f)
    OBVIOUS
  <2> HIDE DEF c
  <2>3. OnlyWithdraws(c, v, f)
    BY <1>0, <2>2, WithdrawWrite
  <2>4. c \in Manifest /\ AddsNone(c)
    BY <2>1, <2>3 DEF OnlyWithdraws, AddsNone, Present, Reserved
  <2> QED
    BY <2>1, <2>3, <2>4 DEF Posted, Capability
<1>2. ASSUME NEW i \in OpId, Abandon(i) PROVE \E c \in Manifest : Posted(c)
  <2> DEFINE o == [manifest.op[i] EXCEPT !.state = "abandoned"]
             c == SetOp(i, o)
  <2>1. Post("ops-admin", c)
    BY <1>2 DEF Abandon
  <2>2. o \in Op /\ o.state = "abandoned"
    BY <1>0 DEF Manifest, Op
  <2> HIDE DEF o
  <2>3. /\ c \in Manifest /\ c.latest = manifest.latest /\ c.entry = manifest.entry
        /\ c.op = [manifest.op EXCEPT ![i] = o]
    BY <1>0, <2>2, SetOpFields
  <2>4. AddsNone(c) /\ StatusKept(c)
    BY <1>0, <2>2, <2>3 DEF AddsNone, StatusKept, Present, Reserved, Manifest
  <2> HIDE DEF c
  <2> QED
    BY <2>1, <2>3, <2>4 DEF Posted, Capability
<1> QED
  BY <1>1, <1>2

(* The writes of the cleanup. *)
LEMMA CleanupWrites ==
  ASSUME Inv, StartCleanup \/ CleanupStep \/ CleanupDies
  PROVE  UNCHANGED manifest \/ \E c \in Manifest : Posted(c)
<1>0. manifest \in Manifest /\ expiring \subseteq Ver /\ doomed \subseteq Key
  BY DEF Inv, TypeOK
<1>1. ASSUME NEW v \in expiring, ExpireOne(v)
      PROVE  UNCHANGED manifest \/ \E c \in Manifest : Posted(c)
  <2> DEFINE c == WithStatus(v, "expired")
  <2>1. \/ UNCHANGED manifest
        \/ Accepts("ops-admin", manifest, c) /\ Post("ops-admin", c)
    BY <1>1 DEF ExpireOne, CasPost, Post, WithStatus
  <2>2. c = WithStatus(v, "expired") /\ v \in Ver
    BY <1>0
  <2> HIDE DEF c
  <2>3. /\ c \in Manifest /\ c.latest = manifest.latest /\ c.op = manifest.op
        /\ \A w \in Ver : c.entry[w].status = IF w = v THEN "expired" ELSE manifest.entry[w].status
    BY <1>0, <2>2, StatusWrite
  <2>4. CASE Accepts("ops-admin", manifest, c) /\ Post("ops-admin", c)
    <3>1. \A w \in Added(manifest, c) : "ops-admin" = PublisherOf(w)
      BY <2>4 DEF Accepts, CapabilityAllows
    <3>2. Present(manifest, v)
      BY <2>2, <2>3, <3>1 DEF Added, Present, PublisherOf
    <3>3. AddsNone(c) /\ Expires(c, v)
      BY <2>3, <3>2 DEF AddsNone, Expires, Present, Reserved
    <3> QED
      BY <2>2, <2>3, <2>4, <3>3 DEF Posted, Capability
  <2> QED
    BY <2>1, <2>4
<1>2. ASSUME NEW k \in doomed, TombstoneOne(k)
      PROVE  UNCHANGED manifest \/ \E c \in Manifest : Posted(c)
  <2> DEFINE c == [manifest EXCEPT !.tombs = @ \cup {k}]
  <2>1. (Post("ops-admin", c) \/ UNCHANGED manifest) /\ k \in Key
    BY <1>0, <1>2 DEF TombstoneOne, CasPost
  <2>2. /\ c \in Manifest /\ c.latest = manifest.latest /\ c.entry = manifest.entry
        /\ c.op = manifest.op
    BY <1>0, <2>1 DEF Manifest
  <2>3. AddsNone(c) /\ StatusKept(c)
    BY <2>2 DEF AddsNone, StatusKept, Present, Reserved
  <2> HIDE DEF c
  <2> QED
    BY <2>1, <2>2, <2>3 DEF Posted, Capability
<1> QED
  BY <1>1, <1>2 DEF StartCleanup, CleanupStep, CleanupDies, StartTombstones, StartSweep,
     EndCleanup, DeleteOne, DeleteFails, Delete, endpointVars

(* All the writes. *)
LEMMA ChangeWrites == ASSUME Inv, Change, Tenure PROVE Writes
<1>1. ASSUME NEW r \in Run, RunStep(r) \/ GivesUp(r), UNCHANGED <<cleanupVars, withdraws>>
      PROVE  Writes
  BY <1>1, RunWrites DEF Outside
<1> QED
  BY <1>1, HumanWrites, CleanupWrites DEF Change, Writes

(* What else happens between uploads: no upload gets further, at most an   *)
(* object that is tombstoned disappears, and a run gets ready to make its  *)
(* op prepared only if it has found the object.                            *)
LEMMA ChangeMoves ==
  ASSUME Inv, Change
  PROVE  /\ UNCHANGED objects \/ /\ UNCHANGED <<manifest, pc, built>>
                                 /\ \E k \in manifest.tombs : objects' = objects \ {k}
         /\ \A q \in Run : put'[q] = put[q] \/ put'[q] = "asked"
         /\ \A q \in Run : pc'[q] = "prepare" =>
              /\ built'[q] = built[q]
              /\ pc[q] = "prepare" \/ (UNCHANGED manifest /\ KeyOf(q) \in objects)
<1>1. CASE \E r \in Run : RunStep(r) \/ GivesUp(r)
  BY <1>1, RunMoves
<1>2. CASE (\E v, f \in Ver : Withdraw(v, f)) \/ (\E i \in OpId : Abandon(i))
  BY <1>2 DEF Withdraw, Abandon, scriptVars
<1>3. CASE (StartCleanup \/ CleanupStep \/ CleanupDies) /\ UNCHANGED <<scriptVars, withdraws>>
  BY <1>3 DEF StartCleanup, CleanupStep, CleanupDies, StartTombstones, StartSweep, EndCleanup,
     ExpireOne, TombstoneOne, CasPost, Post, DeleteOne, DeleteFails, Delete, endpointVars,
     scriptVars
<1> QED
  BY <1>1, <1>2, <1>3 DEF Change

-----------------------------------------------------------------------------

(* No op ever loses its version or its payload, or is settled otherwise.  *)
LEMMA NextGrows == ASSUME Inv, [Next]_vars PROVE OpsGrow(manifest, manifest')
<1>1. CASE manifest'.op = manifest.op
  BY <1>1 DEF OpsGrow
<1>2. ASSUME NEW c \in Manifest, Posted(c) PROVE OpsGrow(manifest, manifest')
  BY <1>2, PostValid DEF Inv, Posted
<1>3. ASSUME NEW r \in Run, CommitLands(r) PROVE OpsGrow(manifest, manifest')
  <2> DEFINE c == Committed(r)
             o == OpRec(r)
  <2>1. /\ OpRec(r).state = "prepared" /\ built[r] \in Sha
        /\ manifest' = Stamp(manifest, c) /\ manifest \in Manifest /\ OpsValid(manifest)
    BY <1>3 DEF Inv, TypeOK, Valid, FreshKnown, CommitLands
  <2>2. /\ c \in Manifest /\ o \in Op /\ OpOf[r] \in OpId
        /\ c.op = [manifest.op EXCEPT ![OpOf[r]] = [o EXCEPT !.state = "committed"]]
    BY <2>1, CommittedFields
  <2> HIDE DEF c
  <2>3. manifest'.op = c.op
    BY <2>1, <2>2, StampFields
  <2>4. /\ [o EXCEPT !.state = "committed"].state = "committed"
        /\ [o EXCEPT !.state = "committed"].ver = o.ver
        /\ [o EXCEPT !.state = "committed"].sha = o.sha
    BY <2>2 DEF Op
  <2>5. \A i \in OpId : manifest'.op[i] =
          IF i = OpOf[r] THEN [o EXCEPT !.state = "committed"] ELSE manifest.op[i]
    BY <2>1, <2>2, <2>3 DEF Manifest
  <2> QED
    BY <2>1, <2>4, <2>5 DEF OpsGrow, OpRec
<1>4. ASSUME NEW v \in Ver, TimePasses(v) PROVE manifest'.op = manifest.op
  BY <1>4, WindowAlike DEF TimePasses, SameButClocks, Inv, TypeOK
<1>5. ASSUME NEW r \in Run, Uploading(r) PROVE UNCHANGED manifest
  BY <1>5 DEF Uploading, PutStep, PutClaim, PutStore, PutCheck, PutRemove, PutDies
<1>6. CASE Change /\ Tenure
  BY <1>1, <1>2, <1>3, <1>6, ChangeWrites DEF Writes
<1>7. UNCHANGED vars => UNCHANGED manifest
  BY DEF vars, endpointVars
<1> QED
  BY <1>1, <1>4, <1>5, <1>6, <1>7 DEF Next

(* Who is about to take its object back found its op settled, and it stays *)
(* settled.                                                                *)
LEMMA RemovingSettled ==
  ASSUME Inv, Kept, [Next]_vars, NEW r \in Run, put'[r] = "removing" PROVE Settled(OpRec(r)')
<1>1. OpsGrow(manifest, manifest') /\ OpOf[r] \in OpId
  BY NextGrows, RunAssumption
<1>2. ASSUME Settled(OpRec(r)) PROVE Settled(OpRec(r)')
  BY <1>1, <1>2 DEF OpsGrow, Settled, OpRec
<1>3. ASSUME NEW q \in Run, Uploading(q), put[r] # "removing" PROVE Settled(OpRec(r)')
  <2>1. put \in [Run -> UploadState]
    BY DEF Inv, TypeOK
  <2>2. put[r] = "stored" /\ ~Claimed(KeyOf(r))
    BY <1>3, <2>1 DEF Uploading, PutStep, PutClaim, PutStore, PutCheck, PutRemove, PutDies,
       PutMoves
  <2>3. OpRec(r).state # "absent" /\ OpRec(r).sha = built[r] /\ OpRec(r) \in Op
    BY <1>1, <2>2 DEF Inv, RunKnown, TypeOK, Manifest, OpRec
  <2>4. ~LiveClaim(manifest, KeyOf(r))
    BY <2>2 DEF Claimed, Inv, Valid, TombstonesTerminal
  <2>5. ~Live(OpRec(r))
    BY <1>1, <2>3, <2>4 DEF LiveClaim, KeyOf, OpRec
  <2> QED
    BY <1>2, <2>3, <2>5 DEF Live, Op, Settled
<1>4. ASSUME ~\E q \in Run : Uploading(q) PROVE put[r] = "removing"
  BY <1>4, ChangeMoves DEF Next, TimePasses, WindowPasses, vars, endpointVars
<1> QED
  BY <1>2, <1>3, <1>4 DEF Kept

(* Everything but the uploads and the clock. *)
LEMMA ChangeKeepsObjects ==
  ASSUME Inv, Kept, Change, Tenure PROVE Needs' \subseteq Found'
<1>1. /\ UNCHANGED objects \/ /\ UNCHANGED <<manifest, pc, built>>
                              /\ \E k \in manifest.tombs : objects' = objects \ {k}
      /\ \A q \in Run : pc'[q] = "prepare" =>
           /\ built'[q] = built[q]
           /\ pc[q] = "prepare" \/ (UNCHANGED manifest /\ KeyOf(q) \in objects)
  BY ChangeMoves
<1>2. UNCHANGED takenBack
  BY DEF Tenure
<1>3. CASE ~UNCHANGED objects
  <2>1. PICK k \in manifest.tombs : objects' = objects \ {k}
    BY <1>1, <1>3
  <2>2. Needs' = Needs /\ k \notin Needs
    BY <1>1, <1>3, NeedsSame, NeedsNoTomb
  <2> QED
    BY <1>2, <2>1, <2>2 DEF Kept, Found
<1>4. CASE UNCHANGED <<objects, manifest>>
  <2>1. ASSUME NEW q \in Run, pc'[q] = "prepare", OpRec(q)'.state = "reserved"
        PROVE  KeyOf(q)' \in Found
    <3>1. OpRec(q)' = OpRec(q) /\ KeyOf(q)' = KeyOf(q)
      BY <1>1, <1>4, <2>1 DEF OpRec, KeyOf
    <3>2. KeyOf(q) \in Needs \/ KeyOf(q) \in objects
      BY <1>1, <2>1, <3>1 DEF Needs
    <3> QED
      BY <3>1, <3>2 DEF Kept, Found
  <2>2. Needs' \subseteq Found
    BY <1>4, <2>1 DEF Needs, Kept
  <2> QED
    BY <1>2, <1>4, <2>2 DEF Found
<1>5. CASE UNCHANGED objects /\ ~UNCHANGED manifest
  <2>1. ASSUME NEW c \in Manifest, Posted(c) PROVE Needs' \subseteq Needs
    <3>1. PICK cap \in Capability : Post(cap, c)
      BY <2>1 DEF Posted
    <3>2. \A q \in Run : pc'[q] = "prepare" => pc[q] = "prepare" /\ built'[q] = built[q]
      BY <1>1, <1>5
    <3> QED
      BY <2>1, <3>1, <3>2, PostNeeds DEF Posted, AddsNone
  <2>2. Needs' \subseteq Needs
    BY <1>5, <2>1, ChangeWrites, CommitNeeds DEF Writes
  <2> QED
    BY <1>2, <1>5, <2>2 DEF Kept, Found
<1> QED
  BY <1>3, <1>4, <1>5

(* An upload adds its object, or takes it back when its op is settled.     *)
LEMMA UploadingKeepsObjects ==
  ASSUME Inv, Kept, NEW r \in Run, Uploading(r) PROVE Needs' \subseteq Found'
<1>1. UNCHANGED <<manifest, pc, built>>
  BY DEF Uploading, PutStep, PutClaim, PutStore, PutCheck, PutRemove, PutDies, scriptVars
<1>2. Needs' = Needs
  BY <1>1, NeedsSame
<1>3. takenBack' = (takenBack \cup IF Live(OpRec(r)) THEN {} ELSE objects) \ objects'
  BY DEF Uploading
<1>4. CASE objects \subseteq objects'
  BY <1>2, <1>3, <1>4 DEF Kept, Found
<1>5. CASE PutRemove(r)
  <2>1. ~Live(OpRec(r))
    BY <1>5 DEF PutRemove, PutMoves, Kept, Settled, Live
  <2> QED
    BY <1>2, <1>3, <2>1 DEF Kept, Found
<1>6. PutRemove(r) \/ objects \subseteq objects'
  BY DEF Uploading, PutStep, PutClaim, PutStore, PutCheck, PutDies
<1> QED
  BY <1>4, <1>5, <1>6

(* Time changes no need. *)
LEMMA TimeKeepsObjects ==
  ASSUME Inv, Kept, NEW v \in Ver, TimePasses(v) PROVE Needs' \subseteq Found'
<1>1. WindowPasses(v) /\ UNCHANGED <<objects, takenBack, pc, built>>
  BY DEF TimePasses, WindowPasses, scriptVars
<1>2. manifest' \in Manifest /\ SameButClocks(manifest, manifest')
  BY <1>1, WindowAlike DEF Inv, TypeOK
<1>3. /\ manifest'.op = manifest.op
      /\ \A w \in Ver : /\ manifest'.entry[w].status = manifest.entry[w].status
                        /\ manifest'.entry[w].sha = manifest.entry[w].sha
  BY <1>2 DEF SameButClocks
<1>4. Needs' = Needs
  <2>1. \A q \in Run : KeyOf(q)' = KeyOf(q) /\ OpRec(q)' = OpRec(q)
    BY <1>1, <1>3 DEF KeyOf, OpRec
  <2> QED
    BY <1>1, <1>3, <2>1 DEF Needs
<1> QED
  BY <1>1, <1>4 DEF Kept, Found

(* Every step keeps what is needed. *)
LEMMA NextKeepsObjects ==
  ASSUME Inv, Kept, [Next]_vars PROVE Kept'
<1>1. CASE UNCHANGED vars
  BY <1>1, NeedsSame DEF vars, endpointVars, scriptVars, Kept, Found, OpRec
<1>2. Needs' \subseteq Found'
  BY <1>1, ChangeKeepsObjects, UploadingKeepsObjects, TimeKeepsObjects DEF Next, Kept
<1> QED
  BY <1>2, RemovingSettled DEF Kept

(* So it is kept for good. *)
LEMMA PayloadsNeeded == Spec => []Kept
<1>1. Init => Kept
  BY DEF Init, Kept, Needs, Empty, NoEntry, NoOp
<1>2. Inv /\ Kept /\ [Next]_vars => Kept'
  BY NextKeepsObjects
<1> QED
  BY <1>1, <1>2, Invariant, PTL DEF Spec

(* "Dangling pointers are structurally impossible", for any number of runs *)
(* and payloads and whatever stops on the way, but for the post-check of   *)
(* an upload whose release id is settled; that it can leave one a run      *)
(* shows.                                                                  *)
THEOREM VersionsKept == Spec => []VersionsLoseOnlyToPostCheck
<1>1. Kept => VersionsLoseOnlyToPostCheck
  BY DEF Kept, Found, Needs, VersionsLoseOnlyToPostCheck
<1> QED
  BY <1>1, PayloadsNeeded, PTL

(* The candidate the founder is asked to approve is there to be published, *)
(* with the same exception.                                                *)
THEOREM CandidatesKept == Spec => []CandidatesLoseOnlyToPostCheck
<1>1. Kept => CandidatesLoseOnlyToPostCheck
  BY DEF Kept, Found, Needs, CandidatesLoseOnlyToPostCheck
<1> QED
  BY <1>1, PayloadsNeeded, PTL

-----------------------------------------------------------------------------
(* Tenure. *)

(* A version whose window has passed is one that rested. *)
Tenured ==
  \A v \in Ver : manifest.entry[v].status \in {"active", "quarantined"}
                   /\ ExpiryClock(manifest.entry[v]) = "elapsed" => v \in rested

Expiring(v) == manifest'.entry[v].status = "expired" /\ manifest.entry[v].status # "expired"

(* A write starts the clocks of what it moves, and expires what rested. *)
LEMMA StampTenure ==
  ASSUME Inv, Inv', Tenured, Tenure, NEW c \in Manifest, manifest' = Stamp(manifest, c),
         EntryMoves(manifest, c), WindowElapsed(manifest, c),
         \A v \in Ver : Present(c, v) => Present(manifest, v) \/ c.entry[v].status = "active"
  PROVE  Tenured' /\ \A v \in Ver : Expiring(v) => v \in rested
<1>1. manifest \in Manifest /\ manifest' \in Manifest /\ Valid(manifest) /\ Valid(manifest')
  BY DEF Inv, TypeOK
<1>2. ASSUME NEW v \in Ver, Present(c, v)
      PROVE  /\ manifest'.entry[v].status = c.entry[v].status
             /\ manifest'.entry[v].since = StampSince(manifest, c, v)
             /\ manifest'.entry[v].quarantined = StampQuarantine(manifest, c, v)
             /\ manifest'.latest = c.latest
  BY <1>1, <1>2, StampFields
<1>3. ASSUME NEW v \in Ver PROVE manifest'.entry[v].status = c.entry[v].status
  BY <1>1, StampFields
<1>4. ASSUME NEW v \in Ver, manifest'.entry[v].status \in {"active", "quarantined"},
             ExpiryClock(manifest'.entry[v]) = "elapsed"
      PROVE  v \in rested'
  <2>1. Present(c, v) /\ manifest'.entry[v].status = c.entry[v].status
    BY <1>3, <1>4 DEF Present
  <2>2. ~Latest(manifest', v)
    BY <1>1, <1>4, LatestUnaged
  <2>3. CASE c.entry[v].status = "quarantined"
    <3>1. manifest'.entry[v].quarantined = "elapsed"
      BY <1>4, <2>1, <2>3 DEF ExpiryClock
    <3>2. manifest.entry[v].status # "active" /\ manifest.entry[v].quarantined = "elapsed"
      BY <1>2, <2>1, <2>3, <3>1 DEF StampQuarantine
    <3>3. Present(manifest, v)
      BY <2>1, <2>3
    <3>4. manifest.entry[v].status = "quarantined"
      BY <2>3, <3>2, <3>3 DEF EntryMoves, StatusMoves
    <3>5. v \in rested
      BY <3>2, <3>4 DEF Tenured, ExpiryClock
    <3> QED
      BY <2>2, <3>4, <3>5 DEF Tenure
  <2>4. CASE c.entry[v].status = "active"
    <3>1. manifest'.entry[v].since = "elapsed"
      BY <1>4, <2>1, <2>4 DEF ExpiryClock
    <3>2. Present(manifest, v) /\ manifest.entry[v].since = "elapsed"
      BY <1>2, <2>1, <3>1 DEF StampSince
    <3>3. manifest.entry[v].status = "active"
      BY <2>4, <3>2 DEF EntryMoves, StatusMoves
    <3>4. v \in rested
      BY <3>2, <3>3 DEF Tenured, ExpiryClock
    <3> QED
      BY <2>1, <2>2, <2>4, <3>4 DEF Tenure
  <2> QED
    BY <1>4, <2>1, <2>3, <2>4
<1>5. ASSUME NEW v \in Ver, Expiring(v) PROVE v \in rested
  <2>1. c.entry[v].status = "expired" /\ Present(c, v) /\ manifest.entry[v].status # "expired"
    BY <1>3, <1>5 DEF Expiring, Present
  <2>2. Present(manifest, v)
    BY <2>1
  <2>3. v \in Moved(manifest, c)
    BY <2>1, <2>2 DEF Moved
  <2>4. ExpiryClock(manifest.entry[v]) = "elapsed"
    BY <2>1, <2>3 DEF WindowElapsed
  <2>5. manifest.entry[v].status \in {"active", "quarantined"}
    BY <1>1, <2>1, <2>2 DEF Present, Manifest, Entry
  <2> QED
    BY <2>4, <2>5 DEF Tenured
<1> QED
  BY <1>4, <1>5 DEF Tenured

(* The step that lands a commit is such a write. *)
LEMMA CommitMoves ==
  ASSUME Inv, NEW r \in Run, CommitLands(r)
  PROVE  LET c == Committed(r) o == OpRec(r) IN
         /\ c \in Manifest /\ manifest' = Stamp(manifest, c)
         /\ o.ver \in Ver /\ ~Present(manifest, o.ver) /\ built[r] \in Sha
         /\ c.latest = [manifest.latest EXCEPT ![ChannelOf(o.ver)] = o.ver]
         /\ \A v \in Ver \ {o.ver} : c.entry[v] = manifest.entry[v]
         /\ c.entry[o.ver].status = "active" /\ c.entry[o.ver].sha = built[r]
         /\ EntryMoves(manifest, c) /\ WindowElapsed(manifest, c)
<1>1. /\ pc[r] = "committing" /\ r \in fresh /\ manifest' = Stamp(manifest, Committed(r))
      /\ manifest \in Manifest /\ OpsValid(manifest)
  BY DEF CommitLands, At, Inv, TypeOK, Valid
<1>2. /\ OpRec(r).state = "prepared" /\ built[r] \in Sha /\ ~Present(manifest, OpRec(r).ver)
  BY <1>1 DEF Inv, FreshKnown
<1> DEFINE c == Committed(r)
           o == OpRec(r)
<1>3. /\ o.ver \in Ver /\ c \in Manifest
      /\ c.latest = [manifest.latest EXCEPT ![ChannelOf(o.ver)] = o.ver]
      /\ \A v \in Ver \ {o.ver} : c.entry[v] = manifest.entry[v]
      /\ c.entry[o.ver].status = "active" /\ c.entry[o.ver].sha = built[r]
  BY <1>1, <1>2, CommittedFields
<1> HIDE DEF c
<1>4. EntryMoves(manifest, c)
  BY <1>2, <1>3 DEF EntryMoves
<1>5. WindowElapsed(manifest, c)
  BY <1>2, <1>3 DEF WindowElapsed, Moved
<1> QED
  BY <1>1, <1>2, <1>3, <1>4, <1>5 DEF c

(* Every step keeps the record of who rested, and expires only those. *)
LEMMA TenureKeeps ==
  ASSUME Inv, Inv', Tenured, [Next]_vars
  PROVE  Tenured' /\ \A v \in Ver : Expiring(v) => v \in rested
<1>1. CASE Change /\ Tenure
  <2>1. CASE UNCHANGED manifest
    <3>1. ASSUME NEW v \in Ver, manifest.entry[v].status \in {"active", "quarantined"},
                 ExpiryClock(manifest.entry[v]) = "elapsed"
          PROVE  v \in rested'
      <4>1. v \in rested
        BY <3>1 DEF Tenured
      <4>2. ~Latest(manifest, v)
        BY <3>1, LatestUnaged DEF Inv, TypeOK
      <4> QED
        BY <1>1, <2>1, <4>1, <4>2 DEF Tenure, Latest
    <3> QED
      BY <2>1, <3>1 DEF Tenured, Expiring
  <2>2. ASSUME NEW c \in Manifest, Posted(c)
        PROVE  Tenured' /\ \A v \in Ver : Expiring(v) => v \in rested
    <3>1. /\ manifest' = Stamp(manifest, c) /\ EntryMoves(manifest, c)
          /\ WindowElapsed(manifest, c)
          /\ \A v \in Ver : Present(c, v) => Present(manifest, v)
      BY <2>2 DEF Posted, AddsNone, Post, Accepts, LegalDiff
    <3> QED
      BY <1>1, <3>1, StampTenure
  <2>3. ASSUME NEW r \in Run, CommitLands(r)
        PROVE  Tenured' /\ \A v \in Ver : Expiring(v) => v \in rested
    <3> DEFINE c == Committed(r)
               u == OpRec(r).ver
    <3>1. /\ c \in Manifest /\ manifest' = Stamp(manifest, c)
          /\ \A v \in Ver \ {u} : c.entry[v] = manifest.entry[v]
          /\ c.entry[u].status = "active"
          /\ EntryMoves(manifest, c) /\ WindowElapsed(manifest, c)
      BY <2>3, CommitMoves
    <3> HIDE DEF c, u
    <3>2. \A v \in Ver : Present(c, v) => Present(manifest, v) \/ c.entry[v].status = "active"
      BY <3>1 DEF Present
    <3> QED
      BY <1>1, <3>1, <3>2, StampTenure
  <2> QED
    BY <1>1, <2>1, <2>2, <2>3, ChangeWrites DEF Writes
<1>2. ASSUME NEW v \in Ver, TimePasses(v)
      PROVE  Tenured' /\ \A w \in Ver : Expiring(w) => w \in rested
  <2>1. /\ WindowPasses(v) /\ manifest \in Manifest
        /\ rested' = IF Latest(manifest, v) THEN rested ELSE rested \cup {v}
    BY <1>2 DEF TimePasses, Inv, TypeOK
  <2>2. SameButClocks(manifest, manifest')
    BY <2>1, WindowAlike
  <2>3. \A w \in Ver \ {v} : manifest'.entry[w] = manifest.entry[w]
    BY <2>1 DEF WindowPasses, Manifest
  <2>4. Latest(manifest, v) => ~(/\ manifest'.entry[v].status \in {"active", "quarantined"}
                                 /\ ExpiryClock(manifest'.entry[v]) = "elapsed")
    <3>1. Latest(manifest', v) <=> Latest(manifest, v)
      BY <2>2 DEF SameButClocks, Latest
    <3>2. manifest' \in Manifest /\ Valid(manifest')
      BY DEF Inv, TypeOK
    <3> QED
      BY <3>1, <3>2, LatestUnaged
  <2>5. Tenured'
    BY <2>1, <2>3, <2>4 DEF Tenured
  <2>6. \A w \in Ver : ~Expiring(w)
    BY <2>2 DEF SameButClocks, Expiring
  <2> QED
    BY <2>5, <2>6
<1>3. CASE UNCHANGED <<manifest, rested>>
  BY <1>3 DEF Tenured, Expiring
<1>4. ASSUME NEW r \in Run, Uploading(r) PROVE UNCHANGED <<manifest, rested>>
  BY <1>4 DEF Uploading, PutStep, PutClaim, PutStore, PutCheck, PutRemove, PutDies
<1>5. UNCHANGED vars => UNCHANGED <<manifest, rested>>
  BY DEF vars, endpointVars
<1> QED
  BY <1>1, <1>2, <1>3, <1>4, <1>5 DEF Next

(* A version expires only after a whole window off every pointer, and in   *)
(* quarantine if it is quarantined, whatever stops and reruns on the way.  *)
THEOREM TenureRespected == Spec => ExpiresAfterTenure
<1>1. Init => Tenured
  BY DEF Init, Tenured, Empty, NoEntry
<1>2. Inv /\ Inv' /\ Tenured /\ [Next]_vars => Tenured'
  BY TenureKeeps
<1>3. Inv /\ Inv' /\ Tenured /\ [Next]_vars =>
        [\A v \in Ver : manifest'.entry[v].status = "expired"
                          /\ manifest.entry[v].status # "expired" => v \in rested]_vars
  BY TenureKeeps DEF Expiring
<1> QED
  BY <1>1, <1>2, <1>3, Invariant, PTL DEF Spec, ExpiresAfterTenure

-----------------------------------------------------------------------------
(* The ledger of betas and the records of the bucket. *)

(* An upload adds an object its op names. *)
LEMMA DiscoverableKeeps ==
  ASSUME Inv, ObjectsDiscoverable, [Next]_vars PROVE ObjectsDiscoverable'
<1>1. OpsGrow(manifest, manifest')
  BY NextGrows
<1>2. ASSUME NEW k \in objects, k \in objects'
      PROVE  \E i \in OpId : manifest'.op[i].ver = k[1] /\ manifest'.op[i].sha = k[2]
  <2>1. PICK i \in OpId : manifest.op[i].ver = k[1] /\ manifest.op[i].sha = k[2]
    BY DEF ObjectsDiscoverable
  <2>2. k[1] # None /\ k[2] # None
    <3>1. k[1] \in Ver /\ k[2] \in Sha
      BY DEF Inv, TypeOK, Key
    <3> QED
      BY <3>1, NoneNoVer, NoneAssumption
  <2>3. manifest.op[i].state # "absent"
    BY <2>1, <2>2 DEF Inv, AbsentOps, NoOp
  <2> QED
    BY <1>1, <2>1, <2>2, <2>3 DEF OpsGrow
<1>3. ASSUME NEW r \in Run, Uploading(r)
      PROVE  UNCHANGED manifest /\ objects' \subseteq objects \cup {KeyOf(r)} /\ put[r] # "none"
  BY <1>3 DEF Uploading, PutStep, PutClaim, PutStore, PutCheck, PutRemove, PutDies, PutMoves
<1>4. ASSUME NEW r \in Run, Uploading(r), NEW k \in objects', k \notin objects
      PROVE  \E i \in OpId : manifest'.op[i].ver = k[1] /\ manifest'.op[i].sha = k[2]
  <2>1. k = KeyOf(r) /\ UNCHANGED manifest /\ OpRec(r).sha = built[r] /\ OpOf[r] \in OpId
    BY <1>3, <1>4, RunAssumption DEF Inv, RunKnown
  <2>2. k[1] = OpRec(r).ver /\ k[2] = OpRec(r).sha
    BY <2>1 DEF KeyOf
  <2> QED
    BY <2>1, <2>2 DEF OpRec
<1>5. ASSUME ~\E r \in Run : Uploading(r) PROVE objects' \subseteq objects
  BY <1>5, ChangeMoves DEF Next, TimePasses, WindowPasses, vars, endpointVars
<1> QED
  BY <1>2, <1>4, <1>5 DEF ObjectsDiscoverable

(* Every object in the bucket is named by a release op, so that a stranded *)
(* upload can be abandoned, tombstoned and deleted.                        *)
THEOREM BucketDiscoverable == Spec => []ObjectsDiscoverable
<1>1. Init => ObjectsDiscoverable
  BY DEF Init, ObjectsDiscoverable
<1>2. Inv /\ ObjectsDiscoverable /\ [Next]_vars => ObjectsDiscoverable'
  BY DiscoverableKeeps
<1> QED
  BY <1>1, <1>2, Invariant, PTL DEF Spec

(* The numbers given out are below the ledger's next one. *)
Numbered ==
  /\ \A i \in OpId : LET o == manifest.op[i] IN
       o.state # "absent" /\ IsBeta(o.ver) => o.ver[2] < manifest.next[o.ver[1]]
  /\ BetaNumbersUnique

(* Versions that stay, and a ledger that stays. *)
LEMMA SameNumbers ==
  ASSUME Numbered, manifest'.next = manifest.next,
         \A i \in OpId : /\ manifest'.op[i].ver = manifest.op[i].ver
                         /\ manifest'.op[i].state # "absent" => manifest.op[i].state # "absent"
  PROVE  Numbered'
BY DEF Numbered, BetaNumbersUnique

(* A reservation takes the next number and moves the ledger past it. *)
LEMMA PostedNumbers ==
  ASSUME Inv, Inv', Numbered, NEW c \in Manifest, Posted(c) PROVE Numbered'
<1>1. /\ manifest' = Stamp(manifest, c) /\ manifest \in Manifest /\ manifest' \in Manifest
      /\ OpMoves(manifest, c) /\ LedgerFused(manifest, c)
      /\ \A i, j \in Reserved(manifest, c) : i = j
  BY DEF Posted, AddsNone, Post, Accepts, LegalDiff, Inv, TypeOK
<1>2. manifest'.op = c.op /\ manifest'.next = c.next
  BY <1>1, StampFields
<1>3. \A b \in Base : c.next[b] \in Nat /\ manifest.next[b] \in Nat
                      /\ c.next[b] >= manifest.next[b]
  <2>1. \A b \in Base : c.next[b] \in Nat /\ manifest.next[b] \in Nat
    BY <1>1, MaxBetaAssumption DEF Manifest
  <2>2. \A b \in Base : c.next[b] # manifest.next[b] => c.next[b] = manifest.next[b] + 1
    BY <1>1 DEF LedgerFused
  <2> QED
    BY <2>1, <2>2
<1>4. ASSUME NEW i \in OpId, c.op[i].state # "absent"
      PROVE  c.op[i].ver[1] \in Base /\ c.op[i].ver[2] \in Nat /\ c.op[i].ver \in Ver
  <2>1. c.op[i].ver \in Ver
    BY <1>2, <1>4 DEF Inv, Valid, OpsValid
  <2> QED
    BY <2>1, MaxBetaAssumption DEF Ver
<1>5. ASSUME NEW i \in OpId, manifest.op[i].state # "absent"
      PROVE  c.op[i].state # "absent" /\ c.op[i].ver = manifest.op[i].ver
  BY <1>1, <1>5 DEF OpMoves, StateMoves
<1>6. ASSUME NEW i \in OpId, manifest.op[i].state # "absent", IsBeta(c.op[i].ver)
      PROVE  c.op[i].ver[2] < manifest.next[c.op[i].ver[1]]
  BY <1>5, <1>6 DEF Numbered
<1>7. ASSUME NEW i \in OpId, manifest.op[i].state = "absent", c.op[i].state # "absent",
             IsBeta(c.op[i].ver)
      PROVE  /\ i \in Reserved(manifest, c)
             /\ c.op[i].ver[2] = manifest.next[c.op[i].ver[1]]
             /\ c.next[c.op[i].ver[1]] = manifest.next[c.op[i].ver[1]] + 1
  BY <1>1, <1>7 DEF LedgerFused, Reserved
<1>8. ASSUME NEW i \in OpId, c.op[i].state # "absent", IsBeta(c.op[i].ver)
      PROVE  c.op[i].ver[2] < c.next[c.op[i].ver[1]]
  <2>1. CASE manifest.op[i].state # "absent"
    BY <1>3, <1>4, <1>6, <1>8, <2>1
  <2>2. CASE manifest.op[i].state = "absent"
    BY <1>3, <1>4, <1>7, <1>8, <2>2
  <2> QED
    BY <2>1, <2>2
<1>9. ASSUME NEW i \in OpId, NEW j \in OpId, c.op[i].state # "absent",
             c.op[i].ver = c.op[j].ver, IsBeta(c.op[i].ver)
      PROVE  i = j
  <2>1. c.op[j].state # "absent"
    <3>1. c.op[j].state = "absent" => c.op[j].ver = None
      BY <1>2 DEF Inv, AbsentOps, NoOp
    <3> QED
      BY <1>4, <1>9, <3>1, NoneNoVer
  <2>2. CASE manifest.op[i].state # "absent" /\ manifest.op[j].state # "absent"
    BY <1>5, <1>9, <2>2 DEF Numbered, BetaNumbersUnique
  <2>3. CASE manifest.op[i].state = "absent" /\ manifest.op[j].state = "absent"
    BY <1>1, <1>7, <1>9, <2>1, <2>3
  <2>4. CASE manifest.op[i].state = "absent" /\ manifest.op[j].state # "absent"
    <3>1. /\ c.op[i].ver[2] = manifest.next[c.op[i].ver[1]]
          /\ c.op[i].ver[2] < manifest.next[c.op[i].ver[1]]
      BY <1>6, <1>7, <1>9, <2>4
    <3> QED
      BY <1>3, <1>4, <1>9, <3>1
  <2>5. CASE manifest.op[i].state # "absent" /\ manifest.op[j].state = "absent"
    <3>1. /\ c.op[i].ver[2] = manifest.next[c.op[i].ver[1]]
          /\ c.op[i].ver[2] < manifest.next[c.op[i].ver[1]]
      BY <1>6, <1>7, <1>9, <2>1, <2>5
    <3> QED
      BY <1>3, <1>4, <1>9, <3>1
  <2> QED
    BY <2>2, <2>3, <2>4, <2>5
<1> QED
  BY <1>2, <1>8, <1>9 DEF Numbered, BetaNumbersUnique

(* Every step keeps the numbers apart. *)
LEMMA NextNumbers == ASSUME Inv, Inv', Numbered, [Next]_vars PROVE Numbered'
<1>1. CASE UNCHANGED manifest
  BY <1>1, SameNumbers
<1>2. ASSUME NEW r \in Run, CommitLands(r) PROVE Numbered'
  <2> DEFINE c == Committed(r)
             o == OpRec(r)
  <2>1. /\ o.state = "prepared" /\ built[r] \in Sha
        /\ manifest' = Stamp(manifest, c) /\ manifest \in Manifest /\ OpsValid(manifest)
    BY <1>2 DEF Inv, TypeOK, Valid, FreshKnown, CommitLands
  <2>2. /\ c \in Manifest /\ o \in Op /\ OpOf[r] \in OpId /\ c.next = manifest.next
        /\ c.op = [manifest.op EXCEPT ![OpOf[r]] = [o EXCEPT !.state = "committed"]]
    BY <2>1, CommittedFields
  <2> HIDE DEF c
  <2>3. manifest'.op = c.op /\ manifest'.next = manifest.next
    BY <2>1, <2>2, StampFields
  <2>4. [o EXCEPT !.state = "committed"].ver = o.ver
    BY <2>2 DEF Op
  <2>5. \A i \in OpId : manifest'.op[i] =
          IF i = OpOf[r] THEN [o EXCEPT !.state = "committed"] ELSE manifest.op[i]
    BY <2>1, <2>2, <2>3 DEF Manifest
  <2>6. \A i \in OpId : /\ manifest'.op[i].ver = manifest.op[i].ver
                        /\ manifest'.op[i].state # "absent" => manifest.op[i].state # "absent"
    BY <2>1, <2>4, <2>5 DEF OpRec
  <2> QED
    BY <2>3, <2>6, SameNumbers
<1>3. ASSUME NEW v \in Ver, TimePasses(v) PROVE Numbered'
  <2>1. manifest'.op = manifest.op /\ manifest'.next = manifest.next
    BY <1>3 DEF TimePasses, WindowPasses, Inv, TypeOK, Manifest
  <2> QED
    BY <2>1, SameNumbers
<1>4. CASE Change /\ Tenure
  BY <1>1, <1>2, <1>4, PostedNumbers, ChangeWrites DEF Writes
<1>5. ASSUME NEW r \in Run, Uploading(r) PROVE UNCHANGED manifest
  BY <1>5 DEF Uploading, PutStep, PutClaim, PutStore, PutCheck, PutRemove, PutDies
<1>6. UNCHANGED vars => UNCHANGED manifest
  BY DEF vars, endpointVars
<1> QED
  BY <1>1, <1>3, <1>4, <1>5, <1>6 DEF Next

(* A beta number is given to one release id, however many runs race for    *)
(* it: the reservation and the ledger are written as one.                  *)
THEOREM BetaNumbersApart == Spec => []BetaNumbersUnique
<1>1. Init => Numbered
  BY DEF Init, Numbered, BetaNumbersUnique, Empty, NoOp
<1>2. Inv /\ Inv' /\ Numbered /\ [Next]_vars => Numbered'
  BY NextNumbers
<1>3. Numbered => BetaNumbersUnique
  BY DEF Numbered
<1> QED
  BY <1>1, <1>2, <1>3, Invariant, PTL DEF Spec
=============================================================================
