--------------------------- MODULE ReleaseScripts ---------------------------
(***************************************************************************)
(* The scripts that drive the payload endpoint (scripts/release):          *)
(* payload-release publishes a beta, payload-promote prepare builds the    *)
(* clean version of a beta, and the commit of a prepared candidate, which  *)
(* the publish broker runs, makes it the customers' latest.  A run may     *)
(* stop between any two steps and another run with the same release id may *)
(* already be under way.                                                   *)
(***************************************************************************)
EXTENDS PayloadEndpoint

CONSTANTS
  KindOf,     \* "beta", "prepare" or "commit"
  CommitOf,   \* the commit a beta run has checked out
  BaseAt,     \* doc/VERSION at a commit
  Scheduled,  \* beta runs started by the timer: they skip a published commit
  Steady      \* runs that are not interrupted

ASSUME ScriptAssumption ==
  /\ KindOf \in [Run -> {"beta", "prepare", "commit"}]
  /\ CommitOf \in [Run -> Commit] /\ BaseAt \in [Commit -> Base]
  /\ Scheduled \subseteq Run /\ Steady \subseteq Run

VARIABLE pc   \* what each run does next

scriptVars == <<pc, built>>

ScriptState ==
  {"idle", "reserve", "build", "register", "upload", "sending", "readback",
   "prepare", "commit", "committing", "done", "failed"}

At(r, from) == pc[r] = from
Goes(r, to) == pc' = [pc EXCEPT ![r] = to]
Keeps == UNCHANGED <<endpointVars, built>>

SetOp(i, o) == [manifest EXCEPT !.op[i] = o]

(* casUpdate: what the endpoint refuses ends the run. *)
Update(r, cap, candidate, to) ==
  /\ IF Accepts(cap, manifest, candidate)
       THEN Post(cap, candidate) /\ Goes(r, to)
       ELSE Goes(r, "failed") /\ UNCHANGED <<manifest, fresh>>
  /\ UNCHANGED <<objects, put, built>>

-----------------------------------------------------------------------------

(* A scheduled run has nothing to do if its commit is published. *)
Start(r) ==
  /\ At(r, "idle") /\ KindOf[r] # "commit"
  /\ Goes(r, IF /\ r \in Scheduled
                /\ \E i \in OpId : LET o == manifest.op[i] IN
                     o.state = "committed" /\ IsBeta(o.ver) /\ o.commit = CommitOf[r]
             THEN "done" ELSE "reserve")
  /\ Keeps

(* A bug: a release id that is already reserved is taken for a conflict. *)
ReserveBetaOnce(r) ==
  LET b == BaseAt[CommitOf[r]]
      n == manifest.next[b]
      new == [NoOp EXCEPT !.state = "reserved", !.ver = <<b, n>>] IN
  /\ At(r, "reserve") /\ KindOf[r] = "beta"
  /\ IF OpRec(r).state = "absent"
       THEN /\ n <= MaxBeta
            /\ Update(r, "beta-publish",
                 [SetOp(OpOf[r], new) EXCEPT !.next[b] = n + 1], "build")
       ELSE Goes(r, "failed") /\ Keeps

(* The release id keeps the version it was given; a new one takes the next *)
(* beta of the base, reservation and ledger in one write.                  *)
ReserveBeta(r) ==
  LET b == BaseAt[CommitOf[r]]
      n == manifest.next[b]
      new == [NoOp EXCEPT !.state = "reserved", !.ver = <<b, n>>] IN
  /\ At(r, "reserve") /\ KindOf[r] = "beta"
  /\ IF OpRec(r).state = "absent"
       THEN /\ n <= MaxBeta
            /\ Update(r, "beta-publish",
                 [SetOp(OpOf[r], new) EXCEPT !.next[b] = n + 1], "build")
       ELSE /\ Goes(r, IF /\ IsBeta(OpRec(r).ver) /\ OpRec(r).ver[1] = b
                          /\ OpRec(r).state # "abandoned" THEN "build" ELSE "failed")
            /\ Keeps

(* A candidate for the clean version of a beta that was published. *)
ReserveCandidate(r) ==
  /\ At(r, "reserve") /\ KindOf[r] = "prepare"
  /\ \E v \in Ver :
       LET new == [NoOp EXCEPT !.state = "reserved", !.ver = Clean(v), !.beta = v,
                               !.commit = manifest.entry[v].commit] IN
       /\ IsBeta(v) /\ Present(manifest, v)
       /\ IF OpRec(r).state = "absent"
            THEN Update(r, "beta-publish", SetOp(OpOf[r], new), "build")
            ELSE Goes(r, IF OpRec(r).beta = v THEN "build" ELSE "failed") /\ Keeps

(* The build may come out as any payload; the clean build of a candidate   *)
(* has to agree with the beta in distribution, which is downloaded.        *)
Build(r) ==
  LET beta == OpRec(r).beta IN
  /\ At(r, "build")
  /\ \/ OpRec(r).state = "committed" /\ Goes(r, "done") /\ UNCHANGED built
     \/ /\ OpRec(r).state # "committed"
        /\ KindOf[r] = "prepare" => <<beta, manifest.entry[beta].sha>> \in objects
        /\ \E s \in Sha : built' = [built EXCEPT ![r] = s]
        /\ Goes(r, "register")
  /\ UNCHANGED endpointVars

(* The tuple is registered before the first byte is uploaded. *)
Register(r) ==
  LET o == OpRec(r)
      commit == IF KindOf[r] = "beta" THEN CommitOf[r] ELSE o.commit IN
  /\ At(r, "register")
  /\ IF o.state = "committed" THEN Goes(r, "upload") /\ Keeps
     ELSE IF o.sha # None
       THEN /\ Goes(r, IF o.sha = built[r] /\ o.commit = commit THEN "upload" ELSE "failed")
            /\ Keeps
       ELSE Update(r, "beta-publish",
              SetOp(OpOf[r], [o EXCEPT !.commit = commit, !.sha = built[r]]), "upload")

(* A bug: the state of the op is taken for what the run does next. *)
AfterPreparedState(r) == IF KindOf[r] = "beta" THEN "committed" ELSE "done"

AfterPrepared(r) == IF KindOf[r] = "beta" THEN "commit" ELSE "done"

Upload(r) ==
  /\ At(r, "upload")
  /\ IF OpRec(r).state = "reserved"
       THEN Goes(r, "sending") /\ PutMoves(r, "none", "asked")
       ELSE Goes(r, AfterPrepared(r)) /\ UNCHANGED put
  /\ UNCHANGED <<manifest, objects, fresh, built>>

(* 200 and 409 are taken alike: the readback decides. *)
Uploaded(r) == At(r, "sending") /\ put[r] = "answered" /\ Goes(r, "readback") /\ Keeps

Readback(r) ==
  /\ At(r, "readback")
  /\ Goes(r, IF KeyOf(r) \notin objects THEN "failed"
             ELSE IF KindOf[r] = "commit" THEN "commit" ELSE "prepare")
  /\ Keeps

ToPrepared(r) ==
  /\ At(r, "prepare")
  /\ IF OpRec(r).state # "reserved" THEN Goes(r, AfterPrepared(r)) /\ Keeps
     ELSE Update(r, "beta-publish",
            SetOp(OpOf[r], [OpRec(r) EXCEPT !.state = "prepared"]), AfterPrepared(r))

-----------------------------------------------------------------------------

(* The commit of a candidate: the payload the founder approved must be the *)
(* one the candidate registered.                                           *)
StartCommit(r) ==
  /\ At(r, "idle") /\ KindOf[r] = "commit" /\ OpRec(r).state # "absent"
  /\ \E s \in Sha :
       /\ built' = [built EXCEPT ![r] = s]
       /\ Goes(r, IF OpRec(r).sha # s \/ IsBeta(OpRec(r).ver) THEN "failed"
                  ELSE IF OpRec(r).state = "committed" THEN "done"
                  ELSE IF OpRec(r).state = "prepared" THEN "readback" ELSE "failed")
  /\ UNCHANGED endpointVars

(* The write of entry, pointer and op in one. *)
Committed(r) ==
  LET o == OpRec(r)
      e == [NoEntry EXCEPT !.status = "active", !.op = OpOf[r], !.beta = o.beta,
              !.commit = IF KindOf[r] = "beta" THEN CommitOf[r] ELSE o.commit,
              !.sha = built[r]] IN
  [SetOp(OpOf[r], [o EXCEPT !.state = "committed"])
     EXCEPT !.entry[o.ver] = e, !.latest[ChannelOf(o.ver)] = o.ver]

Committable(r) ==
  /\ Accepts(PublisherOf(OpRec(r).ver), manifest, Committed(r))
  /\ KeyOf(r) \in objects

CommitCheck(r) ==
  LET o == OpRec(r) IN
  /\ At(r, "commit")
  /\ IF o.state = "prepared" /\ Committable(r)
       THEN fresh' = fresh \cup {r} /\ Goes(r, "committing")
       ELSE /\ Goes(r, IF o.state = "committed" /\ o.sha = built[r] THEN "done" ELSE "failed")
            /\ UNCHANGED fresh
  /\ UNCHANGED <<manifest, objects, put, built>>

(* A bug: the write is not conditional on the manifest it was checked on. *)
CommitLandsStale(r) ==
  /\ At(r, "committing") /\ Goes(r, "done")
  /\ manifest' = Stamp(manifest, Committed(r)) /\ fresh' = {}
  /\ UNCHANGED <<objects, put, built>>

CommitLands(r) ==
  /\ At(r, "committing")
  /\ r \in fresh /\ Goes(r, "done")
  /\ manifest' = Stamp(manifest, Committed(r)) /\ fresh' = {}
  /\ UNCHANGED <<objects, put, built>>

(* 412: somebody else wrote the manifest. *)
CommitMisses(r) == At(r, "committing") /\ r \notin fresh /\ Goes(r, "commit") /\ Keeps

(* A crash, a lost answer, an upload whose handler died, or a write that   *)
(* lost every retry: the run ends where it is.                             *)
GivesUp(r) ==
  /\ pc[r] \notin {"idle", "done", "failed"}
  /\ r \notin Steady
  /\ Goes(r, "failed") /\ Keeps

RunStep(r) ==
  \/ Start(r) \/ ReserveBeta(r) \/ ReserveCandidate(r) \/ Build(r) \/ Register(r)
  \/ Upload(r) \/ Uploaded(r) \/ Readback(r) \/ ToPrepared(r)
  \/ StartCommit(r) \/ CommitCheck(r) \/ CommitLands(r) \/ CommitMisses(r)
=============================================================================
