-------------------------- MODULE ReleasePipeline --------------------------
(***************************************************************************)
(* The distribution of payloads end to end: the release scripts, the       *)
(* founder who withdraws a release, the operator who abandons a release id *)
(* and runs payload-cleanup, and the endpoint all of them write through.   *)
(***************************************************************************)
EXTENDS ReleaseScripts

CONSTANTS
  Rejected,       \* the release ids the operator may abandon
  MaxWithdraws    \* bound on withdrawals

ASSUME OperatorAssumption == Rejected \subseteq OpId /\ MaxWithdraws \in Nat

VARIABLES
  phase,      \* what the cleanup is at: idle, expire, tombstone or delete
  expiring,   \* versions it has still to expire
  doomed,     \* keys it has still to tombstone
  sweep,      \* tombstoned keys it has still to delete
  troubled,   \* it has recorded a failure: it will exit with 2
  withdraws,
  rested,     \* history: versions off every pointer for a whole window
  takenBack   \* history: keys whose object the post-check of an upload took
              \* away after the release id it was for had been settled

cleanupVars == <<phase, expiring, doomed, sweep, troubled>>
vars == <<endpointVars, scriptVars, cleanupVars, withdraws, rested, takenBack>>

Init ==
  /\ manifest = Empty
  /\ objects = {} /\ fresh = {}
  /\ put = [r \in Run |-> "none"]
  /\ pc = [r \in Run |-> "idle"]
  /\ built = [r \in Run |-> None]
  /\ phase = "idle" /\ expiring = {} /\ doomed = {} /\ sweep = {}
  /\ troubled = FALSE
  /\ withdraws = 0 /\ rested = {} /\ takenBack = {}

(* Quarantine and the pointer to a known good release in one write. *)
Withdraw(v, fallback) ==
  LET m == [manifest EXCEPT !.entry[v].status = "quarantined",
                            !.latest["release"] = fallback] IN
  /\ withdraws < MaxWithdraws /\ withdraws' = withdraws + 1
  /\ Present(manifest, v) /\ manifest.entry[fallback].status = "active"
  /\ ~IsBeta(fallback)
  /\ Post("customer-release", m)
  /\ UNCHANGED <<objects, put, scriptVars, cleanupVars>>

(* The runbook's way out of a rejected candidate or a stranded upload. *)
Abandon(i) ==
  /\ i \in Rejected /\ Live(manifest.op[i])
  /\ Post("ops-admin", SetOp(i, [manifest.op[i] EXCEPT !.state = "abandoned"]))
  /\ UNCHANGED <<objects, put, scriptVars, cleanupVars, withdraws>>

-----------------------------------------------------------------------------
(* payload-cleanup --apply: expire, then tombstone, then delete.  Each     *)
(* phase starts from a list read at its beginning and judges every item on *)
(* the manifest it writes to.  What the endpoint refuses, or fails to do,  *)
(* is recorded and the phase goes on with the next item.                   *)

ExpireCandidates ==
  {v \in Ver : /\ manifest.entry[v].status \in {"active", "quarantined"}
               /\ ~Latest(manifest, v) /\ ExpiryClock(manifest.entry[v]) = "elapsed"}

TombstoneCandidates ==
  LET entryKeys(S) == {<<v, manifest.entry[v].sha>> : v \in {w \in Ver : manifest.entry[w].status \in S}}
      opKeys(S) == {<<manifest.op[i].ver, manifest.op[i].sha>> :
                      i \in {j \in OpId : manifest.op[j].state \in S /\ manifest.op[j].sha # None}}
  IN  (entryKeys({"expired"}) \cup opKeys({"abandoned"}))
        \ (entryKeys({"active", "quarantined"}) \cup opKeys({"reserved", "prepared"}) \cup manifest.tombs)

StartCleanup ==
  /\ phase = "idle" /\ phase' = "expire" /\ expiring' = ExpireCandidates
  /\ troubled' = FALSE
  /\ UNCHANGED <<endpointVars, doomed, sweep>>

(* casPost: one write by the operator, or a failure on record. *)
CasPost(m) ==
  \/ Post("ops-admin", m) /\ UNCHANGED troubled
  \/ UNCHANGED <<manifest, fresh>> /\ troubled' = TRUE

ExpireOne(v) ==
  LET m == [manifest EXCEPT !.entry[v].status = "expired"] IN
  /\ phase = "expire" /\ v \in expiring /\ expiring' = expiring \ {v}
  /\ IF manifest.entry[v].status # "expired" THEN CasPost(m)
     ELSE UNCHANGED <<manifest, fresh, troubled>>
  /\ UNCHANGED <<objects, put, phase, doomed, sweep>>

StartTombstones ==
  /\ phase = "expire" /\ expiring = {}
  /\ phase' = "tombstone" /\ doomed' = TombstoneCandidates
  /\ UNCHANGED <<endpointVars, expiring, sweep, troubled>>

(* A key somebody has claimed again in between is left out. *)
TombstoneOne(k) ==
  LET m == [manifest EXCEPT !.tombs = @ \cup {k}] IN
  /\ phase = "tombstone" /\ k \in doomed /\ doomed' = doomed \ {k}
  /\ IF k \in TombstoneCandidates THEN CasPost(m)
     ELSE UNCHANGED <<manifest, fresh, troubled>>
  /\ UNCHANGED <<objects, put, phase, expiring, sweep>>

(* Every run replays the whole tombstone set. *)
StartSweep ==
  /\ phase = "tombstone" /\ doomed = {}
  /\ phase' = "delete" /\ sweep' = manifest.tombs
  /\ UNCHANGED <<endpointVars, expiring, doomed, troubled>>

DeleteOne(k) ==
  /\ phase = "delete" /\ k \in sweep /\ sweep' = sweep \ {k}
  /\ Delete(k)
  /\ UNCHANGED <<phase, expiring, doomed, troubled>>

(* An answer other than 200, whether or not the object is gone: it goes on *)
(* record, the sweep goes on.                                              *)
DeleteFails(k) ==
  /\ phase = "delete" /\ k \in sweep /\ sweep' = sweep \ {k}
  /\ troubled' = TRUE
  /\ Delete(k) \/ UNCHANGED endpointVars
  /\ UNCHANGED <<phase, expiring, doomed>>

EndCleanup ==
  /\ phase = "delete" /\ sweep = {} /\ phase' = "idle" /\ troubled' = FALSE
  /\ UNCHANGED <<endpointVars, expiring, doomed, sweep>>

CleanupDies ==
  /\ phase # "idle" /\ phase' = "idle" /\ expiring' = {} /\ doomed' = {} /\ sweep' = {}
  /\ troubled' = FALSE
  /\ UNCHANGED endpointVars

CleanupStep ==
  \/ StartTombstones \/ StartSweep \/ EndCleanup
  \/ \E v \in expiring : ExpireOne(v)
  \/ \E k \in doomed : TombstoneOne(k)
  \/ \E k \in sweep : DeleteOne(k) \/ DeleteFails(k)

-----------------------------------------------------------------------------

Tenure ==
  /\ UNCHANGED takenBack
  /\ rested' = {v \in rested : /\ ~Latest(manifest', v)
                               /\ manifest'.entry[v].status = "quarantined"
                                    => manifest.entry[v].status = "quarantined"}

Change ==
  \/ \E r \in Run : RunStep(r) /\ UNCHANGED <<cleanupVars, withdraws>>
  \/ \E r \in Run : GivesUp(r) /\ UNCHANGED <<cleanupVars, withdraws>>
  \/ \E v, f \in Ver : Withdraw(v, f)
  \/ \E i \in OpId : Abandon(i)
  \/ (StartCleanup \/ CleanupStep \/ CleanupDies) /\ UNCHANGED <<scriptVars, withdraws>>

Uploading(r) ==
  /\ \/ PutStep(r)
     \/ r \notin Steady /\ PutDies(r)
  /\ takenBack' = (takenBack \cup IF Live(OpRec(r)) THEN {} ELSE objects) \ objects'
  /\ UNCHANGED <<scriptVars, cleanupVars, withdraws, rested>>

TimePasses(v) ==
  /\ WindowPasses(v)
  /\ rested' = IF Latest(manifest, v) THEN rested ELSE rested \cup {v}
  /\ UNCHANGED <<scriptVars, cleanupVars, withdraws, takenBack>>

Next ==
  \/ Change /\ Tenure
  \/ \E r \in Run : Uploading(r)
  \/ \E v \in Ver : TimePasses(v)

Spec == Init /\ [][Next]_vars

(* Runs that are not interrupted go on, an upload is handled to its end,   *)
(* and a cleanup that has begun is seen through.  Nobody has to start a    *)
(* run, to commit, abandon or withdraw a release, or to run the cleanup.   *)
Fairness ==
  /\ \A r \in Steady : WF_vars(~At(r, "idle") /\ RunStep(r)
                                /\ UNCHANGED <<cleanupVars, withdraws>> /\ Tenure)
  /\ \A r \in Run : WF_vars(Uploading(r))
  /\ WF_vars(CleanupStep /\ UNCHANGED <<scriptVars, withdraws>> /\ Tenure)

FairSpec == Spec /\ Fairness

-----------------------------------------------------------------------------

TypeOK ==
  /\ manifest \in Manifest
  /\ objects \subseteq Key
  /\ built \in [Run -> Sha \cup {None}]
  /\ put \in [Run -> UploadState]
  /\ fresh \subseteq Run
  /\ pc \in [Run -> ScriptState]
  /\ phase \in {"idle", "expire", "tombstone", "delete"}
  /\ expiring \subseteq Ver /\ doomed \subseteq Key /\ sweep \subseteq Key
  /\ troubled \in BOOLEAN
  /\ withdraws \in 0 .. MaxWithdraws
  /\ rested \subseteq Ver /\ takenBack \subseteq Key

(* "Dangling pointers are structurally impossible in this order"           *)
(* (payload-cleanup.mjs): as long as a version has not expired its payload *)
(* is in the bucket.  It need not be: the post-check of an upload whose    *)
(* release id has been committed meanwhile takes the object away.          *)
VersionsHavePayloads ==
  \A v \in Ver : manifest.entry[v].status \in {"active", "quarantined"} =>
    <<v, manifest.entry[v].sha>> \in objects

(* That post-check is the only way to lose the payload of a version:       *)
(* abandoned claims, commits that race them, lost and repeated uploads,    *)
(* tombstones and sweeps never do, in any order.                           *)
VersionsLoseOnlyToPostCheck ==
  \A v \in Ver : manifest.entry[v].status \in {"active", "quarantined"} =>
    <<v, manifest.entry[v].sha>> \in objects \cup takenBack

(* The same of a candidate the founder is asked to approve: what an        *)
(* earlier run or another release id uploaded, abandoned or had swept, its *)
(* payload is there, but for a post-check that found the key unclaimed     *)
(* before this candidate claimed it.                                       *)
CandidatesLoseOnlyToPostCheck ==
  \A i \in OpId : LET o == manifest.op[i] IN
    o.state = "prepared" => <<o.ver, o.sha>> \in objects \cup takenBack

(* Every object in the bucket is named by some release op, so that a       *)
(* stranded upload can be abandoned, tombstoned and deleted.               *)
ObjectsDiscoverable ==
  \A k \in objects : \E i \in OpId :
    manifest.op[i].ver = k[1] /\ manifest.op[i].sha = k[2]

(* A beta number is given to one release id, however runs race for it. *)
BetaNumbersUnique ==
  \A i, j \in OpId : LET a == manifest.op[i] b == manifest.op[j] IN
    a.state # "absent" /\ a.ver = b.ver /\ IsBeta(a.ver) => i = j

(* A version expires only after it has been off every pointer, and in      *)
(* quarantine if it is quarantined, for a whole window: pinning it again   *)
(* as a fallback starts the window anew.                                   *)
ExpiresAfterTenure ==
  [][\A v \in Ver : manifest'.entry[v].status = "expired"
                      /\ manifest.entry[v].status # "expired" => v \in rested]_vars

(* A build that differs from the one its release id has registered. *)
Mismatch(r) == built[r] # None /\ OpRec(r).sha \notin {None, built[r]}

(* A run of a release id that is not interrupted ends with its release     *)
(* committed, wherever an earlier run of it stopped, unless the operator   *)
(* abandons the id or the run has built another payload than the one that  *)
(* is registered, which it refuses to overwrite.                           *)
RerunCompletes ==
  \A r \in Steady :
    (pc[r] = "reserve") ~> \/ OpRec(r).state \in {"committed", "abandoned"}
                           \/ pc[r] = "failed" /\ Mismatch(r)

(* If the cleanup exits with 0 again and again, what is tombstoned is gone *)
(* for good in the end: a delete that failed in an earlier run and an      *)
(* upload that landed after its delete are caught by a later sweep.        *)
TombstonesConverge ==
  []<>(phase = "delete" /\ sweep = {} /\ ~troubled)
    => <>[](objects \cap manifest.tombs = {})

-----------------------------------------------------------------------------
(* The customers' view: an active version whose payload is in the bucket,  *)
(* or was taken away by the post-check of an upload.                       *)

Shelf ==
  [v \in Ver |-> LET e == manifest.entry[v] IN
     IF e.status = "active" /\ <<v, e.sha>> \in objects \cup takenBack THEN e.sha ELSE None]
Gone == {v \in Ver : manifest.entry[v].status \in {"quarantined", "expired"}}

Catalog == INSTANCE PayloadCatalog
             WITH shelf <- Shelf, latest <- manifest.latest, gone <- Gone

(* The pipeline is a catalog: what a channel calls its latest can be       *)
(* downloaded, with the payload it was published with (but for an object   *)
(* its own late post-check took away), and a version leaves the shelf only *)
(* by a withdrawal or an expiry.                                           *)
ImplementsCatalog == Catalog!Spec
=============================================================================
