-------------------------- MODULE PayloadEndpoint --------------------------
(***************************************************************************)
(* The payload endpoint's bucket and the requests it handles across        *)
(* several bucket calls: the upload of an object, with the claim check     *)
(* before it and the check after it, and the commit of a version, whose    *)
(* object is looked up before the manifest is written.                     *)
(*                                                                         *)
(* A manifest write carries the etag of the manifest it was computed from  *)
(* and lands only on that manifest; a 412 makes the client read and judge  *)
(* again.  So a write that lands is one step on the current manifest, and  *)
(* one that adds a version is two, the second of which may miss.           *)
(***************************************************************************)
EXTENDS PayloadManifest

CONSTANTS
  Run,     \* runs of the release scripts, each with at most one upload
  OpOf     \* the release id each run works for

ASSUME RunAssumption == OpOf \in [Run -> OpId]

VARIABLES
  manifest,
  objects,   \* the payload objects of the bucket
  built,     \* the payload each run has built or was told to publish
  put,       \* the upload of each run, as far as the endpoint has handled it
  fresh      \* commits checked against the manifest that is still stored

endpointVars == <<manifest, objects, put, fresh>>

UploadState == {"none", "asked", "claimed", "stored", "removing", "answered", "dead"}

OpRec(r) == manifest.op[OpOf[r]]
KeyOf(r) == <<OpRec(r).ver, built[r]>>

(* POST /admin/manifest, for a candidate that adds no version. *)
Post(cap, candidate) ==
  /\ Accepts(cap, manifest, candidate)
  /\ manifest' = Stamp(manifest, candidate)
  /\ fresh' = {}

-----------------------------------------------------------------------------

PutMoves(r, from, to) == put[r] = from /\ put' = [put EXCEPT ![r] = to]

Claimed(k) == k \notin manifest.tombs /\ LiveClaim(manifest, k)

(* PUT /admin/payload: the manifest is read, and the key must be claimed. *)
PutClaim(r) ==
  /\ PutMoves(r, "asked", IF Claimed(KeyOf(r)) THEN "claimed" ELSE "answered")
  /\ UNCHANGED <<manifest, objects, fresh>>

(* The conditional put never replaces an object. *)
PutStore(r) ==
  /\ IF KeyOf(r) \in objects THEN PutMoves(r, "claimed", "answered") /\ UNCHANGED objects
     ELSE PutMoves(r, "claimed", "stored") /\ objects' = objects \cup {KeyOf(r)}
  /\ UNCHANGED <<manifest, fresh>>

(* The post-check: an object nobody claims any more is taken away again. *)
PutCheck(r) ==
  /\ PutMoves(r, "stored", IF Claimed(KeyOf(r)) THEN "answered" ELSE "removing")
  /\ UNCHANGED <<manifest, objects, fresh>>
PutRemove(r) ==
  /\ PutMoves(r, "removing", "answered")
  /\ objects' = objects \ {KeyOf(r)}
  /\ UNCHANGED <<manifest, fresh>>

(* The invocation of the endpoint ends before its time. *)
PutDies(r) ==
  /\ put[r] \in {"asked", "claimed", "stored", "removing"}
  /\ put' = [put EXCEPT ![r] = "dead"]
  /\ UNCHANGED <<manifest, objects, fresh>>

PutStep(r) == PutClaim(r) \/ PutStore(r) \/ PutCheck(r) \/ PutRemove(r)

(* A bug: only the objects of expired versions are deleted. *)
DeleteExpired(k) ==
  /\ k \in manifest.tombs
  /\ objects' = IF Present(manifest, k[1]) THEN objects \ {k} ELSE objects
  /\ UNCHANGED <<manifest, put, fresh>>

(* DELETE /admin/payload: only for a tombstoned key. *)
Delete(k) ==
  /\ k \in manifest.tombs
  /\ objects' = objects \ {k}
  /\ UNCHANGED <<manifest, put, fresh>>

(* The retention window of a version passes. *)
WindowPasses(v) ==
  /\ ExpiryClock(manifest.entry[v]) = "running"
  /\ manifest' =
       IF manifest.entry[v].status = "quarantined"
         THEN [manifest EXCEPT !.entry[v].quarantined = "elapsed"]
         ELSE [manifest EXCEPT !.entry[v].since = "elapsed"]
  /\ UNCHANGED <<objects, put, fresh>>
=============================================================================
