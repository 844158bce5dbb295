---------------------------- MODULE CatalogProofs ----------------------------
(***************************************************************************)
(* The release pipeline implements the catalog its customers see, for any  *)
(* release ids, runs and payloads: every step is a step of the catalog or  *)
(* changes nothing a customer sees.                                        *)
(***************************************************************************)
EXTENDS ReleaseSafetyProofs

(* What a customer sees of the manifest. *)
Sees == <<Shelf, manifest.latest, Gone>>

Stocked ==
  Shelf = [v \in Ver |-> IF manifest.entry[v].status = "active"
                           THEN manifest.entry[v].sha ELSE None]

(* With every needed payload in the bucket, or taken back, the shelf is    *)
(* what the manifest says, before a step and after it.                     *)
LEMMA ShelfStocked == ASSUME Kept, Kept' PROVE Stocked /\ Stocked'
<1>1. Stocked
  <2>1. \A v \in Ver : manifest.entry[v].status = "active" =>
          <<v, manifest.entry[v].sha>> \in objects \cup takenBack
    BY DEF Kept, Found, Needs
  <2> QED
    BY <2>1 DEF Shelf, Stocked
<1>2. Stocked'
  <2>1. \A v \in Ver : manifest'.entry[v].status = "active" =>
          <<v, manifest'.entry[v].sha>> \in (objects \cup takenBack)'
    BY DEF Kept, Found, Needs
  <2> QED
    BY <2>1 DEF Shelf, Stocked
<1> QED
  BY <1>1, <1>2

(* The payload of a version is one. *)
LEMMA ShelvedSha ==
  ASSUME Inv, NEW v \in Ver, Present(manifest, v)
  PROVE  manifest.entry[v].sha \in Sha /\ manifest.entry[v].sha # None
<1>1. PICK i \in OpId : manifest.entry[v].op = i
  BY DEF Inv, TypeOK, Valid, EntriesValid, Manifest, Entry
<1>2. manifest.op[i].state = "committed" /\ manifest.op[i].sha = manifest.entry[v].sha
  BY <1>1 DEF Inv, Valid, CommittedMatch
<1>3. manifest.op[i].sha # None
  BY <1>2 DEF Inv, Valid, OpsValid
<1>4. manifest.entry[v].sha \in Sha \cup {None}
  BY DEF Inv, TypeOK, Manifest, Entry
<1> QED
  BY <1>2, <1>3, <1>4

(* Statuses, payloads and pointers unchanged: nothing to see. *)
LEMMA NothingSeen ==
  ASSUME Kept, Kept', manifest'.latest = manifest.latest,
         \A v \in Ver : /\ manifest'.entry[v].status = manifest.entry[v].status
                        /\ Present(manifest, v) => manifest'.entry[v].sha = manifest.entry[v].sha
  PROVE  UNCHANGED Sees
<1> DEFINE S == [v \in Ver |-> IF manifest.entry[v].status = "active"
                                 THEN manifest.entry[v].sha ELSE None]
<1>1. Shelf = S /\ Shelf' = S'
  BY ShelfStocked DEF Stocked
<1>2. S' = S
  BY DEF Present
<1>3. Gone' = Gone
  BY DEF Gone
<1> QED
  BY <1>1, <1>2, <1>3 DEF Sees

(* What a write that adds no version does to those there are. *)
LEMMA PostedKeeps ==
  ASSUME Inv, NEW c \in Manifest, Posted(c)
  PROVE  /\ manifest'.latest = c.latest
         /\ EntryMoves(manifest, c) /\ WindowElapsed(manifest, c)
         /\ \A v \in Ver :
              /\ manifest'.entry[v].status = c.entry[v].status
              /\ Present(c, v) => Present(manifest, v)
              /\ Present(c, v) => manifest'.entry[v].sha = manifest.entry[v].sha
<1>1. /\ manifest' = Stamp(manifest, c) /\ EntryMoves(manifest, c) /\ WindowElapsed(manifest, c)
      /\ manifest \in Manifest
      /\ \A v \in Ver : Present(c, v) => Present(manifest, v)
  BY DEF Posted, AddsNone, Post, Accepts, LegalDiff, Inv, TypeOK
<1>2. /\ manifest'.latest = c.latest
      /\ \A v \in Ver : manifest'.entry[v].status = c.entry[v].status
      /\ \A v \in Ver : Present(c, v) => manifest'.entry[v].sha = c.entry[v].sha
  BY <1>1, StampFields
<1>3. \A v \in Ver : Present(manifest, v) => c.entry[v].sha = manifest.entry[v].sha
  BY <1>1 DEF EntryMoves
<1> QED
  BY <1>1, <1>2, <1>3

(* An expiry retires the version, or comes after its withdrawal. *)
LEMMA ExpirySeen ==
  ASSUME Inv, Kept, Kept', NEW c \in Manifest, Posted(c), NEW v \in Ver, Expires(c, v)
  PROVE  [Catalog!Next]_Sees
<1>1. /\ manifest'.latest = manifest.latest
      /\ EntryMoves(manifest, c) /\ WindowElapsed(manifest, c)
      /\ \A w \in Ver :
           /\ manifest'.entry[w].status = IF w = v THEN "expired" ELSE manifest.entry[w].status
           /\ Present(c, w) => manifest'.entry[w].sha = manifest.entry[w].sha
      /\ c.entry[v].status = "expired" /\ Present(manifest, v) /\ c.latest = manifest.latest
      /\ \A w \in Ver \ {v} : Present(c, w) <=> Present(manifest, w)
  BY PostedKeeps DEF Expires, Present
<1>2. CASE manifest.entry[v].status = "active"
  <2>1. v \in Moved(manifest, c)
    BY <1>1, <1>2 DEF Moved
  <2>2. ~Latest(manifest, v)
    BY <1>1, <2>1 DEF WindowElapsed, Latest
  <2>3. manifest.latest[ChannelOf(v)] # v
    BY <2>2 DEF Latest, Channel, ChannelOf
  <2>4. Shelf[v] # None
    BY <1>1, <1>2, ShelfStocked, ShelvedSha DEF Stocked
  <2>5. Shelf' = [Shelf EXCEPT ![v] = None]
    <3>1. \A w \in Ver : w # v /\ manifest.entry[w].status = "active" =>
            manifest'.entry[w].sha = manifest.entry[w].sha
      BY <1>1 DEF Present
    <3> QED
      BY <1>1, <3>1, ShelfStocked DEF Stocked
  <2>6. Gone' = Gone \cup {v}
    BY <1>1 DEF Gone
  <2>7. Catalog!Retire(v)
    BY <1>1, <2>3, <2>4, <2>5, <2>6 DEF Catalog!Retire, Catalog!TakeOff
  <2> QED
    BY <2>7 DEF Catalog!Next
<1>3. CASE manifest.entry[v].status # "active"
  <2>1. manifest.entry[v].status \in {"quarantined", "expired"}
    BY <1>1, <1>3 DEF Inv, TypeOK, Manifest, Entry, Present
  <2>2. Gone' = Gone
    BY <1>1, <2>1 DEF Gone
  <2>3. Shelf' = Shelf
    <3>1. \A w \in Ver : w # v /\ manifest.entry[w].status = "active" =>
            manifest'.entry[w].sha = manifest.entry[w].sha
      BY <1>1 DEF Present
    <3> QED
      BY <1>1, <1>3, <3>1, ShelfStocked DEF Stocked
  <2> QED
    BY <1>1, <2>2, <2>3 DEF Sees
<1> QED
  BY <1>2, <1>3

(* A withdrawal, or another pin for a version that was withdrawn before. *)
LEMMA WithdrawalSeen ==
  ASSUME Inv, Inv', Kept, Kept', NEW c \in Manifest, Posted(c), NEW v \in Ver, NEW f \in Ver,
         OnlyWithdraws(c, v, f), ~IsBeta(f), manifest.entry[f].status = "active"
  PROVE  [Catalog!Next]_Sees
<1>0. manifest \in Manifest /\ manifest' \in Manifest /\ Valid(manifest')
  BY DEF Inv, TypeOK
<1>1. /\ manifest'.latest = [manifest.latest EXCEPT ![ChannelOf(f)] = f]
      /\ EntryMoves(manifest, c)
      /\ \A w \in Ver :
           /\ manifest'.entry[w].status =
                IF w = v THEN "quarantined" ELSE manifest.entry[w].status
           /\ Present(c, w) => manifest'.entry[w].sha = manifest.entry[w].sha
      /\ c.entry[v].status = "quarantined" /\ Present(manifest, v)
      /\ \A w \in Ver \ {v} : Present(c, w) <=> Present(manifest, w)
  BY PostedKeeps DEF OnlyWithdraws, Present, ChannelOf
<1>2. manifest.entry[v].status \in {"active", "quarantined"}
  <2>1. manifest.entry[v].status # "quarantined" =>
          <<manifest.entry[v].status, "quarantined">> \in StatusMoves
    BY <1>1 DEF EntryMoves
  <2> QED
    BY <2>1 DEF StatusMoves
<1>3. \A ch \in Channel : manifest'.latest[ch] # v
  <2>1. ~Latest(manifest', v)
    BY <1>0, <1>1, LatestUnaged
  <2> QED
    BY <2>1 DEF Latest
<1>4. f # v /\ Shelf[f] # None /\ ChannelOf(f) \in Channel
  <2>1. manifest'.latest[ChannelOf(f)] = f /\ ChannelOf(f) \in Channel
    BY <1>0, <1>1 DEF ChannelOf, Channel, Manifest
  <2>2. Present(manifest, f)
    BY DEF Present
  <2> QED
    BY <1>3, <2>1, <2>2, ShelfStocked, ShelvedSha DEF Stocked
<1>5. \A w \in Ver : w # v /\ manifest.entry[w].status = "active" =>
        manifest'.entry[w].sha = manifest.entry[w].sha
  BY <1>1 DEF Present
<1>6. CASE manifest.entry[v].status = "active"
  <2>1. Shelf[v] # None /\ Shelf' = [Shelf EXCEPT ![v] = None]
    BY <1>1, <1>5, <1>6, ShelfStocked, ShelvedSha DEF Stocked
  <2>2. Gone' = Gone \cup {v}
    BY <1>1 DEF Gone
  <2>3. manifest'.latest[ChannelOf(v)] # v
    BY <1>3 DEF ChannelOf, Channel
  <2>4. Catalog!Withdraw(v, f)
    BY <1>1, <1>4, <2>1, <2>2, <2>3 DEF Catalog!Withdraw, Catalog!TakeOff, Catalog!Repin
  <2> QED
    BY <2>4 DEF Catalog!Next
<1>7. CASE manifest.entry[v].status = "quarantined"
  <2>1. Shelf' = Shelf
    BY <1>1, <1>5, <1>7, ShelfStocked DEF Stocked
  <2>2. Gone' = Gone
    BY <1>1, <1>7 DEF Gone
  <2>3. Catalog!Repin(f) /\ UNCHANGED <<Shelf, Gone>>
    BY <1>1, <1>4, <2>1, <2>2 DEF Catalog!Repin
  <2> QED
    BY <2>3 DEF Catalog!Next
<1> QED
  BY <1>2, <1>6, <1>7

(* The landing of a commit publishes its version. *)
LEMMA CommitSeen ==
  ASSUME Inv, Kept, Kept', NEW r \in Run, CommitLands(r) PROVE Catalog!Next
<1> DEFINE c == Committed(r)
           u == OpRec(r).ver
           sha == built[r]
<1>1. /\ c \in Manifest /\ manifest' = Stamp(manifest, c) /\ manifest \in Manifest
      /\ u \in Ver /\ ~Present(manifest, u) /\ sha \in Sha
      /\ c.latest = [manifest.latest EXCEPT ![ChannelOf(u)] = u]
      /\ \A v \in Ver \ {u} : c.entry[v] = manifest.entry[v]
      /\ c.entry[u].status = "active" /\ c.entry[u].sha = sha
  BY CommitMoves DEF Inv, TypeOK
<1> HIDE DEF c, u, sha
<1>2. /\ manifest'.latest = c.latest
      /\ \A v \in Ver : manifest'.entry[v].status = c.entry[v].status
      /\ \A v \in Ver : Present(c, v) => manifest'.entry[v].sha = c.entry[v].sha
  BY <1>1, StampFields
<1>3. \A v \in Ver \ {u} :
        /\ manifest'.entry[v].status = manifest.entry[v].status
        /\ manifest.entry[v].status = "active" =>
             manifest'.entry[v].sha = manifest.entry[v].sha
  BY <1>1, <1>2 DEF Present
<1>4. manifest'.entry[u].status = "active" /\ manifest'.entry[u].sha = sha
      /\ manifest.entry[u].status = "absent"
  BY <1>1, <1>2 DEF Present
<1>5. Shelf[u] = None /\ Shelf' = [Shelf EXCEPT ![u] = sha]
  BY <1>1, <1>3, <1>4, ShelfStocked DEF Stocked
<1>6. u \notin Gone /\ Gone' = Gone
  BY <1>1, <1>3, <1>4 DEF Gone
<1>7. Catalog!Publish(u, sha)
  BY <1>1, <1>2, <1>5, <1>6 DEF Catalog!Publish
<1> QED
  BY <1>1, <1>7 DEF Catalog!Next

(* Every step is a step of the catalog or shows nothing. *)
LEMMA NextSeen ==
  ASSUME Inv, Inv', Kept, Kept', [Next]_vars PROVE [Catalog!Next]_Sees
<1>1. CASE UNCHANGED manifest
  BY <1>1, NothingSeen
<1>2. ASSUME NEW v \in Ver, TimePasses(v) PROVE UNCHANGED Sees
  <2>1. SameButClocks(manifest, manifest')
    BY <1>2, WindowAlike DEF TimePasses, Inv, TypeOK
  <2> QED
    BY <2>1, NothingSeen DEF SameButClocks
<1>3. ASSUME NEW c \in Manifest, Posted(c) PROVE [Catalog!Next]_Sees
  <2>1. CASE StatusKept(c)
    <3>1. /\ manifest'.latest = manifest.latest
          /\ \A v \in Ver : /\ manifest'.entry[v].status = manifest.entry[v].status
                            /\ Present(manifest, v) =>
                                 manifest'.entry[v].sha = manifest.entry[v].sha
      BY <1>3, <2>1, PostedKeeps DEF StatusKept, Present
    <3> QED
      BY <3>1, NothingSeen
  <2> QED
    BY <1>3, <2>1, ExpirySeen, WithdrawalSeen DEF Posted
<1>4. CASE Change /\ Tenure
  BY <1>1, <1>3, <1>4, ChangeWrites, CommitSeen DEF Writes
<1>5. ASSUME NEW r \in Run, Uploading(r) PROVE UNCHANGED manifest
  BY <1>5 DEF Uploading, PutStep, PutClaim, PutStore, PutCheck, PutRemove, PutDies
<1>6. UNCHANGED vars => UNCHANGED manifest
  BY DEF vars, endpointVars
<1> QED
  BY <1>1, <1>2, <1>4, <1>5, <1>6 DEF Next

(* What customers see is the catalog: the latest of a channel can be       *)
(* downloaded, with the payload it was published with (but for an object   *)
(* that the post-check of a settled release id took away), and a version   *)
(* leaves the shelf by a withdrawal or an expiry only, and for good.       *)
THEOREM CatalogImplemented == Spec => ImplementsCatalog
<1>1. Init => Catalog!Init
  <2> SUFFICES ASSUME Init PROVE Catalog!Init
    OBVIOUS
  <2>1. /\ manifest.latest = [ch \in Channel |-> None]
        /\ \A v \in Ver : manifest.entry[v].status = "absent"
    BY DEF Init, Empty, NoEntry
  <2>2. Shelf = [v \in Ver |-> None] /\ Gone = {}
    BY <2>1 DEF Shelf, Gone
  <2> QED
    BY <2>1, <2>2 DEF Catalog!Init
<1>2. Inv /\ Inv' /\ Kept /\ Kept' /\ [Next]_vars => [Catalog!Next]_Sees
  BY NextSeen
<1>3. Spec => []Kept
  BY PayloadsNeeded
<1> QED
  BY <1>1, <1>2, <1>3, Invariant, PTL DEF Spec, ImplementsCatalog, Catalog!Spec, Sees
=============================================================================
