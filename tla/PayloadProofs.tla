---------------------------- MODULE PayloadProofs ----------------------------
(***************************************************************************)
(* What the endpoint's judgement of a manifest write is worth: facts about *)
(* the timestamps it sets, the transition classifier and the validator,    *)
(* for any manifests.                                                      *)
(***************************************************************************)
EXTENDS PayloadManifest, TLAPS

(* The timestamps change nothing else. *)
LEMMA StampFields ==
  ASSUME NEW old \in Manifest, NEW new \in Manifest, NEW m, m = Stamp(old, new)
  PROVE  /\ m \in Manifest
         /\ m.latest = new.latest /\ m.op = new.op /\ m.next = new.next /\ m.tombs = new.tombs
         /\ \A v \in Ver :
              /\ m.entry[v].status = new.entry[v].status
              /\ Present(new, v) =>
                   /\ m.entry[v].op = new.entry[v].op
                   /\ m.entry[v].commit = new.entry[v].commit
                   /\ m.entry[v].sha = new.entry[v].sha
                   /\ m.entry[v].beta = new.entry[v].beta
                   /\ m.entry[v].since = StampSince(old, new, v)
                   /\ m.entry[v].quarantined = StampQuarantine(old, new, v)
              /\ ~Present(new, v) => m.entry[v] = NoEntry
<1> DEFINE stamped(v) == [new.entry[v] EXCEPT !.since = StampSince(old, new, v),
                                              !.quarantined = StampQuarantine(old, new, v)]
           F == [v \in Ver |-> IF Present(new, v) THEN stamped(v) ELSE NoEntry]
<1>1. \A v \in Ver : new.entry[v] \in Entry /\ old.entry[v] \in Entry
  BY DEF Manifest
<1>2. \A v \in Ver : StampSince(old, new, v) \in Clock /\ StampQuarantine(old, new, v) \in Clock
  BY <1>1 DEF StampSince, StampQuarantine, Clock, Entry
<1>3. NoEntry \in Entry
  BY DEF NoEntry, Entry, Clock
<1>4. ASSUME NEW v \in Ver
      PROVE  /\ stamped(v) \in Entry
             /\ stamped(v).status = new.entry[v].status
             /\ stamped(v).op = new.entry[v].op
             /\ stamped(v).commit = new.entry[v].commit
             /\ stamped(v).sha = new.entry[v].sha
             /\ stamped(v).beta = new.entry[v].beta
             /\ stamped(v).since = StampSince(old, new, v)
             /\ stamped(v).quarantined = StampQuarantine(old, new, v)
  BY <1>1, <1>2 DEF Entry
<1> HIDE DEF stamped
<1>5. F \in [Ver -> Entry]
  <2>1. \A v \in Ver : F[v] \in Entry
    BY <1>3, <1>4
  <2> QED
    BY <2>1
<1>6. m = [new EXCEPT !.entry = F]
  BY DEF Stamp, stamped
<1>7. NoEntry.status = "absent"
  BY DEF NoEntry
<1>8. \A v \in Ver : F[v] = IF Present(new, v) THEN stamped(v) ELSE NoEntry
  OBVIOUS
<1> HIDE DEF F
<1>9. /\ m \in Manifest
      /\ m.latest = new.latest /\ m.op = new.op /\ m.next = new.next /\ m.tombs = new.tombs
      /\ m.entry = F
  BY <1>5, <1>6 DEF Manifest
<1>10. ASSUME NEW v \in Ver PROVE m.entry[v].status = new.entry[v].status
  BY <1>4, <1>7, <1>8, <1>9 DEF Present
<1> QED
  BY <1>4, <1>8, <1>9, <1>10

(* Two manifests that differ in what their clocks show, not in which of    *)
(* them run.                                                               *)
SameButClocks(m, n) ==
  /\ n.latest = m.latest /\ n.op = m.op /\ n.tombs = m.tombs
  /\ \A v \in Ver :
       /\ n.entry[v].status = m.entry[v].status /\ n.entry[v].op = m.entry[v].op
       /\ n.entry[v].commit = m.entry[v].commit /\ n.entry[v].sha = m.entry[v].sha
       /\ n.entry[v].beta = m.entry[v].beta
       /\ n.entry[v].since = "null" <=> m.entry[v].since = "null"
       /\ n.entry[v].quarantined = "null" <=> m.entry[v].quarantined = "null"

(* The validator does not look at how far a clock has come. *)
LEMMA ClocksIrrelevant ==
  ASSUME NEW m \in Manifest, NEW n \in Manifest, SameButClocks(m, n), Valid(m)
  PROVE  Valid(n)
<1> USE DEF SameButClocks, Valid
<1>0. /\ \A v \in Ver : (Present(n, v) <=> Present(m, v)) /\ (Latest(n, v) <=> Latest(m, v))
      /\ \A k : LiveClaim(n, k) <=> LiveClaim(m, k)
      /\ \A c \in Channel : m.latest[c] # None => m.latest[c] \in Ver
  BY DEF Present, Latest, LiveClaim, Manifest
<1>1. EntriesValid(n)
  <2> SUFFICES ASSUME NEW v \in Ver, Present(n, v)
               PROVE  /\ n.entry[v].op # None
                      /\ \A w \in Ver : n.entry[w].op = n.entry[v].op => w = v
                      /\ IF IsBeta(v) THEN n.entry[v].beta = None
                         ELSE /\ n.entry[v].beta \in Ver /\ IsBeta(n.entry[v].beta)
                              /\ Clean(n.entry[v].beta) = v
                              /\ Present(n, n.entry[v].beta)
                              /\ n.entry[n.entry[v].beta].commit = n.entry[v].commit
                      /\ n.entry[v].status = "quarantined" => n.entry[v].quarantined # "null"
    BY DEF EntriesValid
  <2>1. /\ m.entry[v].op # None
        /\ \A w \in Ver : m.entry[w].op = m.entry[v].op => w = v
        /\ IF IsBeta(v) THEN m.entry[v].beta = None
           ELSE /\ m.entry[v].beta \in Ver /\ IsBeta(m.entry[v].beta)
                /\ Clean(m.entry[v].beta) = v
                /\ Present(m, m.entry[v].beta)
                /\ m.entry[m.entry[v].beta].commit = m.entry[v].commit
        /\ m.entry[v].status = "quarantined" => m.entry[v].quarantined # "null"
    BY <1>0 DEF EntriesValid
  <2> QED
    BY <1>0, <2>1
<1>2. PointersValid(n)
  BY <1>0 DEF PointersValid
<1>3. TenureValid(n)
  BY <1>0 DEF TenureValid
<1>4. OpsValid(n)
  BY DEF OpsValid
<1>5. CommittedMatch(n)
  BY <1>0 DEF CommittedMatch
<1>6. TombstonesTerminal(n)
  <2>1. \A k \in m.tombs : k[1] \in Ver
    BY DEF Manifest, Key
  <2> QED
    BY <1>0, <2>1 DEF TombstonesTerminal
<1> QED
  BY <1>1, <1>2, <1>3, <1>4, <1>5, <1>6

(* The timestamps of two such writes differ in the same way. *)
LEMMA StampsAlike ==
  ASSUME NEW old \in Manifest, NEW old2 \in Manifest, SameButClocks(old, old2),
         NEW new \in Manifest, NEW new2 \in Manifest, SameButClocks(new, new2),
         NEW m, m = Stamp(old, new), NEW n, n = Stamp(old2, new2)
  PROVE  m \in Manifest /\ n \in Manifest /\ SameButClocks(m, n)
<1>1. /\ m \in Manifest /\ n \in Manifest
      /\ n.latest = m.latest /\ n.op = m.op /\ n.tombs = m.tombs
  BY StampFields DEF SameButClocks
<1>2. ASSUME NEW v \in Ver
      PROVE  /\ n.entry[v].status = m.entry[v].status /\ n.entry[v].op = m.entry[v].op
             /\ n.entry[v].commit = m.entry[v].commit /\ n.entry[v].sha = m.entry[v].sha
             /\ n.entry[v].beta = m.entry[v].beta
             /\ n.entry[v].since = "null" <=> m.entry[v].since = "null"
             /\ n.entry[v].quarantined = "null" <=> m.entry[v].quarantined = "null"
  <2>1. /\ Present(new, v) <=> Present(new2, v)
        /\ Present(old, v) <=> Present(old2, v)
        /\ Latest(new, v) <=> Latest(new2, v)
        /\ Latest(old, v) <=> Latest(old2, v)
    BY DEF SameButClocks, Present, Latest
  <2>2. /\ StampSince(old2, new2, v) = "null" <=> StampSince(old, new, v) = "null"
        /\ StampQuarantine(old2, new2, v) = "null" <=> StampQuarantine(old, new, v) = "null"
    BY <2>1 DEF SameButClocks, StampSince, StampQuarantine
  <2>3. CASE Present(new, v)
    <3>1. /\ m.entry[v].status = new.entry[v].status /\ m.entry[v].op = new.entry[v].op
          /\ m.entry[v].commit = new.entry[v].commit /\ m.entry[v].sha = new.entry[v].sha
          /\ m.entry[v].beta = new.entry[v].beta
          /\ m.entry[v].since = StampSince(old, new, v)
          /\ m.entry[v].quarantined = StampQuarantine(old, new, v)
      BY <2>3, StampFields
    <3>2. /\ n.entry[v].status = new2.entry[v].status /\ n.entry[v].op = new2.entry[v].op
          /\ n.entry[v].commit = new2.entry[v].commit /\ n.entry[v].sha = new2.entry[v].sha
          /\ n.entry[v].beta = new2.entry[v].beta
          /\ n.entry[v].since = StampSince(old2, new2, v)
          /\ n.entry[v].quarantined = StampQuarantine(old2, new2, v)
      BY <2>1, <2>3, StampFields
    <3> QED
      BY <2>2, <3>1, <3>2 DEF SameButClocks
  <2>4. CASE ~Present(new, v)
    BY <2>1, <2>4, StampFields
  <2> QED
    BY <2>3, <2>4
<1> QED
  BY <1>1, <1>2 DEF SameButClocks

(* The write of an op, an entry and a pointer. *)
Written(m, i, o, v, e, c) ==
  [[m EXCEPT !.op[i] = o] EXCEPT !.entry[v] = e, !.latest[c] = v]

WritesOnly(d, m, i, o, v, e, c) ==
  /\ d \in Manifest /\ d.next = m.next /\ d.tombs = m.tombs
  /\ d.latest = [m.latest EXCEPT ![c] = v]
  /\ d.op = [m.op EXCEPT ![i] = o]
  /\ \A w \in Ver : d.entry[w] = IF w = v THEN e ELSE m.entry[w]

(* It writes nothing else. *)
LEMMA CommitWrite ==
  ASSUME NEW m \in Manifest, NEW i \in OpId, NEW o \in Op, NEW v \in Ver, NEW e \in Entry,
         NEW c \in Channel, NEW d, d = Written(m, i, o, v, e, c)
  PROVE  WritesOnly(d, m, i, o, v, e, c)
<1> DEFINE f == [m.op EXCEPT ![i] = o]
           g == [m.entry EXCEPT ![v] = e]
           h == [m.latest EXCEPT ![c] = v]
           m1 == [m EXCEPT !.op = f]
           m2 == [m1 EXCEPT !.entry = g]
           m3 == [m2 EXCEPT !.latest = h]
<1>1. f \in [OpId -> Op] /\ g \in [Ver -> Entry] /\ h \in [Channel -> Ver \cup {None}]
  BY DEF Manifest
<1>2. m1.entry = m.entry /\ m1.latest = m.latest /\ m2.latest = m.latest
  BY DEF Manifest
<1>3. d = m3
  BY <1>2 DEF Written
<1>4. \A w \in Ver : g[w] = IF w = v THEN e ELSE m.entry[w]
  BY DEF Manifest
<1> HIDE DEF f, g, h
<1>5. /\ m1 \in Manifest /\ m1.op = f /\ m1.next = m.next /\ m1.tombs = m.tombs
  BY <1>1 DEF Manifest
<1> HIDE DEF m1
<1>6. /\ m2 \in Manifest /\ m2.entry = g /\ m2.op = m1.op /\ m2.next = m1.next
      /\ m2.tombs = m1.tombs
  BY <1>1, <1>5 DEF Manifest
<1> HIDE DEF m2
<1>7. /\ m3 \in Manifest /\ m3.latest = h /\ m3.entry = m2.entry /\ m3.op = m2.op
      /\ m3.next = m2.next /\ m3.tombs = m2.tombs
  BY <1>1, <1>6 DEF Manifest
<1> HIDE DEF m3
<1>8. /\ d \in Manifest /\ d.next = m.next /\ d.tombs = m.tombs
      /\ d.latest = h /\ d.op = f /\ d.entry = g
  BY <1>3, <1>5, <1>6, <1>7
<1>9. d.latest = [m.latest EXCEPT ![c] = v] /\ d.op = [m.op EXCEPT ![i] = o]
  BY <1>8 DEF f, h
<1> QED
  BY <1>4, <1>8, <1>9 DEF WritesOnly

(* The same write on two manifests that differ in their clocks. *)
LEMMA WritesAlike ==
  ASSUME NEW m \in Manifest, NEW n \in Manifest, SameButClocks(m, n),
         NEW i \in OpId, NEW o \in Op, NEW v \in Ver, NEW e \in Entry, NEW c \in Channel,
         NEW d1, d1 = Written(m, i, o, v, e, c), NEW d2, d2 = Written(n, i, o, v, e, c)
  PROVE  d1 \in Manifest /\ d2 \in Manifest /\ SameButClocks(d1, d2)
<1>1. WritesOnly(d1, m, i, o, v, e, c) /\ WritesOnly(d2, n, i, o, v, e, c)
  BY CommitWrite
<1>2. /\ d1 \in Manifest /\ d2 \in Manifest
      /\ \A w \in Ver : d1.entry[w] = IF w = v THEN e ELSE m.entry[w]
      /\ \A w \in Ver : d2.entry[w] = IF w = v THEN e ELSE n.entry[w]
  BY <1>1 DEF WritesOnly
<1>3. d2.latest = d1.latest /\ d2.op = d1.op /\ d2.tombs = d1.tombs
  BY <1>1 DEF WritesOnly, SameButClocks
<1>4. ASSUME NEW w \in Ver
      PROVE  /\ d2.entry[w].status = d1.entry[w].status /\ d2.entry[w].op = d1.entry[w].op
             /\ d2.entry[w].commit = d1.entry[w].commit /\ d2.entry[w].sha = d1.entry[w].sha
             /\ d2.entry[w].beta = d1.entry[w].beta
             /\ d2.entry[w].since = "null" <=> d1.entry[w].since = "null"
             /\ d2.entry[w].quarantined = "null" <=> d1.entry[w].quarantined = "null"
  <2>1. CASE w = v
    BY <1>2, <2>1
  <2>2. CASE w # v
    BY <1>2, <2>2 DEF SameButClocks
  <2> QED
    BY <2>1, <2>2
<1> QED
  BY <1>2, <1>3, <1>4 DEF SameButClocks

(* None is no version. *)
LEMMA NoneNoVer == None \notin Ver
<1>1. \A n \in 0 .. MaxBeta : n \in Nat
  BY MaxBetaAssumption
<1> QED
  BY <1>1, NoneAssumption DEF Ver

(* The latest version of a channel is active and does not age. *)
LEMMA LatestUnaged ==
  ASSUME NEW m \in Manifest, Valid(m), NEW v \in Ver, Latest(m, v)
  PROVE  m.entry[v].status = "active" /\ ExpiryClock(m.entry[v]) # "elapsed"
<1>1. PICK ch \in Channel : m.latest[ch] = v
  BY DEF Latest
<1>2. m.latest[ch] # None
  BY <1>1, NoneNoVer
<1>3. m.entry[v].status = "active"
  BY <1>1, <1>2 DEF Valid, PointersValid
<1>4. m.entry[v].since = "null"
  BY DEF Valid, TenureValid
<1> QED
  BY <1>3, <1>4 DEF ExpiryClock
=============================================================================
