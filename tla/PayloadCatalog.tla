--------------------------- MODULE PayloadCatalog ---------------------------
(***************************************************************************)
(* What the payload endpoint promises its customers: a shelf of versions   *)
(* that can be downloaded and, per channel, a latest one.  A version goes  *)
(* on the shelf once, with one payload, as the latest of its channel, and  *)
(* leaves it for good: withdrawn, with another version pinned in the same  *)
(* step, or retired.  The latest of a channel never leaves.                *)
(***************************************************************************)
CONSTANTS Ver, Sha, Channel, ChannelOf(_), None

VARIABLES
  shelf,    \* the payload of each version on the shelf
  latest,
  gone      \* the versions that have left the shelf

Init ==
  /\ shelf = [v \in Ver |-> None]
  /\ latest = [c \in Channel |-> None]
  /\ gone = {}

Publish(v, s) ==
  /\ shelf[v] = None /\ v \notin gone
  /\ shelf' = [shelf EXCEPT ![v] = s]
  /\ latest' = [latest EXCEPT ![ChannelOf(v)] = v]
  /\ UNCHANGED gone

TakeOff(v) ==
  /\ shelf[v] # None
  /\ shelf' = [shelf EXCEPT ![v] = None]
  /\ gone' = gone \cup {v}

Repin(v) ==
  /\ shelf[v] # None
  /\ latest' = [latest EXCEPT ![ChannelOf(v)] = v]

Withdraw(v, fallback) ==
  /\ TakeOff(v)
  /\ fallback # v /\ Repin(fallback)
  /\ latest'[ChannelOf(v)] # v

Retire(v) ==
  /\ TakeOff(v)
  /\ latest[ChannelOf(v)] # v
  /\ UNCHANGED latest

Next ==
  \/ \E v \in Ver, s \in Sha : Publish(v, s)
  \/ \E v, f \in Ver : Withdraw(v, f)
  \/ \E v \in Ver : Retire(v)
  \/ \E v \in Ver : Repin(v) /\ UNCHANGED <<shelf, gone>>

Spec == Init /\ [][Next]_<<shelf, latest, gone>>
=============================================================================
