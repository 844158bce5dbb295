---------------------------- MODULE MCDagDispatch ----------------------------
(***************************************************************************)
(* Every graph over three nodes whose lists hold at most two ids, one      *)
(* unknown id among them, duplicates included; two concurrent slots.       *)
(***************************************************************************)
EXTENDS DagDispatch

CONSTANTS n1, n2, n3, ext

MCNode == {n1, n2, n3}
MCExternal == {ext}

(* One list per bag of at most two ids: the code never looks at their order. *)
Ids == MCNode \cup MCExternal
Lists ==
  {<< >>} \cup {<<a>> : a \in Ids} \cup {<<a, a>> : a \in Ids}
          \cup {CHOOSE s \in {<<a, b>> : a, b \in S} : s[1] # s[2] :
                  S \in {T \in SUBSET Ids : Cardinality(T) = 2}}

MCGraphs == [MCNode -> Lists]

=============================================================================
