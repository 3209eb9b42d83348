---------------------------- MODULE MCBTreeIndex ----------------------------
(* Instances of BTreeIndex for TLC. *)
EXTENDS BTreeIndex, TLC

MCKeys == {1, 2}

(* Bound: what happens to the chain happens with up to six slots taken. *)
UpToSixTaken == Cardinality(Taken) <= 6

RIDSymmetry == Permutations(RIDs)
=============================================================================
