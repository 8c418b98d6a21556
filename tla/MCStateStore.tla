---------------------------- MODULE MCStateStore ----------------------------
(* Artifact references are random values: any permutation of them is a     *)
(* symmetry of the store.                                                  *)
EXTENDS StateStore, TLC

MCSymmetry == Permutations(Refs)
=============================================================================
