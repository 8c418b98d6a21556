--------------------------- MODULE MCApplyGrants ---------------------------
(* Instances of ApplyGrants for TLC: sessions and receipts are alike.         *)
EXTENDS ApplyGrants, TLC

Symmetry == Permutations(Owners) \cup Permutations(Receipts)
=============================================================================
