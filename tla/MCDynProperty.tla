--------------------------- MODULE MCDynProperty ---------------------------
(* Model-checking instance of DynProperty: three caller slots, which are   *)
(* interchangeable, so TLC explores them up to permutation.                *)
EXTENDS DynProperty, TLC

CONSTANTS s1, s2, s3

MCSlots == {s1, s2, s3}
SlotSymmetry == Permutations(MCSlots)
=============================================================================
