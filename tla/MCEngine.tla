------------------------------ MODULE MCEngine ------------------------------
(***************************************************************************)
(* Instances of Engine for TLC.  Keys and values that the model never      *)
(* compares in any other way than by equality may be permuted.             *)
(***************************************************************************)
EXTENDS Engine, TLC

CONSTANTS k1, k2, v1, v2

Symmetry == Permutations(Key) \cup Permutations(Value)

=============================================================================
