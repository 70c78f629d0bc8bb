--------------------------- MODULE MCStateMachine ---------------------------
(***************************************************************************)
(* Instances of StateMachine for TLC.                                      *)
(***************************************************************************)
EXTENDS StateMachine, TLC

CONSTANTS k1, k2, v1, v2

Symmetry == Permutations(Key) \cup Permutations(Value)

=============================================================================
