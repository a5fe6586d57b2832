------------------------------- MODULE MCKeys -------------------------------
(* Instances of module Keys for TLC. *)
EXTENDS Keys, TLC

Symmetry == Permutations(Key) \cup Permutations(Readers)
=============================================================================
