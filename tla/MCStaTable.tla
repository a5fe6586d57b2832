----------------------------- MODULE MCStaTable -----------------------------
(* Instances of module StaTable for TLC. *)
EXTENDS StaTable, TLC

Symmetry == Permutations(Sta) \cup Permutations(Readers)
=============================================================================
