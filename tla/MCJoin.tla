------------------------------- MODULE MCJoin -------------------------------
(* Instances of module Join for TLC. *)
EXTENDS Join
=============================================================================
