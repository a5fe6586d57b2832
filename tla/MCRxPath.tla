------------------------------ MODULE MCRxPath ------------------------------
(* Instances of module RxPath for TLC. *)
EXTENDS RxPath
=============================================================================
