---------------------------- MODULE MCRxReorder ----------------------------
(* Instances of module RxReorder for TLC. *)
EXTENDS RxReorder
============================================================================
