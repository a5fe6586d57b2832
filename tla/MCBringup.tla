------------------------------ MODULE MCBringup ------------------------------
(* Instances of module Bringup for TLC. *)
EXTENDS Bringup
=============================================================================
