------------------------------- MODULE MCScan -------------------------------
(* Instances of module Scan for TLC. *)
EXTENDS Scan
=============================================================================
