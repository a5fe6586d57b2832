------------------------------ MODULE MCUsbTx ------------------------------
(***************************************************************************)
(* UsbTx for TLC.  One sender and one completion context share a window of *)
(* two URBs (as many contexts as slots, the tightest case the assumption   *)
(* allows) and twice as many frames as fit into it.                        *)
(***************************************************************************)
EXTENDS UsbTx
=============================================================================
