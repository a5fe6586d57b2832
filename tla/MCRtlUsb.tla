----------------------------- MODULE MCRtlUsb ------------------------------
(***************************************************************************)
(* RtlUsb for TLC: the configuration task, which is also the sender, and   *)
(* one completion context share a window of two URBs (as many contexts as  *)
(* slots) that two frames and a command overfill, and the interface comes  *)
(* up twice.  Senders beside the task are the subject of UsbTx.            *)
(***************************************************************************)
EXTENDS RtlUsb
=============================================================================
