------------------------------ MODULE MCRtlPs ------------------------------
(* The model is finite as it stands: its contexts are fixed by the code.    *)
EXTENDS RtlPs
=============================================================================
