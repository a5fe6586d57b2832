------------------------------ MODULE MCTxPath ------------------------------
(* Instances of module TxPath for TLC; queues and indices are symmetric.*)
EXTENDS TxPath, TLC

Symmetry == Permutations(Queues) \cup Permutations(GroupIdx)
=============================================================================
