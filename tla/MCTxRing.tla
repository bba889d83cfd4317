------------------------------ MODULE MCTxRing ------------------------------
(* Small instances of TxRing. *)
EXTENDS TxRing, TLC

Symmetry == Permutations(Chains)

=============================================================================
