----------------------------- MODULE MCTxLookup ------------------------------
(* The instance of TxLookup that TLC checks. *)
EXTENDS TxLookup, TLC

Symmetry == Permutations(Lookup)

=============================================================================
