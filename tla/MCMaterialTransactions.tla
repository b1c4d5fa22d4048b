----------------------- MODULE MCMaterialTransactions -----------------------
(* Small instances of MaterialTransactions for TLC. *)
EXTENDS MaterialHistory, TLC

Symmetry == Permutations(Procs)
=============================================================================
