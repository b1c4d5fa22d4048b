---------------------------- MODULE MCGuiBridge ----------------------------
(* Small instances of GuiBridge for TLC. *)
EXTENDS GuiBridge, TLC

Symmetry == Permutations(Contents) \cup Permutations(Clients)
=============================================================================
