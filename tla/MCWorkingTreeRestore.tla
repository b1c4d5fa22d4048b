------------------------ MODULE MCWorkingTreeRestore ------------------------
(* Small instances of WorkingTreeRestore for TLC. *)
EXTENDS WorkingTreeRestore, TLC

\* Smaller bounds for the users that edit during a restore.
HastyBound == hazards # {} => Len(trees) <= 2 /\ interrupts <= 1

Symmetry == Permutations(Paths) \cup Permutations(Contents)
=============================================================================
