--------------------------- MODULE MCSyncPlanning ---------------------------
(* SyncPlanning with two paths, for TLC. *)
EXTENDS SyncPlanning, TLC

CONSTANTS a, b

TwoPaths == <<a, b>>

\* The whole project, and a scope of one path.
WholeAndOne == {{a, b}, {a}}

Symmetry == Permutations(Contents)
=============================================================================
