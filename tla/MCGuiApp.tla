------------------------------ MODULE MCGuiApp ------------------------------
(* A small instance of GuiApp for TLC. *)
EXTENDS GuiApp, TLC

Symmetry == Permutations(Roots)

=============================================================================
