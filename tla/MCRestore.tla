----------------------------- MODULE MCRestore -----------------------------
(* Instances of Restore for TLC. *)
EXTENDS Restore, TLC

CONSTANTS p1, p2

Symmetric == Permutations(Presses)

=============================================================================
