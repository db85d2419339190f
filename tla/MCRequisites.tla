---------------------------- MODULE MCRequisites ----------------------------
(* Instances of Requisites for TLC. *)
EXTENDS Requisites, TLC

CONSTANTS k1, bank, photo, t1, t2

AllOfOneKind == [tk \in Tickets |-> k1]

Symmetric == Permutations(Tasks)
=============================================================================
