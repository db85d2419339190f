----------------------------- MODULE MCReports -----------------------------
(* Instances of Reports for TLC. *)
EXTENDS Reports, TLC

CONSTANTS k1, r1, r2, u1

OfOneUser == [k \in Tickets |-> u1]

Symmetric == Permutations(Tasks)

=============================================================================
