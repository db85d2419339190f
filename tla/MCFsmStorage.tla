---------------------------- MODULE MCFsmStorage ----------------------------
(* Instances of FsmStorage for TLC. *)
EXTENDS FsmStorage, TLC

CONSTANTS t1, t2, m1, s1, i1

=============================================================================
