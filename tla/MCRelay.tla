------------------------------ MODULE MCRelay -------------------------------
(* Instances of Relay for TLC. *)
EXTENDS Relay, TLC

CONSTANTS u1, u2, m1, m2, a1, r1, e1

FromTwoUsers == (m1 :> u1) @@ (m2 :> u2)
=============================================================================
