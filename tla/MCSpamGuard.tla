---------------------------- MODULE MCSpamGuard ----------------------------
(* Instances of SpamGuard for TLC. *)
EXTENDS SpamGuard, TLC

CONSTANTS m1, m2, m3, x1, x2

Symmetric == Permutations(Messages) \cup Permutations(Texts)

=============================================================================
