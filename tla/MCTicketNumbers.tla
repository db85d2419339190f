-------------------------- MODULE MCTicketNumbers --------------------------
(* Instances of TicketNumbers for TLC. *)
EXTENDS TicketNumbers, TLC

CONSTANTS t1, t2, t3

=============================================================================
