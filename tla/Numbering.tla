----------------------------- MODULE Numbering -----------------------------
(***************************************************************************)
(* What ticket numbers promise: the tickets that exist carry the numbers   *)
(* 1, 2, 3, ... in the order in which they came into being, none twice and *)
(* none left out.                                                          *)
(***************************************************************************)
EXTENDS Naturals, Sequences

VARIABLE numbers  \* the numbers of the committed tickets, oldest first

Init == numbers = << >>

Issue == numbers' = Append(numbers, Len(numbers) + 1)

Spec == Init /\ [][Issue]_numbers

=============================================================================
