--------------------------- MODULE MCConversation ---------------------------
(* Instances of Conversation for TLC. *)
EXTENDS Conversation, TLC

CONSTANTS t1, t2

Symmetric == Permutations(Tasks)

=============================================================================
