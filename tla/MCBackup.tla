------------------------------ MODULE MCBackup ------------------------------
(* Instances of Backup for TLC. *)
EXTENDS Backup, TLC

CONSTANTS loop, c1

=============================================================================
