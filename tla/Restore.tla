------------------------------ MODULE Restore ------------------------------
(***************************************************************************)
(* The restore of an uploaded backup: the question, the button, and psql,  *)
(* which runs the script statement by statement on the database that the   *)
(* handlers go on using: they commit between its statements.  Every call   *)
(* of the FSM storage that writes is a step.  It is Redis here, since in   *)
(* PostgreSQL the flow would be gone with the schema.                      *)
(***************************************************************************)
EXTENDS Naturals

CONSTANTS
    Presses,     \* handlers of the restore button, each pressed once
    MaxVersion,  \* bound: committed changes of the data
    NoSchema,    \* the contents of a database without tables, or of a dump of it
    Part,        \* contents of which something is missing
    Amended,     \* contents of a file, or a part of them, with commits of handlers in between
    None         \* no file

ASSUME RestoreAssumption ==
    /\ MaxVersion \in Nat
    /\ {NoSchema, Part, Amended, None} \cap Nat = {}
    /\ NoSchema \notin {Part, Amended} /\ Part # Amended
    /\ None \notin {NoSchema, Part, Amended}

VARIABLES
    up,       \* the process is running
    db,       \* the contents of the database; its versions are numbered
    backups,  \* the contents of the backups in the admin chat
    flow,     \* RestoreFlow, with the file that a handler of /restore is about to save, and
              \* whether a handler of the other button or of /cancel is about to drop the data
    press     \* the handlers of the button

vars == <<up, db, backups, flow, press>>

-----------------------------------------------------------------------------
Version == 0..MaxVersion
Contents == Version \cup {NoSchema, Part, Amended}
Working == {"data", "clear", "drop", "load", "loading"}
Pc == Working \cup {"new", "restored", "refused", "failed"}

NoFlow == [asked |-> FALSE, file |-> None, saving |-> None, dropping |-> FALSE]

TypeOK ==
    /\ up \in BOOLEAN
    /\ db \in Contents
    /\ backups \subseteq Contents
    /\ flow \in [asked: BOOLEAN, file: Contents \cup {None}, saving: Contents \cup {None},
                 dropping: BOOLEAN]
    /\ press \in [Presses -> [pc: Pc, file: Contents \cup {None}]]

Init ==
    /\ up = TRUE
    /\ db = 0
    /\ backups = {}
    /\ flow = NoFlow
    /\ press = [p \in Presses |-> [pc |-> "new", file |-> None]]

At(p, pc) == press[p].pc = pc

-----------------------------------------------------------------------------
\* /restore in reply to a backup from the chat, or to a file that was cut. A reply is first
\* looked up among the copies of user messages, which fails without tables.
AskRestore(f) ==
    /\ up /\ db # NoSchema
    /\ flow.saving = None
    /\ flow' = [flow EXCEPT !.asked = TRUE, !.saving = f]
    /\ UNCHANGED <<up, db, backups, press>>

\* update_data: of its two calls only the second counts, it overwrites all there is.
SaveFile ==
    /\ flow.saving # None
    /\ flow' = [flow EXCEPT !.file = flow.saving, !.saving = None]
    /\ UNCHANGED <<up, db, backups, press>>

\* The other button, or /cancel: the state goes first and then the data. Bound, as for
\* /restore: one such handler at a time.
CancelRestore ==
    /\ up
    /\ ~flow.dropping
    /\ flow' = [flow EXCEPT !.asked = FALSE, !.dropping = TRUE]
    /\ UNCHANGED <<up, db, backups, press>>

DropFile ==
    /\ flow.dropping
    /\ flow' = [flow EXCEPT !.file = None, !.dropping = FALSE]
    /\ UNCHANGED <<up, db, backups, press>>

\* The button may be that of an earlier question.
ConfirmRestore(p) ==
    /\ up
    /\ flow.asked
    /\ At(p, "new")
    /\ press' = [press EXCEPT ![p].pc = "data"]
    /\ UNCHANGED <<up, db, backups, flow>>

ReadFlow(p) ==
    /\ At(p, "data")
    /\ press' = [press EXCEPT ![p] = [pc |-> "clear", file |-> flow.file]]
    /\ UNCHANGED <<up, db, backups, flow>>

ClearFlow(p) ==
    /\ At(p, "clear")
    /\ flow' = [flow EXCEPT !.asked = FALSE]
    /\ press' = [press EXCEPT ![p].pc = "drop"]
    /\ UNCHANGED <<up, db, backups>>

\* Mutant: a missing file is not noticed, its script is empty.
ClearDataUnchecked(p) ==
    /\ At(p, "drop")
    /\ flow' = [flow EXCEPT !.file = None]
    /\ press' = [press EXCEPT ![p].pc = "load"]
    /\ UNCHANGED <<up, db, backups>>

\* Without a file nothing is restored.
ClearData(p) ==
    /\ At(p, "drop")
    /\ flow' = [flow EXCEPT !.file = None]
    /\ press' = [press EXCEPT ![p].pc = IF press[p].file = None THEN "failed" ELSE "load"]
    /\ UNCHANGED <<up, db, backups>>

\* Mutant: without ON_ERROR_STOP psql ends well whatever happens.
LoadWithoutStop(p) ==
    /\ At(p, "load")
    /\ IF press[p].file # NoSchema /\ db = NoSchema
       THEN press' = [press EXCEPT ![p].pc = "loading"] /\ db' = Part
       ELSE press' = [press EXCEPT ![p].pc = "restored"] /\ UNCHANGED db
    /\ UNCHANGED <<up, backups, flow>>

\* The first CREATE of a dump, which has no DROP: it fails if the tables are there, and
\* ON_ERROR_STOP makes that the end. A dump without tables creates nothing.
Load(p) ==
    /\ At(p, "load")
    /\ \/ /\ press[p].file = NoSchema
          /\ press' = [press EXCEPT ![p].pc = "restored"]
          /\ UNCHANGED db
       \/ /\ press[p].file # NoSchema /\ db # NoSchema
          /\ press' = [press EXCEPT ![p].pc = "refused"]
          /\ UNCHANGED db
       \/ /\ press[p].file # NoSchema /\ db = NoSchema
          /\ press' = [press EXCEPT ![p].pc = "loading"]
          /\ db' = Part
    /\ UNCHANGED <<up, backups, flow>>

\* The end of the script; psql does not mind that it was cut. What handlers have committed
\* between its statements stays.
Loaded(p) ==
    /\ At(p, "loading")
    /\ db' = IF db = Part THEN press[p].file ELSE Amended
    /\ press' = [press EXCEPT ![p].pc = "restored"]
    /\ UNCHANGED <<up, backups, flow>>

\* The download or psql fails, or psql takes 300 seconds: what it has done stays.
RestoreFails(p) ==
    /\ At(p, "load") \/ At(p, "loading")
    /\ press' = [press EXCEPT ![p].pc = "failed"]
    /\ UNCHANGED <<up, db, backups, flow>>

-----------------------------------------------------------------------------
(* The surroundings.                                                        *)

\* Handlers commit, also into the tables that a script has made so far.
Commit ==
    /\ up
    /\ \/ db \in Version /\ db < MaxVersion /\ db' = db + 1
       \/ db \in {Part, Amended} /\ db' = Amended
    /\ UNCHANGED <<up, backups, flow, press>>

\* A backup is sent to the chat; pg_dump does not mind that there are no tables.
Dump ==
    /\ up
    /\ backups' = backups \cup {db}
    /\ UNCHANGED <<up, db, flow, press>>

\* The database is lost, or emptied for the sake of the restore; nobody does that to a
\* script at work.
DropSchema ==
    /\ \A p \in Presses : ~At(p, "loading")
    /\ db' = NoSchema
    /\ UNCHANGED <<up, backups, flow, press>>

Exit ==
    /\ up
    /\ up' = FALSE
    /\ flow' = [flow EXCEPT !.saving = None, !.dropping = FALSE]
    /\ press' = [p \in Presses |->
          IF press[p].pc \in Working THEN [press[p] EXCEPT !.pc = "failed"] ELSE press[p]]
    /\ UNCHANGED <<db, backups>>

\* run_migrations makes the tables of an empty database. Over a part of them it may fail,
\* and the process does not start.
Launch ==
    /\ ~up
    /\ up' = TRUE
    /\ db' = IF db = NoSchema THEN 0 ELSE db
    /\ UNCHANGED <<backups, flow, press>>

Next ==
    \/ \E f \in backups \cup {Part} : AskRestore(f)
    \/ SaveFile \/ CancelRestore \/ DropFile
    \/ \E p \in Presses : ConfirmRestore(p) \/ ReadFlow(p) \/ ClearFlow(p) \/ ClearData(p)
                          \/ Load(p) \/ Loaded(p) \/ RestoreFails(p)
    \/ Commit \/ Dump \/ DropSchema \/ Exit \/ Launch

Spec == Init /\ [][Next]_vars

-----------------------------------------------------------------------------
(* Properties.                                                              *)

\* What a restore that is reported as done has put in place: its script ran to its end and
\* no other was at work beside it, so the database holds the file, unless handlers committed
\* while it ran. Whatever was there before it was gone already.
RestoredIsThere ==
    [][\A p \in Presses :
          ~At(p, "restored") /\ At(p, "restored")' /\ press[p].file # NoSchema
          => /\ db \in {Part, Amended}
             /\ db' = press[p].file \/ (db = Amended /\ db' = Amended)
             /\ \A q \in Presses : ~At(q, "loading")']_vars

\* What the question promises, the button and the docstring too: restoring a backup
\* overwrites the data there are. It does not, it stops at the first table that is there.
RestoreOverwrites == \A p \in Presses : ~(At(p, "refused") /\ press[p].file \in Version)

=============================================================================
