--------------------------- MODULE TicketNumbers ---------------------------
(***************************************************************************)
(* create_ticket and next_ticket_number of services/tickets.py, run by     *)
(* handlers that may overlap.  The counter is the one row of the table     *)
(* ticket_counter; the first call ever inserts it.  The row is locked from *)
(* SELECT ... FOR UPDATE, or from its insertion, until the transaction of  *)
(* the handler ends, and so are the primary key of an uncommitted counter  *)
(* and the uncommitted ticket.                                             *)
(***************************************************************************)
EXTENDS Naturals, Sequences

CONSTANTS
    Tasks,       \* handlers that may create tickets at the same time
    MaxNumber,   \* bound: no call is started once there are this many tickets
    None         \* no task, no row

ASSUME NumbersAssumption ==
    /\ MaxNumber \in Nat
    /\ None \notin Tasks \cup Nat

VARIABLES
    counter,   \* last_value of the committed counter row, None before there is one
    lock,      \* the task that holds the row lock or the uncommitted primary key
    tickets,   \* numbers of the committed tickets, in the order of the commits
    pc,        \* what each task does next
    value      \* last_value as the session of each task sees it

vars == <<counter, lock, tickets, pc, value>>

Pc == {"idle", "select", "insert", "increment", "insert_ticket", "commit"}

TypeOK ==
    /\ counter \in Nat \cup {None}
    /\ lock \in Tasks \cup {None}
    /\ tickets \in Seq(Nat)
    /\ pc \in [Tasks -> Pc]
    /\ value \in [Tasks -> Nat]

Init ==
    /\ counter = None
    /\ lock = None
    /\ tickets = << >>
    /\ pc = [t \in Tasks |-> "idle"]
    /\ value = [t \in Tasks |-> 0]

-----------------------------------------------------------------------------
\* A handler calls create_ticket.
CreateTicket(t) ==
    /\ pc[t] = "idle"
    /\ Len(tickets) < MaxNumber
    /\ pc' = [pc EXCEPT ![t] = "select"]
    /\ UNCHANGED <<counter, lock, tickets, value>>

\* Mutant: the counter is read without FOR UPDATE.
SelectCounterUnlocked(t) ==
    /\ pc[t] = "select"
    /\ counter # None
    /\ value' = [value EXCEPT ![t] = counter]
    /\ pc' = [pc EXCEPT ![t] = "increment"]
    /\ UNCHANGED <<counter, lock, tickets>>

\* SELECT ... FOR UPDATE of the committed row: it waits for the lock and then
\* reads the value the last holder committed.
SelectCounter(t) ==
    /\ pc[t] = "select"
    /\ counter # None
    /\ lock = None
    /\ lock' = t
    /\ value' = [value EXCEPT ![t] = counter]
    /\ pc' = [pc EXCEPT ![t] = "increment"]
    /\ UNCHANGED <<counter, tickets>>

\* No committed row: there is nothing to lock, the call will insert it.
SelectNothing(t) ==
    /\ pc[t] = "select"
    /\ counter = None
    /\ pc' = [pc EXCEPT ![t] = "insert"]
    /\ UNCHANGED <<counter, lock, tickets, value>>

\* Mutant: last_value has no initial value.
InsertCounterWithoutValue(t) ==
    /\ pc[t] = "insert"
    /\ counter = None
    /\ lock = None
    /\ lock' = t
    /\ value' = [value EXCEPT ![t] = None]
    /\ pc' = [pc EXCEPT ![t] = "increment"]
    /\ UNCHANGED <<counter, tickets>>

\* INSERT of id 1 waits for a transaction that has inserted it already.
InsertCounter(t) ==
    /\ pc[t] = "insert"
    /\ counter = None
    /\ lock = None
    /\ lock' = t
    /\ value' = [value EXCEPT ![t] = 0]
    /\ pc' = [pc EXCEPT ![t] = "increment"]
    /\ UNCHANGED <<counter, tickets>>

\* The primary key exists by now: IntegrityError, the handler fails.
InsertCollides(t) ==
    /\ pc[t] = "insert"
    /\ counter # None
    /\ pc' = [pc EXCEPT ![t] = "idle"]
    /\ UNCHANGED <<counter, lock, tickets, value>>

\* last_value += 1, flushed.
Increment(t) ==
    /\ pc[t] = "increment"
    /\ value' = [value EXCEPT ![t] = @ + 1]
    /\ pc' = [pc EXCEPT ![t] = "insert_ticket"]
    /\ UNCHANGED <<counter, lock, tickets>>

\* The ticket takes the number; the rest of the handler runs before the commit.
InsertTicket(t) ==
    /\ pc[t] = "insert_ticket"
    /\ pc' = [pc EXCEPT ![t] = "commit"]
    /\ UNCHANGED <<counter, lock, tickets, value>>

\* Mutant: the session is not given back after its commit.
CommitKeepsLock(t) ==
    /\ pc[t] = "commit"
    /\ counter' = value[t]
    /\ tickets' = Append(tickets, value[t])
    /\ pc' = [pc EXCEPT ![t] = "idle"]
    /\ UNCHANGED <<lock, value>>

Commit(t) ==
    /\ pc[t] = "commit"
    /\ counter' = value[t]
    /\ tickets' = Append(tickets, value[t])
    /\ lock' = IF lock = t THEN None ELSE lock
    /\ pc' = [pc EXCEPT ![t] = "idle"]
    /\ UNCHANGED value

\* The handler raises (Telegram, the database, a restart): rolled back.
Abort(t) ==
    /\ pc[t] # "idle"
    /\ lock' = IF lock = t THEN None ELSE lock
    /\ pc' = [pc EXCEPT ![t] = "idle"]
    /\ UNCHANGED <<counter, tickets, value>>

Step(t) ==
    \/ SelectCounter(t) \/ SelectNothing(t) \/ InsertCounter(t) \/ InsertCollides(t)
    \/ Increment(t) \/ InsertTicket(t) \/ Commit(t)

Next == \E t \in Tasks : CreateTicket(t) \/ Step(t) \/ Abort(t)

Spec == Init /\ [][Next]_vars

\* The waiters of a row lock are served in turn.
FairSpec == Spec /\ \A t \in Tasks : SF_vars(Step(t))

-----------------------------------------------------------------------------
(* Properties.                                                              *)

\* The numbers of the tickets that exist are 1, 2, 3, ... in order of creation:
\* concurrent calls never take the same number and a rollback gives it back.
Abstract == INSTANCE Numbering WITH numbers <- tickets

ImplementsNumbering == Abstract!Spec

\* A call of create_ticket comes to an end.
CallsEnd == \A t \in Tasks : pc[t] # "idle" ~> pc[t] = "idle"

=============================================================================
