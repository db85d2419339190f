---------------------------- MODULE Conversation ----------------------------
(***************************************************************************)
(* One user's conversation with the desk: /start and /new, the choice of a *)
(* reason that opens a ticket, the messages relayed to the admin chat, the *)
(* admins' replies, the closing and the status of tickets, and the loop    *)
(* that closes inactive ones.                                              *)
(*                                                                         *)
(* The user's state (FSM) is a row of its own that each write commits at   *)
(* once; the tickets are read and written in the handler's transaction:    *)
(* READ COMMITTED, row locks held to its end, and only the columns that    *)
(* differ from the loaded instance are written (see Payments.tla).         *)
(*                                                                         *)
(* The receipt of a payment is in Payments.tla.  A payment's confirmation  *)
(* (paid) and its requisites (awaiting_payment) touch a ticket the way     *)
(* set_status does and are not repeated here.                              *)
(***************************************************************************)
EXTENDS Naturals

CONSTANTS
    Tasks,       \* handlers that may run at the same time
    Loop,        \* the background task that closes inactive tickets
    MaxTickets,  \* bound: tickets the user creates
    Timeout,     \* ticks that make up INACTIVITY_TIMEOUT_MINUTES
    Choices,     \* statuses an admin picks in the status menu
    None         \* no task, no ticket

VARIABLES
    fsm,          \* the user's FSM state
    ticket,       \* committed tickets of the user, by id in order of creation
    age,          \* ticks since updated_at of each ticket, up to Timeout
    rowLock,      \* the task that holds the lock of a ticket's row
    counterLock,  \* the task that holds the lock of the ticket counter
    shown,        \* tickets with a message and its buttons in the admin chat
    saved,        \* tickets with a committed message an admin can reply to
    task          \* the running handlers and the loop

vars == <<fsm, ticket, age, rowLock, counterLock, shown, saved, task>>

-----------------------------------------------------------------------------
TicketIds == 1 .. MaxTickets

TicketStatus == {"new", "viewed", "awaiting_admin", "awaiting_user", "answered",
                 "awaiting_payment", "payment_review", "paid", "closed"}

ASSUME ConversationAssumption ==
    /\ MaxTickets \in Nat
    /\ Timeout \in Nat \ {0}
    /\ Choices \subseteq TicketStatus
    /\ Loop \notin Tasks
    /\ None \notin Tasks \cup {Loop} \cup Nat

UserState == {"none", "choosing_reason", "choosing_purchase_subcategory",
              "chatting", "confirm"}

TicketRow == [status: TicketStatus \cup {"none"}, open: BOOLEAN]

NoTicket == [status |-> "none", open |-> FALSE]
NewTicket == [status |-> "new", open |-> TRUE]
ClosedTicket == [status |-> "closed", open |-> FALSE]

Exists(k) == ticket[k].status # "none"
Open == {k \in TicketIds : ticket[k].open}

Pc == {"idle", "ask_reason", "ask_confirm", "close_rows", "number", "chat",
       "find_ticket", "relay", "flush", "commit"}

Op == {"none", "start", "gate", "new", "create", "message", "reply", "status",
       "close", "auto_close"}

\* A task: what it runs and where it is, its ticket as loaded (snap) and as to be
\* flushed (row), and the tickets a bulk statement closes.
Task == [pc: Pc, op: Op, k: TicketIds \cup {None}, snap: TicketRow, row: TicketRow,
         batch: SUBSET TicketIds]

Idle == [pc |-> "idle", op |-> "none", k |-> None, snap |-> NoTicket, row |-> NoTicket,
         batch |-> {}]

TypeOK ==
    /\ fsm \in UserState
    /\ ticket \in [TicketIds -> TicketRow]
    /\ age \in [TicketIds -> 0 .. Timeout]
    /\ rowLock \in [TicketIds -> Tasks \cup {Loop, None}]
    /\ counterLock \in Tasks \cup {None}
    /\ shown \subseteq TicketIds
    /\ saved \subseteq TicketIds
    /\ task \in [Tasks \cup {Loop} -> Task]

Init ==
    /\ fsm = "none"
    /\ ticket = [k \in TicketIds |-> NoTicket]
    /\ age = [k \in TicketIds |-> 0]
    /\ rowLock = [k \in TicketIds |-> None]
    /\ counterLock = None
    /\ shown = {}
    /\ saved = {}
    /\ task = [t \in Tasks \cup {Loop} |-> Idle]

-----------------------------------------------------------------------------
\* Bookkeeping of tasks.
tickets == <<ticket, age>>
locks == <<rowLock, counterLock>>
chat == <<shown, saved>>

At(t, pc) == task[t].pc = pc
Goto(t, pc) == task' = [task EXCEPT ![t].pc = pc]
Finish(t) == task' = [task EXCEPT ![t] = Idle]

Start(t, new) ==
    /\ At(t, "idle")
    /\ task' = [task EXCEPT ![t] = new]

\* An instance of ticket k, changed from its committed row to `new`.
Loaded(pc, op, k, new) ==
    [Idle EXCEPT !.pc = pc, !.op = op, !.k = k, !.snap = ticket[k], !.row = new]

ReleaseLocks(t) ==
    /\ rowLock' = [k \in TicketIds |-> IF rowLock[k] = t THEN None ELSE rowLock[k]]
    /\ counterLock' = IF counterLock = t THEN None ELSE counterLock

-----------------------------------------------------------------------------
(* /start and /new (start.py), and the question that may follow.            *)

\* get_open_ticket decides which question is asked.
StartCommand(t) ==
    /\ Start(t, [Idle EXCEPT !.op = "start",
                             !.pc = IF Open = {} THEN "ask_reason" ELSE "ask_confirm"])
    /\ UNCHANGED <<fsm, tickets, locks, chat>>

AskConfirm(t) ==
    /\ At(t, "ask_confirm")
    /\ fsm' = "confirm"
    /\ Finish(t)
    /\ UNCHANGED <<tickets, locks, chat>>

\* The question for the reason, after /start, after a message without a ticket, and
\* after the old tickets were closed, which is not committed yet.
AskReason(t) ==
    /\ At(t, "ask_reason")
    /\ fsm' = "choosing_reason"
    /\ \/ task[t].op = "new" /\ Goto(t, "commit")
       \/ task[t].op # "new" /\ Finish(t)
    /\ UNCHANGED <<tickets, locks, chat>>

\* newticket:confirm; close_open_tickets is one UPDATE of the tickets open when it
\* starts.
ConfirmNewTicket(t) ==
    /\ fsm = "confirm"
    /\ Start(t, [Idle EXCEPT !.pc = "close_rows", !.op = "new", !.batch = Open])
    /\ UNCHANGED <<fsm, tickets, locks, chat>>

\* newticket:continue
ContinueTicket ==
    /\ fsm = "confirm"
    /\ fsm' = "chatting"
    /\ UNCHANGED <<tickets, locks, chat, task>>

\* newticket:cancel, and any other button: the state ends the same way.
CancelNewTicket ==
    /\ fsm = "confirm"
    /\ fsm' = "none"
    /\ UNCHANGED <<tickets, locks, chat, task>>

-----------------------------------------------------------------------------
(* The choice of a reason (reason.py): a ticket is created.                 *)

\* reason:purchase
ChoosePurchase ==
    /\ fsm = "choosing_reason"
    /\ fsm' = "choosing_purchase_subcategory"
    /\ UNCHANGED <<tickets, locks, chat, task>>

\* purchase:back
BackToReasons ==
    /\ fsm = "choosing_purchase_subcategory"
    /\ fsm' = "choosing_reason"
    /\ UNCHANGED <<tickets, locks, chat, task>>

\* Any other reason or purchase subcategory; no look at the open tickets.
ChooseReason(t) ==
    /\ fsm \in {"choosing_reason", "choosing_purchase_subcategory"}
    /\ Start(t, [Idle EXCEPT !.pc = "number", !.op = "create"])
    /\ UNCHANGED <<fsm, tickets, locks, chat>>

\* next_ticket_number: the counter's lock is kept until the commit.
TakeNumber(t) ==
    /\ At(t, "number")
    /\ counterLock = None
    /\ \E k \in TicketIds : ~Exists(k)
    /\ counterLock' = t
    /\ Goto(t, "chat")
    /\ UNCHANGED <<fsm, tickets, rowLock, chat>>

\* The user may write before the ticket is committed.
StartChatting(t) ==
    /\ At(t, "chat")
    /\ fsm' = "chatting"
    /\ Goto(t, "commit")
    /\ UNCHANGED <<tickets, locks, chat>>

-----------------------------------------------------------------------------
(* Messages of the user (messages.py).                                      *)

\* gate_before_reason: neither a ticket nor a choice under way.
GateBeforeReason(t) ==
    /\ fsm \in {"none", "confirm"}
    /\ Start(t, [Idle EXCEPT !.pc = "ask_reason", !.op = "gate"])
    /\ UNCHANGED <<fsm, tickets, locks, chat>>

\* relay_to_admin: the state filter, then the newest open ticket.
Message(t) ==
    /\ fsm = "chatting"
    /\ Start(t, [Idle EXCEPT !.pc = "find_ticket", !.op = "message"])
    /\ UNCHANGED <<fsm, tickets, locks, chat>>

\* Mutant: no test for a missing ticket.
FindTicketUnchecked(t) ==
    /\ At(t, "find_ticket")
    /\ \/ Open = {} /\ Goto(t, "relay")
       \/ \E k \in Open :
             /\ \A j \in Open : j <= k
             /\ task' = [task EXCEPT ![t] = Loaded("relay", "message", k, ticket[k])]
    /\ UNCHANGED <<fsm, tickets, locks, chat>>

FindTicket(t) ==
    /\ At(t, "find_ticket")
    /\ \/ Open = {} /\ Goto(t, "ask_reason")
       \/ \E k \in Open :
             /\ \A j \in Open : j <= k
             /\ task' = [task EXCEPT ![t] = Loaded("relay", "message", k, ticket[k])]
    /\ UNCHANGED <<fsm, tickets, locks, chat>>

\* The copy and its buttons reach the admin chat first.  (A message that is
\* throttled, or that Telegram refuses, ends like one whose handler fails.)
RelayToAdmin(t) ==
    /\ At(t, "relay")
    /\ shown' = shown \cup {task[t].k}
    /\ task' = [task EXCEPT ![t].pc = "flush",
                            ![t].row.status = IF @ \in {"paid", "closed"}
                                              THEN @ ELSE "awaiting_admin"]
    /\ UNCHANGED <<fsm, tickets, locks, saved>>

-----------------------------------------------------------------------------
(* What admins do with a ticket (reply.py, status.py).                      *)

\* A reply to a message of ticket k, sent to the user before anything is written.
AdminReply(t, k) ==
    /\ k \in saved
    /\ Start(t, Loaded("flush", "reply", k,
                       [ticket[k] EXCEPT !.status =
                           IF @ \in {"new", "viewed", "awaiting_admin"} THEN "answered" ELSE @]))
    /\ UNCHANGED <<fsm, tickets, locks, chat>>

SetStatus(t, k, status) ==
    /\ k \in shown
    /\ Start(t, Loaded("flush", "status", k, [ticket[k] EXCEPT !.status = status]))
    /\ UNCHANGED <<fsm, tickets, locks, chat>>

CloseTicket(t, k) ==
    /\ k \in shown
    /\ Start(t, Loaded("flush", "close", k, ClosedTicket))
    /\ UNCHANGED <<fsm, tickets, locks, chat>>

\* close_ticket always writes closed_at.
Writes(t) == task[t].op = "close" \/ task[t].row # task[t].snap

\* session.flush(): an UPDATE, which waits for the row, if a column changed.
Flush(t) ==
    LET k == task[t].k IN
    /\ At(t, "flush")
    /\ \/ ~Writes(t) /\ UNCHANGED rowLock
       \/ /\ Writes(t)
          /\ rowLock[k] = None
          /\ rowLock' = [rowLock EXCEPT ![k] = t]
    /\ Goto(t, "commit")
    /\ UNCHANGED <<fsm, tickets, counterLock, chat>>

-----------------------------------------------------------------------------
(* Closing many tickets: close_open_tickets and auto_close.py.              *)

Inactive == {k \in Open : /\ ticket[k].status \notin {"closed", "paid"}
                          /\ age[k] = Timeout}

\* auto_close_inactive_tickets selects without a lock.
AutoCloseScan ==
    /\ Inactive # {}
    /\ Start(Loop, [Idle EXCEPT !.pc = "close_rows", !.op = "auto_close", !.batch = Inactive])
    /\ UNCHANGED <<fsm, tickets, locks, chat>>

\* Rows of the batch that are still to be locked; the ORM updates by primary key, a
\* bulk UPDATE in the order of its scan.
Rest(t) == {k \in task[t].batch : rowLock[k] # t}
NextRow(t, k) ==
    /\ k \in Rest(t)
    /\ task[t].op = "auto_close" => \A j \in Rest(t) : k <= j

\* The bulk UPDATE tests its condition again once it has the row; the ORM does not.
LockRow(t) ==
    /\ At(t, "close_rows")
    /\ \E k \in TicketIds :
          /\ NextRow(t, k)
          /\ rowLock[k] = None
          /\ \/ /\ task[t].op = "new" /\ ~ticket[k].open
                /\ task' = [task EXCEPT ![t].batch = @ \ {k}]
                /\ UNCHANGED rowLock
             \/ /\ task[t].op = "auto_close" \/ ticket[k].open
                /\ rowLock' = [rowLock EXCEPT ![k] = t]
                /\ UNCHANGED task
    /\ UNCHANGED <<fsm, tickets, counterLock, chat>>

RowsLocked(t) ==
    /\ At(t, "close_rows")
    /\ Rest(t) = {}
    /\ Goto(t, IF task[t].op = "new" THEN "ask_reason" ELSE "commit")
    /\ UNCHANGED <<fsm, tickets, locks, chat>>

-----------------------------------------------------------------------------
(* The end of a handler (middlewares/db.py) and of a round of the loop.     *)

\* What UPDATE leaves in the row of a ticket.
Net(cur, old, new) == IF new = old THEN cur ELSE new

\* Mutant: every column of the loaded instance is written.
UpdatedTicketWholeRow(cur, old, new) == new

UpdatedTicket(cur, old, new) ==
    [status |-> Net(cur.status, old.status, new.status),
     open   |-> Net(cur.open, old.open, new.open)]

\* updated_at is set by an UPDATE, and there is one only if a column changed.
CommitRow(t) ==
    LET k == task[t].k IN
    /\ At(t, "commit")
    /\ task[t].op \in {"message", "reply", "status", "close"}
    /\ \/ /\ Writes(t)
          /\ ticket' = [ticket EXCEPT ![k] = UpdatedTicket(@, task[t].snap, task[t].row)]
          /\ age' = [age EXCEPT ![k] = 0]
       \/ ~Writes(t) /\ UNCHANGED tickets
    /\ saved' = IF task[t].op = "message" THEN saved \cup {k} ELSE saved
    /\ ReleaseLocks(t)
    /\ Finish(t)
    /\ UNCHANGED <<fsm, shown>>

CommitTicket(t) ==
    /\ At(t, "commit")
    /\ task[t].op = "create"
    /\ \E k \in TicketIds :
          /\ ~Exists(k)
          /\ \A j \in TicketIds : j < k => Exists(j)
          /\ ticket' = [ticket EXCEPT ![k] = NewTicket]
          /\ age' = [age EXCEPT ![k] = 0]
    /\ ReleaseLocks(t)
    /\ Finish(t)
    /\ UNCHANGED <<fsm, chat>>

CommitClosed(t) ==
    /\ At(t, "commit")
    /\ task[t].op \in {"new", "auto_close"}
    /\ ticket' = [k \in TicketIds |-> IF k \in task[t].batch THEN ClosedTicket ELSE ticket[k]]
    /\ age' = [k \in TicketIds |-> IF k \in task[t].batch THEN 0 ELSE age[k]]
    /\ ReleaseLocks(t)
    /\ Finish(t)
    /\ UNCHANGED <<fsm, chat>>

\* Mutant: the session is not closed when a handler raises.
AbortWithoutRollback(t) ==
    /\ ~At(t, "idle")
    /\ Finish(t)
    /\ UNCHANGED <<fsm, tickets, locks, chat>>

\* Any await may raise: rolled back, but for the FSM and what Telegram has sent.
Abort(t) ==
    /\ ~At(t, "idle")
    /\ ReleaseLocks(t)
    /\ Finish(t)
    /\ UNCHANGED <<fsm, tickets, chat>>

\* Two handlers wait for each other's row: PostgreSQL aborts one of them.
WaitsFor(t, u) == At(t, "close_rows") /\ \E k \in TicketIds : NextRow(t, k) /\ rowLock[k] = u
DeadlockVictim(t) ==
    /\ \E u \in Tasks \cup {Loop} : WaitsFor(t, u) /\ WaitsFor(u, t)
    /\ Abort(t)

\* A part of the inactivity timeout passes; a closed ticket's updated_at is not read.
Tick ==
    /\ age' = [k \in TicketIds |-> IF k \in Open /\ age[k] < Timeout THEN age[k] + 1 ELSE age[k]]
    /\ UNCHANGED <<fsm, ticket, locks, chat, task>>

-----------------------------------------------------------------------------
Update(t) ==
    \/ StartCommand(t) \/ ConfirmNewTicket(t) \/ ChooseReason(t)
    \/ GateBeforeReason(t) \/ Message(t)
    \/ \E k \in TicketIds : AdminReply(t, k) \/ CloseTicket(t, k)
    \/ \E k \in TicketIds, status \in Choices : SetStatus(t, k, status)

Tap == ContinueTicket \/ CancelNewTicket \/ ChoosePurchase \/ BackToReasons

TaskStep(t) ==
    \/ AskConfirm(t) \/ AskReason(t) \/ TakeNumber(t) \/ StartChatting(t)
    \/ FindTicket(t) \/ RelayToAdmin(t) \/ Flush(t) \/ LockRow(t) \/ RowsLocked(t)
    \/ CommitRow(t) \/ CommitTicket(t) \/ CommitClosed(t)

Next ==
    \/ Tap \/ AutoCloseScan \/ Tick
    \/ \E t \in Tasks : Update(t)
    \/ \E t \in Tasks \cup {Loop} : TaskStep(t) \/ Abort(t)

Spec == Init /\ [][Next]_vars

\* The loop runs for ever; the waiters of a row are served in turn and a deadlock is
\* broken; queries and sends have timeouts.
FairSpec ==
    /\ Spec
    /\ WF_vars(AutoCloseScan)
    /\ \A t \in Tasks \cup {Loop} : SF_vars(TaskStep(t))
    /\ \A t \in Tasks : WF_vars(DeadlockVictim(t))

-----------------------------------------------------------------------------
(* Properties.                                                              *)

\* A ticket that was closed is never opened again, whatever instance loaded before
\* the closing a relay, a reply or a change of status flushes after it.
ClosedStaysClosed ==
    [][\A k \in TicketIds : Exists(k) /\ ~ticket[k].open => ~ticket'[k].open]_vars

\* A ticket nothing is written to for the length of the timeout is closed in the
\* end, unless it becomes paid or is marked closed, provided the loop's rounds do not
\* fail for ever: no handler keeps its row for good.
AbandonedTicketCloses ==
    <>[][~Abort(Loop)]_vars =>
        \A k \in TicketIds : k \in Inactive ~> k \notin Inactive

=============================================================================
