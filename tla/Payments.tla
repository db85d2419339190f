------------------------------ MODULE Payments ------------------------------
(***************************************************************************)
(* The payment desk of the bot: a user sends a receipt for a payment whose *)
(* requisites were sent to them, several admins review, edit, confirm,     *)
(* reject and cancel payments from the buttons of the admin chat.          *)
(*                                                                         *)
(* Every update is handled by an asyncio task of its own, in one database  *)
(* session that is committed when the handler returns and rolled back when *)
(* it raises (middlewares/db.py).  A task is cut into one step per await   *)
(* that reads or writes shared state.  The payments and tickets tables are *)
(* PostgreSQL tables at READ COMMITTED: a reader sees committed rows, a    *)
(* writer (FOR UPDATE or UPDATE) holds the lock of the row until its       *)
(* transaction ends.  The conversation state of an admin or a user (FSM)   *)
(* is stored in a transaction of its own and survives a rollback.          *)
(*                                                                         *)
(* The ORM keeps the instance a session has loaded (the identity map): a   *)
(* later SELECT ... FOR UPDATE of the same row locks it but does not       *)
(* refresh the instance, and a flush writes only the columns whose value   *)
(* differs from the loaded one.                                            *)
(***************************************************************************)
EXTENDS Naturals

CONSTANTS
    Tasks,         \* handler tasks that may run at the same time
    Admins,        \* the members of ADMIN_IDS
    PaymentIds,    \* primary keys of payments; the later payment is larger
    TicketIds,     \* tickets, each standing for its one user
    TicketOf,      \* the ticket a payment was requested for
    Amounts,       \* sums of money, as opaque values
    Requested,     \* requested_amount of each payment
    TypedAmounts,  \* sums an admin may type as a corrected amount
    None           \* no value

ASSUME ConstantsAssumption ==
    /\ PaymentIds \subseteq Nat
    /\ TicketOf \in [PaymentIds -> TicketIds]
    /\ Requested \in [PaymentIds -> Amounts]
    /\ TypedAmounts \subseteq Amounts
    /\ None \notin Tasks \cup Admins \cup PaymentIds \cup TicketIds \cup Amounts

VARIABLES
    payment,     \* committed rows of the payments table
    ticket,      \* committed rows of the tickets table
    payLock,     \* the task that holds the lock of a payments row
    ticketLock,  \* the task that holds the lock of a tickets row
    adminFsm,    \* FSM state and data of each admin
    userFsm,     \* FSM state of each ticket's user
    receiptKb,   \* payments whose receipt hangs in the admin chat with buttons
    amountKb,    \* <<payment, amount shown>> of the confirm-amount messages
    notified,    \* payments whose user was told of the confirmation
    unreachable, \* payments whose user Telegram refused to tell of it
    task         \* the running handlers

vars == <<payment, ticket, payLock, ticketLock, adminFsm, userFsm,
          receiptKb, amountKb, notified, unreachable, task>>

-----------------------------------------------------------------------------
PaymentStatus == {"pending", "receipt_sent", "confirmed", "rejected", "cancelled"}
TicketStatus == {"awaiting_payment", "paid", "closed"}

PaymentRow == [status: PaymentStatus, counted: BOOLEAN, amount: Amounts \cup {None}]
TicketRow == [status: TicketStatus, open: BOOLEAN]

NewPayment == [status |-> "pending", counted |-> FALSE, amount |-> None]
NewTicket == [status |-> "awaiting_payment", open |-> TRUE]

\* What UPDATE leaves in a column: `cur` is the committed value, `old` the value
\* the session loaded, `new` the value of the attribute at flush.
Net(cur, old, new) == IF new = old THEN cur ELSE new

\* Mutant: every column of the loaded instance is written.
UpdatedPaymentWholeRow(cur, old, new) == new

UpdatedPayment(cur, old, new) ==
    [status  |-> Net(cur.status, old.status, new.status),
     counted |-> Net(cur.counted, old.counted, new.counted),
     amount  |-> Net(cur.amount, old.amount, new.amount)]

UpdatedTicket(cur, old, new) ==
    [status |-> Net(cur.status, old.status, new.status),
     open   |-> Net(cur.open, old.open, new.open)]

-----------------------------------------------------------------------------
Pc == {"idle", "load", "lock", "reject", "cancel", "load_ticket", "flush_ticket",
       "notify", "clear_fsm", "clear_data", "find_ticket", "find_pending", "attach", "post",
       "save_amount", "commit"}

Op == {"none", "confirm", "reject", "cancel", "receipt", "close", "edit"}

\* A task: what it runs (op) and where it is (pc), its update (by, pay, tkt,
\* amount), the loaded rows (snap, tsnap) and the flushed ones (row, trow).
Task == [pc: Pc, op: Op, by: Admins \cup {None}, pay: PaymentIds \cup {None},
         tkt: TicketIds \cup {None}, amount: Amounts \cup {None},
         snap: PaymentRow, row: PaymentRow, tsnap: TicketRow, trow: TicketRow]

Idle == [pc |-> "idle", op |-> "none", by |-> None, pay |-> None, tkt |-> None,
         amount |-> None, snap |-> NewPayment, row |-> NewPayment,
         tsnap |-> NewTicket, trow |-> NewTicket]

\* reviewing_amount is "none" too: no filter asks for it.
FsmState == {"none", "editing_amount", "awaiting_reason"}

\* cancel_payment_id is read while a reason is awaited, and is None in other states.
AdminFsm == [state: FsmState, payment_id: PaymentIds \cup {None},
             cancel_payment_id: PaymentIds \cup {None}, pending_amount: Amounts \cup {None}]

EmptyFsm == [state |-> "none", payment_id |-> None, cancel_payment_id |-> None,
             pending_amount |-> None]

UserState == {"chatting", "awaiting_receipt", "choosing_reason"}

TypeOK ==
    /\ payment \in [PaymentIds -> PaymentRow]
    /\ ticket \in [TicketIds -> TicketRow]
    /\ payLock \in [PaymentIds -> Tasks \cup {None}]
    /\ ticketLock \in [TicketIds -> Tasks \cup {None}]
    /\ adminFsm \in [Admins -> AdminFsm]
    /\ userFsm \in [TicketIds -> UserState]
    /\ receiptKb \subseteq PaymentIds
    /\ amountKb \subseteq PaymentIds \X Amounts
    /\ notified \subseteq PaymentIds
    /\ unreachable \subseteq PaymentIds
    /\ task \in [Tasks -> Task]

\* Requisites were sent for every payment; nothing has been paid yet.
Init ==
    /\ payment = [p \in PaymentIds |-> NewPayment]
    /\ ticket = [k \in TicketIds |-> NewTicket]
    /\ payLock = [p \in PaymentIds |-> None]
    /\ ticketLock = [k \in TicketIds |-> None]
    /\ adminFsm = [a \in Admins |-> EmptyFsm]
    /\ userFsm = [k \in TicketIds |-> "chatting"]
    /\ receiptKb = {}
    /\ amountKb = {}
    /\ notified = {}
    /\ unreachable = {}
    /\ task = [t \in Tasks |-> Idle]

-----------------------------------------------------------------------------
\* Bookkeeping of tasks.
db == <<payment, ticket>>
locks == <<payLock, ticketLock>>
told == <<notified, unreachable>>
chats == <<receiptKb, amountKb, told>>
fsm == <<adminFsm, userFsm>>

At(t, pc) == task[t].pc = pc
Goto(t, pc) == task' = [task EXCEPT ![t].pc = pc]
Finish(t) == task' = [task EXCEPT ![t] = Idle]

\* A free task starts the handler of an update.
Start(t, new) ==
    /\ At(t, "idle")
    /\ task' = [task EXCEPT ![t] = new]

\* The row lock is free, or is this transaction's already.
MayLockPayment(t, p) == payLock[p] \in {None, t}
MayLockTicket(t, k) == ticketLock[k] \in {None, t}

\* Locks a transaction gives back when it ends.
ReleaseLocks(t) ==
    /\ payLock' = [p \in PaymentIds |-> IF payLock[p] = t THEN None ELSE payLock[p]]
    /\ ticketLock' = [k \in TicketIds |-> IF ticketLock[k] = t THEN None ELSE ticketLock[k]]

\* The rows whose lock a task needs for its next step.
NeedsPayment(t) ==
    \/ task[t].pc \in {"attach", "lock", "cancel"}
    \/ task[t].pc = "reject" /\ task[t].snap.status # "rejected"

NeedsTicket(t) ==
    /\ task[t].pc = "flush_ticket"
    /\ task[t].op = "confirm" => task[t].tsnap.status # "paid"

WaitsFor(t, u) ==
    /\ t # u
    /\ \/ NeedsPayment(t) /\ payLock[task[t].pay] = u
       \/ NeedsTicket(t) /\ ticketLock[task[t].tkt] = u

-----------------------------------------------------------------------------
(* The receipt: user_send_receipt, then a photo or a file (receipt.py).     *)

\* While a reason is to be chosen the reason router takes the button and drops it.
AskForReceipt(k) ==
    /\ userFsm[k] # "choosing_reason"
    /\ userFsm' = [userFsm EXCEPT ![k] = "awaiting_receipt"]
    /\ UNCHANGED <<db, locks, chats, adminFsm, task>>

\* The state filter looks at the FSM when the update comes in; an album of two
\* photos starts two handlers.
ReceiveReceipt(t, k) ==
    /\ userFsm[k] = "awaiting_receipt"
    /\ Start(t, [Idle EXCEPT !.pc = "find_ticket", !.op = "receipt", !.tkt = k])
    /\ UNCHANGED <<db, locks, chats, fsm>>

\* get_open_ticket
FindTicket(t) ==
    /\ At(t, "find_ticket")
    /\ \/ /\ ticket[task[t].tkt].open
          /\ Goto(t, "find_pending")
          /\ UNCHANGED userFsm
       \/ /\ ~ticket[task[t].tkt].open
          /\ userFsm' = [userFsm EXCEPT ![task[t].tkt] = "choosing_reason"]
          /\ Finish(t)
    /\ UNCHANGED <<db, locks, chats, adminFsm>>

Pending(k) == {p \in PaymentIds : /\ TicketOf[p] = k
                                  /\ payment[p].status \in {"pending", "receipt_sent"}}

\* get_latest_pending_payment
FindPending(t) ==
    /\ At(t, "find_pending")
    /\ \/ /\ Pending(task[t].tkt) = {}
          /\ Finish(t)
       \/ \E p \in Pending(task[t].tkt) :
             /\ \A q \in Pending(task[t].tkt) : q <= p
             /\ task' = [task EXCEPT ![t].pc = "attach", ![t].pay = p,
                                     ![t].snap = payment[p], ![t].row = payment[p]]
    /\ UNCHANGED <<db, locks, chats, fsm>>

\* attach_receipt always changes columns (file, time), so it waits for the row.
AttachReceipt(t) ==
    LET p == task[t].pay IN
    /\ At(t, "attach")
    /\ MayLockPayment(t, p)
    /\ payLock' = [payLock EXCEPT ![p] = t]
    /\ task' = [task EXCEPT ![t].pc = "post", ![t].row.status = "receipt_sent"]
    /\ userFsm' = [userFsm EXCEPT ![task[t].tkt] = "chatting"]
    /\ UNCHANGED <<db, ticketLock, chats, adminFsm>>

\* The receipt reaches the admin chat before the transaction commits.
PostReceipt(t) ==
    /\ At(t, "post")
    /\ receiptKb' = receiptKb \cup {task[t].pay}
    /\ Goto(t, "commit")
    /\ UNCHANGED <<db, locks, amountKb, told, fsm>>

-----------------------------------------------------------------------------
(* Reviewing and editing the amount: these handlers write only the FSM.     *)
(* set_state and update_data are two calls, each committed at once, and the *)
(* handler may fail between them: under the new state is then what an       *)
(* earlier question left in the data, or nothing.                           *)

\* What is in the FSM once a handler has asked: the amount typed last stays.
Fsm(a, state, payment_id, cancel_payment_id) ==
    [state |-> state, payment_id |-> payment_id, cancel_payment_id |-> cancel_payment_id,
     pending_amount |-> adminFsm[a].pending_amount]

\* payok; sending the message with the confirm button may fail too.
ReviewAmount(a, p) ==
    /\ p \in receiptKb
    /\ \E q \in {p, adminFsm[a].payment_id} :
          adminFsm' = [adminFsm EXCEPT ![a] = Fsm(a, "none", q, None)]
    /\ amountKb' \in {amountKb, amountKb \cup {<<p, Requested[p]>>}}
    /\ UNCHANGED <<db, locks, receiptKb, told, userFsm, task>>

\* payeditamount.
AskNewAmount(a, p) ==
    /\ \E x \in Amounts : <<p, x>> \in amountKb
    /\ \E q \in {p, adminFsm[a].payment_id} :
          adminFsm' = [adminFsm EXCEPT ![a] = Fsm(a, "editing_amount", q, None)]
    /\ UNCHANGED <<db, locks, chats, userFsm, task>>

\* A typed amount; the keyboard is shown before the amount is stored, and when
\* sending it fails the amount is not stored at all.  Without a payment_id in the
\* data the handler raises (KeyError) before it changes anything.
SetNewAmount(t, a, x) ==
    LET p == adminFsm[a].payment_id IN
    /\ adminFsm[a].state = "editing_amount"
    /\ p # None
    /\ At(t, "idle")
    /\ adminFsm' = [adminFsm EXCEPT ![a] = Fsm(a, "none", p, None)]
    /\ \/ /\ amountKb' = amountKb \cup {<<p, x>>}
          /\ Start(t, [Idle EXCEPT !.pc = "save_amount", !.op = "edit", !.by = a, !.amount = x])
       \/ UNCHANGED <<amountKb, task>>
    /\ UNCHANGED <<db, locks, receiptKb, told, userFsm>>

\* Mutant: the amount is stored under the key of the payment.
SaveAmountWrongKey(t) ==
    /\ At(t, "save_amount")
    /\ adminFsm' = [adminFsm EXCEPT ![task[t].by].payment_id = task[t].amount]
    /\ Finish(t)
    /\ UNCHANGED <<db, locks, chats, userFsm>>

SaveAmount(t) ==
    /\ At(t, "save_amount")
    /\ adminFsm' = [adminFsm EXCEPT ![task[t].by].pending_amount = task[t].amount]
    /\ Finish(t)
    /\ UNCHANGED <<db, locks, chats, userFsm>>

\* paycancelflow and /cancel: clear() empties the state and then the data.
CancelFlow(a) ==
    /\ \E left \in {EmptyFsm, Fsm(a, "none", adminFsm[a].payment_id, None)} :
          adminFsm' = [adminFsm EXCEPT ![a] = left]
    /\ UNCHANGED <<db, locks, chats, userFsm, task>>

\* /cancel_payment: the number typed now or, when it is not stored, one that some admin has
\* typed earlier, or none.
CancelPaymentCmd(a) ==
    /\ \E p \in PaymentIds \cup {None} : adminFsm' = [adminFsm EXCEPT ![a] =
          Fsm(a, "awaiting_reason", adminFsm[a].payment_id, p)]
    /\ UNCHANGED <<db, locks, chats, userFsm, task>>

-----------------------------------------------------------------------------
(* payconfirm: do_confirm and confirm_payment.                              *)

\* The button names the payment; the amount is the one in the admin's FSM data.
DoConfirm(t, a, p) ==
    /\ \E x \in Amounts : <<p, x>> \in amountKb
    /\ Start(t, [Idle EXCEPT !.pc = "load", !.op = "confirm", !.by = a, !.pay = p,
                             !.tkt = TicketOf[p], !.amount = adminFsm[a].pending_amount])
    /\ UNCHANGED <<db, locks, chats, fsm>>

\* get_payment: the instance confirm_payment works on; the requested amount stands
\* in for an amount that was not edited.
LoadPayment(t) ==
    LET p == task[t].pay IN
    /\ At(t, "load")
    /\ task' = [task EXCEPT ![t].pc = "lock",
                            ![t].amount = IF @ = None THEN Requested[p] ELSE @,
                            ![t].snap = payment[p], ![t].row = payment[p]]
    /\ UNCHANGED <<db, locks, chats, fsm>>

\* FOR UPDATE waits for the row; the guard tests the instance loaded before.
ConfirmPayment(t) ==
    LET p == task[t].pay IN
    /\ At(t, "lock")
    /\ MayLockPayment(t, p)
    /\ payLock' = [payLock EXCEPT ![p] = t]
    /\ task' = [task EXCEPT ![t].pc = "load_ticket", ![t].amount = None,
                   ![t].row = IF task[t].snap.counted
                              THEN @
                              ELSE [status |-> "confirmed", counted |-> TRUE,
                                    amount |-> task[t].amount]]
    /\ UNCHANGED <<db, ticketLock, chats, fsm>>

\* confirm_payment returned newly_counted
NewlyCounted(t) == ~task[t].snap.counted

\* get_ticket_by_id
LoadTicket(t) ==
    LET k == task[t].tkt IN
    /\ At(t, "load_ticket")
    /\ task' = [task EXCEPT ![t].pc = "flush_ticket",
                            ![t].tsnap = ticket[k], ![t].trow = ticket[k]]
    /\ UNCHANGED <<db, locks, chats, fsm>>

\* Mutant: the user is told only of a payment that awaited its review, and so not when
\* a rejected receipt is confirmed after all.
MarkPaidQuiet(t) ==
    LET k == task[t].tkt IN
    /\ At(t, "flush_ticket")
    /\ task[t].op = "confirm"
    /\ \/ /\ task[t].tsnap.status = "paid"
          /\ UNCHANGED ticketLock
       \/ /\ task[t].tsnap.status # "paid"
          /\ MayLockTicket(t, k)
          /\ ticketLock' = [ticketLock EXCEPT ![k] = t]
    /\ task' = [task EXCEPT ![t].pc = IF NewlyCounted(t) /\ task[t].snap.status = "receipt_sent"
                                      THEN "notify" ELSE "clear_fsm",
                            ![t].trow.status = "paid"]
    /\ UNCHANGED <<db, payLock, chats, fsm>>

\* do_confirm marks the ticket paid; nothing is written when it already was.
MarkPaid(t) ==
    LET k == task[t].tkt IN
    /\ At(t, "flush_ticket")
    /\ task[t].op = "confirm"
    /\ \/ /\ task[t].tsnap.status = "paid"
          /\ UNCHANGED ticketLock
       \/ /\ task[t].tsnap.status # "paid"
          /\ MayLockTicket(t, k)
          /\ ticketLock' = [ticketLock EXCEPT ![k] = t]
    /\ task' = [task EXCEPT ![t].pc = IF NewlyCounted(t) THEN "notify" ELSE "clear_fsm",
                            ![t].trow.status = "paid"]
    /\ UNCHANGED <<db, payLock, chats, fsm>>

\* The user is told, or has blocked the bot: then UserUnreachable is passed over and the
\* payment is counted all the same.  (An attempt answered with a network error may have
\* arrived before.)
NotifyUser(t) ==
    /\ At(t, "notify")
    /\ \/ /\ notified' = notified \cup {task[t].pay}
          /\ UNCHANGED unreachable
       \/ /\ unreachable' = unreachable \cup {task[t].pay}
          /\ notified' \in {notified, notified \cup {task[t].pay}}
    /\ Goto(t, "clear_fsm")
    /\ UNCHANGED <<db, locks, receiptKb, amountKb, fsm>>

\* state.clear() is stored at once, whatever becomes of the transaction: the state ...
ClearFsm(t) ==
    /\ At(t, "clear_fsm")
    /\ adminFsm' = [adminFsm EXCEPT ![task[t].by] =
                       Fsm(task[t].by, "none", adminFsm[task[t].by].payment_id, None)]
    /\ Goto(t, "clear_data")
    /\ UNCHANGED <<db, locks, chats, userFsm>>

\* ... and then the data, of whatever flow the admin has begun meanwhile.
ClearData(t) ==
    /\ At(t, "clear_data")
    /\ adminFsm' = [adminFsm EXCEPT ![task[t].by] =
                       [EmptyFsm EXCEPT !.state = adminFsm[task[t].by].state]]
    /\ Goto(t, "commit")
    /\ UNCHANGED <<db, locks, chats, userFsm>>

-----------------------------------------------------------------------------
(* payreject: do_reject and reject_receipt; payretry changes nothing.       *)

\* get_payment comes first: nothing else is read before it.
DoReject(t, p) ==
    /\ p \in receiptKb
    /\ Start(t, [Idle EXCEPT !.pc = "reject", !.op = "reject", !.pay = p,
                             !.snap = payment[p], !.row = payment[p]])
    /\ UNCHANGED <<db, locks, chats, fsm>>

\* reject_receipt: no lock of its own, no look at the status; a status that is
\* rejected already is not written again.
RejectReceipt(t) ==
    LET p == task[t].pay IN
    /\ At(t, "reject")
    /\ \/ /\ task[t].snap.status = "rejected"
          /\ UNCHANGED payLock
       \/ /\ task[t].snap.status # "rejected"
          /\ MayLockPayment(t, p)
          /\ payLock' = [payLock EXCEPT ![p] = t]
    /\ task' = [task EXCEPT ![t].pc = "commit", ![t].row.status = "rejected"]
    /\ UNCHANGED <<db, ticketLock, chats, fsm>>

-----------------------------------------------------------------------------
(* The reason of a cancellation: cancel_confirmed_payment reads the row     *)
(* first under the lock.                                                    *)

\* Raises without a cancel_payment_id in the data.
CancelPaymentReason(t, a) ==
    /\ adminFsm[a].state = "awaiting_reason"
    /\ adminFsm[a].cancel_payment_id # None
    /\ Start(t, [Idle EXCEPT !.pc = "cancel", !.op = "cancel", !.by = a,
                             !.pay = adminFsm[a].cancel_payment_id])
    /\ UNCHANGED <<db, locks, chats, fsm>>

\* Mutant: the flag is left set.
CancelKeepsFlag(t) ==
    LET p == task[t].pay IN
    /\ At(t, "cancel")
    /\ MayLockPayment(t, p)
    /\ payLock' = [payLock EXCEPT ![p] = t]
    /\ task' = [task EXCEPT ![t].pc = "clear_fsm", ![t].snap = payment[p],
                   ![t].row = IF payment[p].status = "confirmed"
                              THEN [payment[p] EXCEPT !.status = "cancelled"]
                              ELSE payment[p]]
    /\ UNCHANGED <<db, ticketLock, chats, fsm>>

\* Mutant: any status is cancelled.
CancelWithoutGuard(t) ==
    LET p == task[t].pay IN
    /\ At(t, "cancel")
    /\ MayLockPayment(t, p)
    /\ payLock' = [payLock EXCEPT ![p] = t]
    /\ task' = [task EXCEPT ![t].pc = "clear_fsm", ![t].snap = payment[p],
                   ![t].row = [payment[p] EXCEPT !.status = "cancelled", !.counted = FALSE]]
    /\ UNCHANGED <<db, ticketLock, chats, fsm>>

CancelConfirmedPayment(t) ==
    LET p == task[t].pay IN
    /\ At(t, "cancel")
    /\ MayLockPayment(t, p)
    /\ payLock' = [payLock EXCEPT ![p] = t]
    /\ task' = [task EXCEPT ![t].pc = "clear_fsm", ![t].snap = payment[p],
                   ![t].row = IF payment[p].status = "confirmed"
                              THEN [payment[p] EXCEPT !.status = "cancelled", !.counted = FALSE]
                              ELSE payment[p]]
    /\ UNCHANGED <<db, ticketLock, chats, fsm>>

-----------------------------------------------------------------------------
(* close: close_ticket; closed_at always changes, so it waits for the row.  *)

CloseTicket(t, k) ==
    /\ Start(t, [Idle EXCEPT !.pc = "flush_ticket", !.op = "close", !.tkt = k,
                             !.tsnap = ticket[k], !.trow = ticket[k]])
    /\ UNCHANGED <<db, locks, chats, fsm>>

MarkClosed(t) ==
    LET k == task[t].tkt IN
    /\ At(t, "flush_ticket")
    /\ task[t].op = "close"
    /\ MayLockTicket(t, k)
    /\ ticketLock' = [ticketLock EXCEPT ![k] = t]
    /\ task' = [task EXCEPT ![t].pc = "commit",
                            ![t].trow = [status |-> "closed", open |-> FALSE]]
    /\ UNCHANGED <<db, payLock, chats, fsm>>

-----------------------------------------------------------------------------
(* DbSessionMiddleware: the end of every handler.                           *)

Commit(t) ==
    /\ At(t, "commit")
    /\ payment' = [p \in PaymentIds |->
                      IF p = task[t].pay
                      THEN UpdatedPayment(payment[p], task[t].snap, task[t].row)
                      ELSE payment[p]]
    /\ ticket' = [k \in TicketIds |->
                      IF k = task[t].tkt
                      THEN UpdatedTicket(ticket[k], task[t].tsnap, task[t].trow)
                      ELSE ticket[k]]
    /\ ReleaseLocks(t)
    /\ Finish(t)
    /\ UNCHANGED <<chats, fsm>>

\* Mutant: the session is not closed when a handler raises.
AbortWithoutRollback(t) ==
    /\ ~At(t, "idle")
    /\ Finish(t)
    /\ UNCHANGED <<db, locks, chats, fsm>>

\* Any await may raise (Telegram, the database, a restart of the process): the
\* session is rolled back, messages already sent and FSM writes stay.
Abort(t) ==
    /\ ~At(t, "idle")
    /\ ReleaseLocks(t)
    /\ Finish(t)
    /\ UNCHANGED <<db, chats, fsm>>

-----------------------------------------------------------------------------
Update(t) ==
    \/ \E k \in TicketIds : ReceiveReceipt(t, k) \/ CloseTicket(t, k)
    \/ \E a \in Admins : CancelPaymentReason(t, a)
    \/ \E a \in Admins, p \in PaymentIds : DoConfirm(t, a, p)
    \/ \E a \in Admins, x \in TypedAmounts : SetNewAmount(t, a, x)
    \/ \E p \in PaymentIds : DoReject(t, p)

ChatStep ==
    \/ \E k \in TicketIds : AskForReceipt(k)
    \/ \E a \in Admins : CancelFlow(a) \/ CancelPaymentCmd(a)
    \/ \E a \in Admins, p \in PaymentIds : ReviewAmount(a, p) \/ AskNewAmount(a, p)

TaskStep(t) ==
    \/ FindTicket(t) \/ FindPending(t) \/ AttachReceipt(t) \/ PostReceipt(t)
    \/ SaveAmount(t)
    \/ LoadPayment(t) \/ ConfirmPayment(t) \/ LoadTicket(t) \/ MarkPaid(t)
    \/ NotifyUser(t) \/ ClearFsm(t) \/ ClearData(t)
    \/ RejectReceipt(t) \/ CancelConfirmedPayment(t) \/ MarkClosed(t)
    \/ Commit(t)

Next ==
    \/ ChatStep
    \/ \E t \in Tasks : Update(t) \/ TaskStep(t) \/ Abort(t)

Spec == Init /\ [][Next]_vars

-----------------------------------------------------------------------------
(* Properties.                                                              *)

\* The status the desk shows and the flag the finance report sums up do not
\* contradict each other: a confirmed payment is in the revenue with an amount,
\* a cancelled one is not in it.
StatusMatchesRevenue ==
    \A p \in PaymentIds :
        /\ payment[p].status = "confirmed" => payment[p].counted /\ payment[p].amount \in Amounts
        /\ payment[p].status = "cancelled" => ~payment[p].counted

\* Money is in the revenue only if its user has been told of the confirmation, or could
\* not be told: the bot tried, and Telegram refused.
CountedUserNotified ==
    \A p \in PaymentIds : payment[p].counted => p \in notified \cup unreachable

\* The counted flag falls only by the cancellation of a payment that is confirmed
\* at that moment, whatever stale instances other handlers flush.
CountedFallsOnlyByCancel ==
    [][\A p \in PaymentIds :
          payment[p].counted /\ ~payment'[p].counted =>
             payment[p].status = "confirmed" /\ payment'[p].status = "cancelled"]_vars

\* A cancellation only ever hits a payment that is confirmed at that moment.
OnlyConfirmedIsCancelled ==
    [][\A p \in PaymentIds :
          payment[p].status # "cancelled" /\ payment'[p].status = "cancelled" =>
             payment[p].status = "confirmed"]_vars

\* The row a handler waits for is held by a handler that runs, which may itself wait for a
\* ticket, but only for one whose holder waits for nothing: payments are locked before
\* tickets, so nobody waits in a circle, and a lock does not outlive its handler.
WaitsEnd ==
    \A t, u \in Tasks : WaitsFor(t, u) =>
        /\ ~At(u, "idle")
        /\ \A v \in Tasks : WaitsFor(u, v) =>
              /\ ~At(v, "idle")
              /\ \A w \in Tasks : ~WaitsFor(v, w)

\* The README: the sum enters the revenue only after the admin was asked to check
\* it. The amount booked is one that was shown for that payment.
AmountWasReviewed ==
    \A p \in PaymentIds : payment[p].counted => <<p, payment[p].amount>> \in amountKb

=============================================================================
