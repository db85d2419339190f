--------------------------- MODULE PaymentsProofs ---------------------------
(***************************************************************************)
(* Theorems about Payments, for any number of tasks, admins, payments,     *)
(* tickets and amounts.                                                    *)
(*                                                                         *)
(* The invariants of the table are not inductive alone: they hold because  *)
(* of what the running transactions may still write.  WriteIsSafe lists    *)
(* the writes there are: none, a status other than "confirmed" and         *)
(* "cancelled", a confirmation decided on an instance that was not         *)
(* counted, a cancellation decided on the row as it still is.              *)
(***************************************************************************)
EXTENDS Payments, TLAPS

\* What a program counter says of the task's parameters.
PcMatchesTask(t) ==
    /\ task[t].pc \in {"reject", "cancel", "attach", "post"} \/ task[t].op = "confirm" =>
          task[t].pay \in PaymentIds
    /\ task[t].pc \in {"load", "lock", "reject", "cancel", "attach"} =>
          task[t].row = task[t].snap
    /\ task[t].pc \in {"load", "lock", "notify"} => task[t].op = "confirm"
    /\ task[t].pc = "lock" => task[t].amount \in Amounts
    /\ task[t].pc \in {"load", "lock", "load_ticket", "flush_ticket"} =>
          task[t].tkt \in TicketIds

\* A task that is going to change a payment holds its lock.
DirtyHoldsLock(t) ==
    task[t].row # task[t].snap =>
        task[t].pay \in PaymentIds /\ payLock[task[t].pay] = t

\* The loaded instance was consistent, and an amount once booked stays booked.
SnapIsConsistent(t) ==
    /\ task[t].snap.status = "confirmed" => task[t].snap.counted
    /\ task[t].pay \in PaymentIds /\ task[t].snap.amount \in Amounts =>
          payment[task[t].pay].amount \in Amounts

ConfirmWrite(t) ==
    /\ ~task[t].snap.counted
    /\ task[t].row.status = "confirmed"
    /\ task[t].row.counted
    /\ task[t].row.amount \in Amounts

CancelWrite(t) ==
    /\ task[t].snap = payment[task[t].pay]
    /\ task[t].snap.status = "confirmed"
    /\ task[t].row.status = "cancelled"
    /\ ~task[t].row.counted
    /\ task[t].row.amount = task[t].snap.amount

StatusWrite(t) ==
    /\ task[t].row.status \in {"rejected", "receipt_sent"}
    /\ task[t].row.counted = task[t].snap.counted
    /\ task[t].row.amount = task[t].snap.amount

WriteIsSafe(t) ==
    task[t].row # task[t].snap => StatusWrite(t) \/ ConfirmWrite(t) \/ CancelWrite(t)

\* A confirmation that is going to count a payment first tells the user, or tries to.
NotifiesFirst(t) ==
    task[t].row.counted /\ ~task[t].snap.counted =>
        /\ task[t].op = "confirm"
        /\ task[t].pc \in {"load_ticket", "flush_ticket", "notify", "clear_fsm", "clear_data",
                          "commit"}
        /\ task[t].pc \in {"clear_fsm", "clear_data", "commit"} =>
              task[t].pay \in notified \cup unreachable

TaskInv(t) ==
    /\ PcMatchesTask(t)
    /\ DirtyHoldsLock(t)
    /\ SnapIsConsistent(t)
    /\ WriteIsSafe(t)
    /\ NotifiesFirst(t)

IInv ==
    /\ TypeOK
    /\ \A t \in Tasks : TaskInv(t)
    /\ StatusMatchesRevenue
    /\ CountedUserNotified

-----------------------------------------------------------------------------
(* What the helpers return.                                                 *)

\* A row updated column by column is a row.
LEMMA UpdatedPaymentType ==
    ASSUME NEW cur \in PaymentRow, NEW old \in PaymentRow, NEW new \in PaymentRow
    PROVE  UpdatedPayment(cur, old, new) \in PaymentRow
  BY DEF UpdatedPayment, Net, PaymentRow

LEMMA UpdatedTicketType ==
    ASSUME NEW cur \in TicketRow, NEW old \in TicketRow, NEW new \in TicketRow
    PROVE  UpdatedTicket(cur, old, new) \in TicketRow
  BY DEF UpdatedTicket, Net, TicketRow

\* A transaction that has changed nothing leaves the row as it is committed.
LEMMA CleanUpdate ==
    ASSUME NEW cur \in PaymentRow, NEW old \in PaymentRow
    PROVE  UpdatedPayment(cur, old, old) = cur
  BY DEF UpdatedPayment, Net, PaymentRow

\* The values the handlers write have the types of their fields.
LEMMA WrittenRows ==
    /\ \A r \in PaymentRow :
          [r EXCEPT !.status = "cancelled", !.counted = FALSE] \in PaymentRow
    /\ \A x \in Amounts :
          [status |-> "confirmed", counted |-> TRUE, amount |-> x] \in PaymentRow
    /\ [status |-> "closed", open |-> FALSE] \in TicketRow
  BY DEF PaymentRow, PaymentStatus, TicketRow, TicketStatus

LEMMA Labels ==
    /\ {"idle", "load", "lock", "reject", "cancel", "load_ticket", "flush_ticket",
        "notify", "clear_fsm", "clear_data", "find_ticket", "find_pending", "attach", "post",
        "save_amount", "commit"} \subseteq Pc
    /\ {"none", "confirm", "reject", "cancel", "receipt", "close", "edit"} \subseteq Op
  BY DEF Pc, Op

LEMMA IdleType == Idle \in Task
  BY DEF Idle, Task, Pc, Op, NewPayment, NewTicket, PaymentRow, TicketRow,
         PaymentStatus, TicketStatus

LEMMA EmptyFsmType == EmptyFsm \in AdminFsm
  BY DEF EmptyFsm, AdminFsm, FsmState

LEMMA FsmType ==
    ASSUME TypeOK, NEW a \in Admins, NEW s \in FsmState,
           NEW p \in PaymentIds \cup {None}, NEW q \in PaymentIds \cup {None}
    PROVE  Fsm(a, s, p, q) \in AdminFsm
  <1>1. adminFsm[a].pending_amount \in Amounts \cup {None}
    BY DEF TypeOK, AdminFsm
  <1> QED
    BY <1>1 DEF Fsm, AdminFsm

-----------------------------------------------------------------------------
(* Steps that change no row of the payments table: it is enough to look at  *)
(* the task that moves.                                                     *)

\* A task that does not move keeps its part of the invariant, and the table
\* keeps its own, when a step of another task commits no payment.
LEMMA StepOfOne ==
    ASSUME IInv, TypeOK', payment' = payment,
           notified \subseteq notified', unreachable \subseteq unreachable',
           NEW t \in Tasks, TaskInv(t)',
           \A u \in Tasks \ {t} : task'[u] = task[u],
           \A u \in Tasks \ {t} : \A p \in PaymentIds : payLock[p] = u => payLock'[p] = u
    PROVE  IInv'
  <1>1. ASSUME NEW u \in Tasks, u # t PROVE TaskInv(u)'
    <2>1. task'[u] = task[u] /\ TaskInv(u)
      BY <1>1 DEF IInv
    <2>2. PcMatchesTask(u)' /\ SnapIsConsistent(u)' /\ NotifiesFirst(u)'
      BY <2>1 DEF TaskInv, PcMatchesTask, SnapIsConsistent, NotifiesFirst
    <2>3. DirtyHoldsLock(u)'
      BY <1>1, <2>1 DEF TaskInv, DirtyHoldsLock
    <2>4. WriteIsSafe(u)'
      BY <2>1 DEF TaskInv, WriteIsSafe, StatusWrite, ConfirmWrite, CancelWrite
    <2> QED
      BY <2>2, <2>3, <2>4 DEF TaskInv
  <1>2. StatusMatchesRevenue' /\ CountedUserNotified'
    BY DEF IInv, StatusMatchesRevenue, CountedUserNotified
  <1> QED
    BY <1>1, <1>2 DEF IInv

\* An idle task satisfies its part of the invariant.
LEMMA IdleInv ==
    ASSUME NEW t \in Tasks, task'[t] = Idle
    PROVE  TaskInv(t)'
  <1>1. /\ task'[t].pc = "idle" /\ task'[t].row = task'[t].snap
        /\ task'[t].pay = None /\ task'[t].op = "none"
        /\ task'[t].snap.status = "pending" /\ ~task'[t].snap.counted
    BY DEF Idle, NewPayment
  <1>2. None \notin PaymentIds
    BY ConstantsAssumption
  <1> QED
    BY <1>1, <1>2 DEF TaskInv, PcMatchesTask, DirtyHoldsLock, SnapIsConsistent,
                      WriteIsSafe, NotifiesFirst

-----------------------------------------------------------------------------
(* Updates that start a handler.                                            *)

\* A receipt handler starts clean.
LEMMA ReceiveReceiptKeeps ==
    ASSUME IInv, NEW t \in Tasks, NEW k \in TicketIds, ReceiveReceipt(t, k)
    PROVE  IInv'
  <1>1. task[t] \in Task /\ TypeOK /\ TaskInv(t)
    BY DEF IInv, TypeOK
  <1>2. task' \in [Tasks -> Task]
    BY <1>1, Labels, IdleType DEF ReceiveReceipt, Task, TypeOK, Start
  <1>3. TypeOK'
    BY <1>1, <1>2 DEF ReceiveReceipt, TypeOK, db, locks, chats, told, fsm
  <1>4. /\ \A u \in Tasks \ {t} : task'[u] = task[u]
        /\ task'[t].pc = "find_ticket" /\ task'[t].op = "receipt"
        /\ task'[t].row = task'[t].snap
        /\ task'[t].snap = NewPayment
        /\ task'[t].pay = None
    BY <1>1 DEF ReceiveReceipt, Start, Idle, TypeOK
  <1>5. TaskInv(t)'
    BY <1>1, <1>4, ConstantsAssumption DEF TaskInv, PcMatchesTask,
       DirtyHoldsLock, SnapIsConsistent, WriteIsSafe, NotifiesFirst, NewPayment
  <1> QED
    BY <1>2, <1>3, <1>4, <1>5, StepOfOne DEF ReceiveReceipt, db, locks,
       chats, told

\* Closing a ticket touches no payment.
LEMMA CloseTicketKeeps ==
    ASSUME IInv, NEW t \in Tasks, NEW k \in TicketIds, CloseTicket(t, k)
    PROVE  IInv'
  <1>1. task[t] \in Task /\ TypeOK /\ TaskInv(t)
    BY DEF IInv, TypeOK
  <1>0. ticket[k] \in TicketRow
    BY DEF IInv, TypeOK
  <1>2. task' \in [Tasks -> Task]
    BY <1>1, Labels, <1>0, IdleType DEF CloseTicket, Task, TypeOK, Start
  <1>3. TypeOK'
    BY <1>1, <1>2 DEF CloseTicket, TypeOK, db, locks, chats, told, fsm
  <1>4. /\ \A u \in Tasks \ {t} : task'[u] = task[u]
        /\ task'[t].pc = "flush_ticket" /\ task'[t].op = "close"
        /\ task'[t].row = task'[t].snap
        /\ task'[t].snap = NewPayment
        /\ task'[t].pay = None /\ task'[t].tkt = k
    BY <1>1, <1>0 DEF CloseTicket, Start, Idle, TypeOK
  <1>5. TaskInv(t)'
    BY <1>1, <1>4, ConstantsAssumption DEF TaskInv, PcMatchesTask,
       DirtyHoldsLock, SnapIsConsistent, WriteIsSafe, NotifiesFirst, NewPayment
  <1> QED
    BY <1>2, <1>3, <1>4, <1>5, StepOfOne DEF CloseTicket, db, locks, chats, told

\* Typing an amount touches no payment, whether the keyboard could be shown or not.
LEMMA SetNewAmountKeeps ==
    ASSUME IInv, NEW t \in Tasks, NEW a \in Admins, NEW x \in TypedAmounts,
           SetNewAmount(t, a, x)
    PROVE  IInv'
  <1>1. /\ x \in Amounts
        /\ adminFsm[a] \in AdminFsm
        /\ adminFsm[a].payment_id \in PaymentIds
        /\ TypeOK /\ TaskInv(t)
    BY ConstantsAssumption DEF IInv, TypeOK, AdminFsm, SetNewAmount
  <1>2. adminFsm' \in [Admins -> AdminFsm]
    BY <1>1, FsmType DEF SetNewAmount, TypeOK, FsmState
  <1>3. amountKb' \subseteq PaymentIds \X Amounts
    BY <1>1 DEF SetNewAmount, TypeOK, chats
  <1>4. CASE UNCHANGED task
    <2>1. TypeOK'
      BY <1>1, <1>2, <1>3, <1>4 DEF SetNewAmount, TypeOK, db, locks, chats, told
    <2>2. TaskInv(t)'
      BY <1>1, <1>4 DEF SetNewAmount, TaskInv, PcMatchesTask, DirtyHoldsLock,
         SnapIsConsistent, WriteIsSafe, NotifiesFirst, StatusWrite, ConfirmWrite,
         CancelWrite, db, locks, chats, told
    <2> QED
      BY <1>2, <1>4, <2>1, <2>2, StepOfOne DEF SetNewAmount, db, locks, chats, told
  <1>5. CASE task' = [task EXCEPT ![t] = [Idle EXCEPT !.pc = "save_amount", !.op = "edit",
                                                     !.by = a, !.amount = x]]
    <2>1. task' \in [Tasks -> Task]
      BY <1>1, <1>5, IdleType, Labels DEF Task, TypeOK
    <2>2. TypeOK'
      BY <1>1, <1>2, <1>3, <2>1 DEF SetNewAmount, TypeOK, db, locks, chats, told
    <2>3. /\ \A u \in Tasks \ {t} : task'[u] = task[u]
          /\ task'[t].pc = "save_amount" /\ task'[t].op = "edit"
          /\ task'[t].row = task'[t].snap /\ task'[t].snap = NewPayment
          /\ task'[t].pay = None
      BY <1>1, <1>5 DEF Idle, TypeOK
    <2>4. TaskInv(t)'
      BY <2>3, ConstantsAssumption DEF TaskInv, PcMatchesTask, DirtyHoldsLock,
         SnapIsConsistent, WriteIsSafe, NotifiesFirst, NewPayment
    <2> QED
      BY <1>2, <2>2, <2>3, <2>4, StepOfOne DEF SetNewAmount, db, locks, chats, told
  <1> QED
    BY <1>4, <1>5 DEF SetNewAmount, Start, chats

\* A confirmation starts clean.
LEMMA DoConfirmKeeps ==
    ASSUME IInv, NEW t \in Tasks, NEW a \in Admins, NEW p \in PaymentIds, DoConfirm(t, a, p)
    PROVE  IInv'
  <1>1. task[t] \in Task /\ TypeOK /\ TaskInv(t)
    BY DEF IInv, TypeOK
  <1>0. /\ TicketOf[p] \in TicketIds
        /\ adminFsm[a].pending_amount \in Amounts \cup {None}
    BY ConstantsAssumption DEF IInv, TypeOK, AdminFsm
  <1>2. task' \in [Tasks -> Task]
    BY <1>1, Labels, <1>0, IdleType DEF DoConfirm, Task, TypeOK, Start
  <1>3. TypeOK'
    BY <1>1, <1>2 DEF DoConfirm, TypeOK, db, locks, chats, told, fsm
  <1>4. /\ \A u \in Tasks \ {t} : task'[u] = task[u]
        /\ task'[t].pc = "load" /\ task'[t].op = "confirm"
        /\ task'[t].pay = p /\ task'[t].tkt = TicketOf[p]
        /\ task'[t].row = task'[t].snap
        /\ task'[t].snap = NewPayment
    BY <1>1, <1>0 DEF DoConfirm, Start, Idle, TypeOK
  <1>5. TaskInv(t)'
    BY <1>1, <1>4, ConstantsAssumption DEF TaskInv, PcMatchesTask,
       DirtyHoldsLock, SnapIsConsistent, WriteIsSafe, NotifiesFirst, NewPayment
  <1> QED
    BY <1>2, <1>3, <1>4, <1>5, StepOfOne DEF DoConfirm, db, locks, chats, told

\* A rejection starts with the committed row.
LEMMA DoRejectKeeps ==
    ASSUME IInv, NEW t \in Tasks, NEW p \in PaymentIds, DoReject(t, p)
    PROVE  IInv'
  <1>1. task[t] \in Task /\ TypeOK /\ TaskInv(t)
    BY DEF IInv, TypeOK
  <1>0. /\ payment[p] \in PaymentRow
        /\ payment[p].status = "confirmed" => payment[p].counted
    BY DEF IInv, TypeOK, StatusMatchesRevenue
  <1>2. task' \in [Tasks -> Task]
    BY <1>1, Labels, <1>0, IdleType DEF DoReject, Task, TypeOK, Start
  <1>3. TypeOK'
    BY <1>1, <1>2 DEF DoReject, TypeOK, db, locks, chats, told, fsm
  <1>4. /\ \A u \in Tasks \ {t} : task'[u] = task[u]
        /\ task'[t].pc = "reject" /\ task'[t].pay = p
        /\ task'[t].row = payment[p] /\ task'[t].snap = payment[p]
    BY <1>1, <1>0 DEF DoReject, Start, Idle, TypeOK
  <1>5. TaskInv(t)'
    BY <1>1, <1>4, <1>0 DEF TaskInv, PcMatchesTask, DirtyHoldsLock,
       SnapIsConsistent, WriteIsSafe, NotifiesFirst, DoReject, db
  <1> QED
    BY <1>2, <1>3, <1>4, <1>5, StepOfOne DEF DoReject, db, locks, chats, told

\* A cancellation starts clean.
LEMMA CancelPaymentReasonKeeps ==
    ASSUME IInv, NEW t \in Tasks, NEW a \in Admins, CancelPaymentReason(t, a)
    PROVE  IInv'
  <1>1. task[t] \in Task /\ TypeOK /\ TaskInv(t)
    BY DEF IInv, TypeOK
  <1>0. adminFsm[a].cancel_payment_id \in PaymentIds
    BY DEF IInv, TypeOK, AdminFsm, CancelPaymentReason
  <1>2. task' \in [Tasks -> Task]
    BY <1>1, Labels, <1>0, IdleType DEF CancelPaymentReason, Task, TypeOK, Start
  <1>3. TypeOK'
    BY <1>1, <1>2 DEF CancelPaymentReason, TypeOK, db, locks, chats, told, fsm
  <1>4. /\ \A u \in Tasks \ {t} : task'[u] = task[u]
        /\ task'[t].pc = "cancel" /\ task'[t].pay = adminFsm[a].cancel_payment_id
        /\ task'[t].row = task'[t].snap
        /\ task'[t].snap = NewPayment
    BY <1>1, <1>0 DEF CancelPaymentReason, Start, Idle, TypeOK
  <1>5. TaskInv(t)'
    BY <1>1, <1>4, <1>0, ConstantsAssumption DEF TaskInv, PcMatchesTask,
       DirtyHoldsLock, SnapIsConsistent, WriteIsSafe, NotifiesFirst, NewPayment
  <1> QED
    BY <1>2, <1>3, <1>4, <1>5, StepOfOne DEF CancelPaymentReason, db,
       locks, chats, told

-----------------------------------------------------------------------------
(* Steps of a handler that change neither its instance nor what it flushed. *)

\* The receipt is posted.
LEMMA PostReceiptKeeps ==
    ASSUME IInv, NEW t \in Tasks, PostReceipt(t)
    PROVE  IInv'
  <1>1. task[t] \in Task /\ TypeOK /\ TaskInv(t)
    BY DEF IInv, TypeOK
  <1>0. task[t].pay \in PaymentIds
    BY DEF IInv, TaskInv, PcMatchesTask, PostReceipt, At
  <1>2. task' \in [Tasks -> Task]
    BY <1>1, Labels DEF PostReceipt, Task, TypeOK, Goto
  <1>3. TypeOK'
    BY <1>1, <1>2, <1>0 DEF PostReceipt, TypeOK, db, locks, chats, told, fsm
  <1>4. /\ \A u \in Tasks \ {t} : task'[u] = task[u]
        /\ task[t].pc = "post" /\ task'[t].pc = "commit"
        /\ task'[t].row = task[t].row /\ task'[t].snap = task[t].snap
        /\ task'[t].pay = task[t].pay /\ task'[t].op = task[t].op
    BY <1>1, <1>0 DEF PostReceipt, Goto, At, Task, TypeOK
  <1>5. TaskInv(t)'
    BY <1>1, <1>4 DEF TaskInv, PcMatchesTask, DirtyHoldsLock, SnapIsConsistent,
       WriteIsSafe, NotifiesFirst, PostReceipt, StatusWrite, ConfirmWrite,
       CancelWrite, db, locks, chats, told
  <1> QED
    BY <1>2, <1>3, <1>4, <1>5, StepOfOne DEF PostReceipt, db, locks, chats, told

\* The user is told or cannot be told, and the payment is noted as one or the other.
LEMMA NotifyUserKeeps ==
    ASSUME IInv, NEW t \in Tasks, NotifyUser(t)
    PROVE  IInv'
  <1>1. task[t] \in Task /\ TypeOK /\ TaskInv(t)
    BY DEF IInv, TypeOK
  <1>0. task[t].pay \in PaymentIds
    BY DEF IInv, TaskInv, PcMatchesTask, NotifyUser, At
  <1>2. task' \in [Tasks -> Task]
    BY <1>1, Labels DEF NotifyUser, Task, TypeOK, Goto
  <1>3. TypeOK'
    BY <1>1, <1>2, <1>0 DEF NotifyUser, TypeOK, db, locks, chats, told, fsm
  <1>4. /\ \A u \in Tasks \ {t} : task'[u] = task[u]
        /\ task[t].pc = "notify" /\ task'[t].pc = "clear_fsm"
        /\ task'[t].row = task[t].row /\ task'[t].snap = task[t].snap
        /\ task'[t].pay = task[t].pay /\ task'[t].op = task[t].op
    BY <1>1, <1>0 DEF NotifyUser, Goto, At, Task, TypeOK
  <1>5. TaskInv(t)'
    BY <1>1, <1>4 DEF TaskInv, PcMatchesTask, DirtyHoldsLock, SnapIsConsistent,
       WriteIsSafe, NotifiesFirst, NotifyUser, StatusWrite, ConfirmWrite,
       CancelWrite, db, locks
  <1> QED
    BY <1>2, <1>3, <1>4, <1>5, StepOfOne DEF NotifyUser, db, locks, chats, told

\* The admin's FSM state is emptied: no part of the invariant depends on it.
LEMMA ClearFsmKeeps ==
    ASSUME IInv, NEW t \in Tasks, ClearFsm(t)
    PROVE  IInv'
  <1>1. task[t] \in Task /\ TypeOK /\ TaskInv(t)
    BY DEF IInv, TypeOK
  <1>2. task' \in [Tasks -> Task]
    BY <1>1, Labels DEF ClearFsm, Task, TypeOK, Goto
  <1>3. TypeOK'
    <2>1. adminFsm' \in [Admins -> AdminFsm]
      <3>1. CASE task[t].by \in Admins
        <4>1. "none" \in FsmState /\ adminFsm[task[t].by].payment_id \in PaymentIds \cup {None}
          BY <1>1, <3>1 DEF TypeOK, AdminFsm, FsmState
        <4> QED
          BY <1>1, <3>1, <4>1, FsmType DEF ClearFsm, TypeOK
      <3>2. CASE task[t].by \notin Admins
        BY <1>1, <3>2 DEF ClearFsm, TypeOK
      <3> QED
        BY <3>1, <3>2
    <2> QED
      BY <1>1, <1>2, <2>1 DEF ClearFsm, TypeOK, db, locks, chats, told
  <1>4. /\ \A u \in Tasks \ {t} : task'[u] = task[u]
        /\ task[t].pc = "clear_fsm" /\ task'[t].pc = "clear_data"
        /\ task'[t].row = task[t].row /\ task'[t].snap = task[t].snap
        /\ task'[t].pay = task[t].pay /\ task'[t].op = task[t].op
    BY <1>1 DEF ClearFsm, Goto, At, Task, TypeOK
  <1>5. TaskInv(t)'
    BY <1>1, <1>4 DEF TaskInv, PcMatchesTask, DirtyHoldsLock, SnapIsConsistent,
       WriteIsSafe, NotifiesFirst, ClearFsm, StatusWrite, ConfirmWrite,
       CancelWrite, db, locks, chats, told
  <1> QED
    BY <1>3, <1>4, <1>5, StepOfOne DEF ClearFsm, db, locks, chats, told

\* The admin's FSM data are emptied, under whatever state there is by then.
LEMMA ClearDataKeeps ==
    ASSUME IInv, NEW t \in Tasks, ClearData(t)
    PROVE  IInv'
  <1>1. task[t] \in Task /\ TypeOK /\ TaskInv(t)
    BY DEF IInv, TypeOK
  <1>2. task' \in [Tasks -> Task]
    BY <1>1, Labels DEF ClearData, Task, TypeOK, Goto
  <1>3. TypeOK'
    <2>1. adminFsm' \in [Admins -> AdminFsm]
      <3>1. CASE task[t].by \in Admins
        <4>1. adminFsm[task[t].by].state \in FsmState
          BY <1>1, <3>1 DEF TypeOK, AdminFsm
        <4>2. [EmptyFsm EXCEPT !.state = adminFsm[task[t].by].state] \in AdminFsm
          BY <4>1 DEF EmptyFsm, AdminFsm
        <4> QED
          BY <1>1, <3>1, <4>2 DEF ClearData, TypeOK
      <3>2. CASE task[t].by \notin Admins
        BY <1>1, <3>2 DEF ClearData, TypeOK
      <3> QED
        BY <3>1, <3>2
    <2> QED
      BY <1>1, <1>2, <2>1 DEF ClearData, TypeOK, db, locks, chats, told
  <1>4. /\ \A u \in Tasks \ {t} : task'[u] = task[u]
        /\ task[t].pc = "clear_data" /\ task'[t].pc = "commit"
        /\ task'[t].row = task[t].row /\ task'[t].snap = task[t].snap
        /\ task'[t].pay = task[t].pay /\ task'[t].op = task[t].op
    BY <1>1 DEF ClearData, Goto, At, Task, TypeOK
  <1>5. TaskInv(t)'
    BY <1>1, <1>4 DEF TaskInv, PcMatchesTask, DirtyHoldsLock, SnapIsConsistent,
       WriteIsSafe, NotifiesFirst, ClearData, StatusWrite, ConfirmWrite,
       CancelWrite, db, locks, chats, told
  <1> QED
    BY <1>3, <1>4, <1>5, StepOfOne DEF ClearData, db, locks, chats, told

\* Loading the ticket leaves the payment's instance alone.
LEMMA LoadTicketKeeps ==
    ASSUME IInv, NEW t \in Tasks, LoadTicket(t)
    PROVE  IInv'
  <1>1. task[t] \in Task /\ TypeOK /\ TaskInv(t)
    BY DEF IInv, TypeOK
  <1>0. ticket[task[t].tkt] \in TicketRow
    BY DEF IInv, TypeOK, TaskInv, PcMatchesTask, LoadTicket, At
  <1>2. task' \in [Tasks -> Task]
    BY <1>1, Labels, <1>0 DEF LoadTicket, Task, TypeOK
  <1>3. TypeOK'
    BY <1>1, <1>2 DEF LoadTicket, TypeOK, db, locks, chats, told, fsm
  <1>4. /\ \A u \in Tasks \ {t} : task'[u] = task[u]
        /\ task[t].pc = "load_ticket" /\ task'[t].pc = "flush_ticket"
        /\ task'[t].row = task[t].row /\ task'[t].snap = task[t].snap
        /\ task'[t].pay = task[t].pay /\ task'[t].op = task[t].op
        /\ task'[t].tkt = task[t].tkt
    BY <1>1, <1>0 DEF LoadTicket, At, Task, TypeOK
  <1>5. TaskInv(t)'
    BY <1>1, <1>4 DEF TaskInv, PcMatchesTask, DirtyHoldsLock, SnapIsConsistent,
       WriteIsSafe, NotifiesFirst, LoadTicket, StatusWrite, ConfirmWrite,
       CancelWrite, db, locks, chats, told
  <1> QED
    BY <1>2, <1>3, <1>4, <1>5, StepOfOne DEF LoadTicket, db, locks, chats, told

\* After the ticket's flush a counting confirmation tells the user next.
LEMMA MarkPaidKeeps ==
    ASSUME IInv, NEW t \in Tasks, MarkPaid(t)
    PROVE  IInv'
  <1>1. task[t] \in Task /\ TypeOK /\ TaskInv(t)
    BY DEF IInv, TypeOK
  <1>2. task' \in [Tasks -> Task]
    BY <1>1, Labels DEF MarkPaid, Task, TypeOK, TicketRow, TicketStatus
  <1>3. TypeOK'
    BY <1>1, <1>2 DEF MarkPaid, TypeOK, db, locks, chats, told, fsm
  <1>4. /\ \A u \in Tasks \ {t} : task'[u] = task[u]
        /\ task[t].pc = "flush_ticket" /\ task[t].op = "confirm"
        /\ task'[t].row = task[t].row /\ task'[t].snap = task[t].snap
        /\ task'[t].pay = task[t].pay /\ task'[t].op = task[t].op
        /\ task'[t].pc = IF ~task[t].snap.counted THEN "notify" ELSE "clear_fsm"
    BY <1>1 DEF MarkPaid, At, Task, TypeOK, NewlyCounted
  <1>5. TaskInv(t)'
    BY <1>1, <1>4 DEF TaskInv, PcMatchesTask, DirtyHoldsLock, SnapIsConsistent,
       WriteIsSafe, NotifiesFirst, MarkPaid, StatusWrite, ConfirmWrite,
       CancelWrite, db, locks, chats, told
  <1> QED
    BY <1>2, <1>3, <1>4, <1>5, StepOfOne DEF MarkPaid, db, locks, chats, told

\* Closing is not a confirmation.
LEMMA MarkClosedKeeps ==
    ASSUME IInv, NEW t \in Tasks, MarkClosed(t)
    PROVE  IInv'
  <1>1. task[t] \in Task /\ TypeOK /\ TaskInv(t)
    BY DEF IInv, TypeOK
  <1>2. task' \in [Tasks -> Task]
    BY <1>1, Labels, WrittenRows DEF MarkClosed, Task, TypeOK
  <1>3. TypeOK'
    BY <1>1, <1>2 DEF MarkClosed, TypeOK, db, locks, chats, told, fsm
  <1>4. /\ \A u \in Tasks \ {t} : task'[u] = task[u]
        /\ task[t].pc = "flush_ticket" /\ task'[t].pc = "commit" /\ task[t].op = "close"
        /\ task'[t].row = task[t].row /\ task'[t].snap = task[t].snap
        /\ task'[t].pay = task[t].pay /\ task'[t].op = task[t].op
    BY <1>1 DEF MarkClosed, At, Task, TypeOK
  <1>5. TaskInv(t)'
    BY <1>1, <1>4 DEF TaskInv, PcMatchesTask, DirtyHoldsLock, SnapIsConsistent,
       WriteIsSafe, NotifiesFirst, MarkClosed, StatusWrite, ConfirmWrite,
       CancelWrite, db, locks, chats, told
  <1> QED
    BY <1>2, <1>3, <1>4, <1>5, StepOfOne DEF MarkClosed, db, locks, chats, told

-----------------------------------------------------------------------------
(* Steps of a handler that load an instance or write one.                   *)

\* get_open_ticket: the handler goes on or is done.
LEMMA FindTicketKeeps ==
    ASSUME IInv, NEW t \in Tasks, FindTicket(t)
    PROVE  IInv'
  <1>1. task[t] \in Task /\ TypeOK /\ TaskInv(t)
    BY DEF IInv, TypeOK
  <1>2. TypeOK'
    <2>1. task' \in [Tasks -> Task]
      BY <1>1, IdleType, Labels DEF FindTicket, Task, TypeOK, Goto, Finish
    <2>2. userFsm' \in [TicketIds -> UserState]
      BY <1>1 DEF FindTicket, TypeOK, UserState
    <2> QED
      BY <1>1, <2>1, <2>2 DEF IInv, FindTicket, TypeOK, db, locks, chats, told
  <1>3. \A u \in Tasks \ {t} : task'[u] = task[u]
    BY <1>1 DEF FindTicket, Goto, Finish, TypeOK
  <1>4. TaskInv(t)'
    <2>1. CASE Finish(t)
      BY <1>1, <2>1, IdleInv DEF Finish, TypeOK
    <2>2. CASE Goto(t, "find_pending")
      <3>1. /\ task[t].pc = "find_ticket" /\ task'[t].pc = "find_pending"
            /\ task'[t].row = task[t].row /\ task'[t].snap = task[t].snap
            /\ task'[t].pay = task[t].pay /\ task'[t].op = task[t].op
        BY <1>1, <2>2 DEF FindTicket, At, Goto, Task, TypeOK
      <3> QED
        BY <1>1, <3>1 DEF FindTicket, TaskInv, PcMatchesTask, DirtyHoldsLock, SnapIsConsistent,
           WriteIsSafe, NotifiesFirst, StatusWrite, ConfirmWrite, CancelWrite, db, locks, chats, told
    <2> QED
      BY <2>1, <2>2 DEF FindTicket
  <1> QED
    BY <1>2, <1>3, <1>4, StepOfOne DEF FindTicket, db, locks, chats, told

\* get_latest_pending_payment: the instance is the committed row.
LEMMA FindPendingKeeps ==
    ASSUME IInv, NEW t \in Tasks, FindPending(t)
    PROVE  IInv'
  <1>1. task[t] \in Task /\ TypeOK /\ TaskInv(t)
    BY DEF IInv, TypeOK
  <1>3. CASE Finish(t)
    <2>1. TypeOK'
      BY <1>1, <1>3, IdleType DEF Finish, FindPending, TypeOK, db, locks, chats, told, fsm
    <2>2. \A u \in Tasks \ {t} : task'[u] = task[u]
      BY <1>1, <1>3 DEF Finish, TypeOK
    <2>3. TaskInv(t)'
      BY <1>1, <1>3, IdleInv DEF Finish, TypeOK
    <2> QED
      BY <2>1, <2>2, <2>3, StepOfOne DEF FindPending, db, locks, chats, told
  <1>4. ASSUME NEW p \in PaymentIds,
               task' = [task EXCEPT ![t].pc = "attach", ![t].pay = p,
                                    ![t].snap = payment[p], ![t].row = payment[p]]
        PROVE  IInv'
    <2>1. /\ payment[p] \in PaymentRow
          /\ payment[p].status = "confirmed" => payment[p].counted
      BY DEF IInv, TypeOK, StatusMatchesRevenue
    <2>2. task' \in [Tasks -> Task]
      BY <1>1, <1>4, <2>1, Labels DEF Task, TypeOK
    <2>3. TypeOK'
      BY <1>1, <2>2 DEF FindPending, TypeOK, db, locks, chats, told, fsm
    <2>4. /\ \A u \in Tasks \ {t} : task'[u] = task[u]
          /\ task'[t].pc = "attach" /\ task'[t].pay = p
          /\ task'[t].row = payment[p] /\ task'[t].snap = payment[p]
      BY <1>1, <1>4 DEF Task, TypeOK
    <2>5. TaskInv(t)'
      BY <2>1, <2>4 DEF FindPending, TaskInv, PcMatchesTask, DirtyHoldsLock, SnapIsConsistent,
         WriteIsSafe, NotifiesFirst, db
    <2> QED
      BY <2>3, <2>4, <2>5, StepOfOne DEF FindPending, db, locks, chats, told
  <1> QED
    BY <1>3, <1>4 DEF FindPending, Pending

\* A step that ends a task without a commit, and gives back its own locks.
LEMMA EndOfTask ==
    ASSUME IInv, NEW t \in Tasks, Finish(t), TypeOK',
           payment' = payment, notified' = notified, unreachable' = unreachable,
           payLock' = payLock \/ ReleaseLocks(t)
    PROVE  IInv'
  <1>1. \A u \in Tasks \ {t} : task'[u] = task[u]
    BY DEF Finish, IInv, TypeOK
  <1>2. TaskInv(t)'
    BY IdleInv DEF Finish, IInv, TypeOK
  <1>3. \A u \in Tasks \ {t} : \A p \in PaymentIds : payLock[p] = u => payLock'[p] = u
    BY DEF ReleaseLocks, IInv, TypeOK
  <1> QED
    BY <1>1, <1>2, <1>3, StepOfOne

LEMMA SaveAmountKeeps ==
    ASSUME IInv, NEW t \in Tasks, SaveAmount(t)
    PROVE  IInv'
  <1>1. task[t] \in Task /\ TypeOK
    BY DEF IInv, TypeOK
  <1>2. task' \in [Tasks -> Task]
    BY <1>1, IdleType DEF SaveAmount, Finish, TypeOK
  <1>3. adminFsm' \in [Admins -> AdminFsm]
    <2>1. task[t].amount \in Amounts \cup {None}
      BY <1>1 DEF Task
    <2> QED
      BY <1>1, <2>1 DEF SaveAmount, TypeOK, AdminFsm
  <1>4. TypeOK'
    BY <1>1, <1>2, <1>3 DEF SaveAmount, TypeOK, db, locks, chats, told
  <1> QED
    BY <1>4, EndOfTask DEF SaveAmount, db, locks, chats, told

LEMMA AbortKeeps ==
    ASSUME IInv, NEW t \in Tasks, Abort(t)
    PROVE  IInv'
  <1>1. TypeOK
    BY DEF IInv
  <1>2. TypeOK'
    BY <1>1, IdleType DEF Abort, Finish, ReleaseLocks, TypeOK, db, chats, told, fsm
  <1> QED
    BY <1>2, EndOfTask DEF Abort, db, chats, told

\* get_payment: the instance is the committed row.
LEMMA LoadPaymentKeeps ==
    ASSUME IInv, NEW t \in Tasks, LoadPayment(t)
    PROVE  IInv'
  <1>1. task[t] \in Task /\ TypeOK /\ TaskInv(t)
    BY DEF IInv, TypeOK
  <1>0. /\ task[t].pay \in PaymentIds /\ task[t].op = "confirm"
        /\ task[t].tkt \in TicketIds
        /\ payment[task[t].pay] \in PaymentRow
        /\ payment[task[t].pay].status = "confirmed" => payment[task[t].pay].counted
        /\ Requested[task[t].pay] \in Amounts
    BY ConstantsAssumption
    DEF IInv, TypeOK, StatusMatchesRevenue, TaskInv, PcMatchesTask, LoadPayment, At
  <1>2. task' \in [Tasks -> Task]
    BY <1>1, Labels, <1>0 DEF LoadPayment, Task, TypeOK
  <1>3. TypeOK'
    BY <1>1, <1>2 DEF LoadPayment, TypeOK, db, locks, chats, told, fsm
  <1>4. /\ \A u \in Tasks \ {t} : task'[u] = task[u]
        /\ task'[t].pc = "lock" /\ task'[t].op = "confirm"
        /\ task'[t].pay = task[t].pay /\ task'[t].tkt = task[t].tkt
        /\ task'[t].row = payment[task[t].pay]
        /\ task'[t].snap = payment[task[t].pay]
        /\ task'[t].amount \in Amounts
    BY <1>1, <1>0 DEF LoadPayment, Task, TypeOK
  <1>5. TaskInv(t)'
    BY <1>1, <1>4, <1>0 DEF TaskInv, PcMatchesTask, DirtyHoldsLock,
       SnapIsConsistent, WriteIsSafe, NotifiesFirst, LoadPayment, db
  <1> QED
    BY <1>2, <1>3, <1>4, <1>5, StepOfOne DEF LoadPayment, db, locks, chats, told

\* attach_receipt writes a status, under the lock.
LEMMA AttachReceiptKeeps ==
    ASSUME IInv, NEW t \in Tasks, AttachReceipt(t)
    PROVE  IInv'
  <1>1. task[t] \in Task /\ TypeOK /\ TaskInv(t)
    BY DEF IInv, TypeOK
  <1>0. /\ task[t].pay \in PaymentIds
        /\ task[t].row = task[t].snap /\ task[t].snap \in PaymentRow
    BY DEF IInv, TypeOK, Task, TaskInv, PcMatchesTask, AttachReceipt, At
  <1>2. task' \in [Tasks -> Task]
    BY <1>1, Labels DEF AttachReceipt, Task, TypeOK, PaymentRow, PaymentStatus
  <1>3. TypeOK'
    BY <1>1, <1>2, <1>0 DEF AttachReceipt, TypeOK, db, locks, chats, told, fsm,
       UserState
  <1>4. /\ \A u \in Tasks \ {t} : task'[u] = task[u]
        /\ task'[t].pc = "post" /\ task[t].pc = "attach"
        /\ task'[t].pay = task[t].pay /\ task'[t].op = task[t].op
        /\ task'[t].snap = task[t].snap
        /\ task'[t].row.status = "receipt_sent"
        /\ task'[t].row.counted = task[t].snap.counted
        /\ task'[t].row.amount = task[t].snap.amount
        /\ payLock'[task[t].pay] = t
    BY <1>1, <1>0 DEF AttachReceipt, At, Task, TypeOK, PaymentRow
  <1>5. TaskInv(t)'
    BY <1>1, <1>4, <1>0 DEF TaskInv, PcMatchesTask, DirtyHoldsLock,
       SnapIsConsistent, WriteIsSafe, NotifiesFirst, AttachReceipt, StatusWrite,
       db, chats, told
  <1>7. \A u \in Tasks \ {t} : \A p \in PaymentIds : payLock[p] = u => payLock'[p] = u
    BY <1>1, ConstantsAssumption DEF AttachReceipt, MayLockPayment, TypeOK
  <1> QED
    BY <1>2, <1>3, <1>4, <1>5, <1>7, StepOfOne DEF AttachReceipt, db,
       chats, told

\* reject_receipt writes a status under the lock, or nothing.
LEMMA RejectReceiptKeeps ==
    ASSUME IInv, NEW t \in Tasks, RejectReceipt(t)
    PROVE  IInv'
  <1>1. task[t] \in Task /\ TypeOK /\ TaskInv(t)
    BY DEF IInv, TypeOK
  <1>0. /\ task[t].pay \in PaymentIds
        /\ task[t].row = task[t].snap /\ task[t].snap \in PaymentRow
    BY DEF IInv, TypeOK, Task, TaskInv, PcMatchesTask, RejectReceipt, At
  <1>2. task' \in [Tasks -> Task]
    BY <1>1, Labels DEF RejectReceipt, Task, TypeOK, PaymentRow, PaymentStatus
  <1>3. TypeOK'
    BY <1>1, <1>2, <1>0 DEF RejectReceipt, TypeOK, db, locks, chats, told, fsm
  <1>4. /\ \A u \in Tasks \ {t} : task'[u] = task[u]
        /\ task'[t].pc = "commit" /\ task[t].pc = "reject"
        /\ task'[t].pay = task[t].pay /\ task'[t].op = task[t].op
        /\ task'[t].snap = task[t].snap
        /\ task'[t].row = [task[t].snap EXCEPT !.status = "rejected"]
        /\ task[t].snap.status # "rejected" => payLock'[task[t].pay] = t
    BY <1>1, <1>0 DEF RejectReceipt, At, Task, TypeOK
  <1>5. TaskInv(t)'
    BY <1>1, <1>4, <1>0 DEF TaskInv, PcMatchesTask, DirtyHoldsLock,
       SnapIsConsistent, WriteIsSafe, NotifiesFirst, RejectReceipt, StatusWrite,
       db, chats, told, PaymentRow
  <1>7. \A u \in Tasks \ {t} : \A p \in PaymentIds : payLock[p] = u => payLock'[p] = u
    BY <1>1, ConstantsAssumption DEF RejectReceipt, MayLockPayment, TypeOK
  <1> QED
    BY <1>2, <1>3, <1>4, <1>5, <1>7, StepOfOne DEF RejectReceipt, db,
       chats, told

\* confirm_payment writes a confirmation, under the lock, over an instance not counted.
LEMMA ConfirmPaymentKeeps ==
    ASSUME IInv, NEW t \in Tasks, ConfirmPayment(t)
    PROVE  IInv'
  <1>1. task[t] \in Task /\ TypeOK /\ TaskInv(t)
    BY DEF IInv, TypeOK
  <1>0. /\ task[t].pay \in PaymentIds
        /\ task[t].row = task[t].snap /\ task[t].snap \in PaymentRow
        /\ task[t].amount \in Amounts /\ task[t].op = "confirm"
        /\ task[t].tkt \in TicketIds
    BY DEF IInv, TypeOK, Task, TaskInv, PcMatchesTask, ConfirmPayment, At
  <1>2. task' \in [Tasks -> Task]
    BY <1>1, Labels, <1>0, WrittenRows DEF ConfirmPayment, Task, TypeOK
  <1>3. TypeOK'
    BY <1>1, <1>2, <1>0 DEF ConfirmPayment, TypeOK, db, locks, chats, told, fsm
  <1>4. /\ \A u \in Tasks \ {t} : task'[u] = task[u]
        /\ task'[t].pc = "load_ticket" /\ task'[t].op = "confirm"
        /\ task'[t].pay = task[t].pay
        /\ task'[t].tkt = task[t].tkt
        /\ task'[t].snap = task[t].snap
        /\ task'[t].row = IF task[t].snap.counted
                          THEN task[t].snap
                          ELSE [status |-> "confirmed", counted |-> TRUE,
                                amount |-> task[t].amount]
        /\ payLock'[task[t].pay] = t
    BY <1>1, <1>0 DEF ConfirmPayment, At, Task, TypeOK
  <1>5. TaskInv(t)'
    BY <1>1, <1>4, <1>0 DEF TaskInv, PcMatchesTask, DirtyHoldsLock,
       SnapIsConsistent, WriteIsSafe, NotifiesFirst, ConfirmPayment,
       ConfirmWrite, db
  <1>7. \A u \in Tasks \ {t} : \A p \in PaymentIds : payLock[p] = u => payLock'[p] = u
    BY <1>1, ConstantsAssumption DEF ConfirmPayment, MayLockPayment, TypeOK
  <1> QED
    BY <1>2, <1>3, <1>4, <1>5, <1>7, StepOfOne DEF ConfirmPayment, db,
       chats, told

\* cancel_confirmed_payment decides on the row it has just locked.
LEMMA CancelConfirmedPaymentKeeps ==
    ASSUME IInv, NEW t \in Tasks, CancelConfirmedPayment(t)
    PROVE  IInv'
  <1>1. task[t] \in Task /\ TypeOK /\ TaskInv(t)
    BY DEF IInv, TypeOK
  <1>0. /\ task[t].pay \in PaymentIds
        /\ payment[task[t].pay] \in PaymentRow
        /\ payment[task[t].pay].status = "confirmed" => payment[task[t].pay].counted
    BY DEF IInv, TypeOK, StatusMatchesRevenue, TaskInv, PcMatchesTask,
       CancelConfirmedPayment, At
  <1>2. task' \in [Tasks -> Task]
    BY <1>1, Labels, <1>0, WrittenRows DEF CancelConfirmedPayment, Task, TypeOK
  <1>3. TypeOK'
    BY <1>1, <1>2, <1>0 DEF CancelConfirmedPayment, TypeOK, db, locks, chats, told,
       fsm
  <1>4. /\ \A u \in Tasks \ {t} : task'[u] = task[u]
        /\ task'[t].pc = "clear_fsm" /\ task'[t].op = task[t].op
        /\ task'[t].pay = task[t].pay
        /\ task'[t].snap = payment[task[t].pay]
        /\ \/ task'[t].row = payment[task[t].pay]
           \/ /\ payment[task[t].pay].status = "confirmed"
              /\ task'[t].row.status = "cancelled" /\ ~task'[t].row.counted
              /\ task'[t].row.amount = payment[task[t].pay].amount
        /\ payLock'[task[t].pay] = t
    BY <1>1, <1>0 DEF CancelConfirmedPayment, At, Task, TypeOK, PaymentRow
  <1>5. TaskInv(t)'
    BY <1>1, <1>4, <1>0 DEF TaskInv, PcMatchesTask, DirtyHoldsLock,
       SnapIsConsistent, WriteIsSafe, NotifiesFirst, CancelConfirmedPayment,
       CancelWrite, db, PaymentRow
  <1>7. \A u \in Tasks \ {t} : \A p \in PaymentIds : payLock[p] = u => payLock'[p] = u
    BY <1>1, ConstantsAssumption DEF CancelConfirmedPayment, MayLockPayment,
       TypeOK
  <1> QED
    BY <1>2, <1>3, <1>4, <1>5, <1>7, StepOfOne DEF CancelConfirmedPayment,
       db, chats, told

-----------------------------------------------------------------------------
(* Chat steps move no task at all.                                          *)

LEMMA ChatStepKeeps ==
    ASSUME IInv, ChatStep
    PROVE  IInv'
  <1>1. /\ TypeOK
        /\ UNCHANGED <<payment, ticket, payLock, ticketLock, task, receiptKb>>
        /\ UNCHANGED <<notified, unreachable>>
    BY DEF IInv, ChatStep, AskForReceipt, CancelFlow, ReviewAmount, AskNewAmount,
       CancelPaymentCmd, db, locks, chats, told
  <1>2. TypeOK'
    <2>1. ASSUME NEW k \in TicketIds, AskForReceipt(k) PROVE TypeOK'
      BY <1>1, <2>1 DEF AskForReceipt, TypeOK, UserState, chats, told
    <2>0. /\ {"none", "editing_amount", "awaiting_reason"} \subseteq FsmState
          /\ \A a \in Admins : adminFsm[a].payment_id \in PaymentIds \cup {None}
      BY <1>1 DEF TypeOK, AdminFsm, FsmState
    <2>2. ASSUME NEW a \in Admins, CancelFlow(a) PROVE TypeOK'
      <3>1. adminFsm' \in [Admins -> AdminFsm]
        <4>1. Fsm(a, "none", adminFsm[a].payment_id, None) \in AdminFsm
          BY <1>1, <2>0, FsmType
        <4> QED
          BY <1>1, <2>2, <4>1, EmptyFsmType DEF CancelFlow, TypeOK
      <3> QED
        BY <1>1, <2>2, <3>1 DEF CancelFlow, TypeOK, chats, told
    <2>3. ASSUME NEW a \in Admins, NEW p \in PaymentIds, ReviewAmount(a, p)
          PROVE TypeOK'
      <3>1. adminFsm' \in [Admins -> AdminFsm]
        <4>1. \A q \in {p, adminFsm[a].payment_id} : Fsm(a, "none", q, None) \in AdminFsm
          BY <1>1, <2>0, FsmType
        <4> QED
          BY <1>1, <2>3, <4>1 DEF ReviewAmount, TypeOK
      <3> QED
        BY <1>1, <2>3, <3>1, ConstantsAssumption DEF ReviewAmount, TypeOK, told
    <2>4. ASSUME NEW a \in Admins, NEW p \in PaymentIds, AskNewAmount(a, p)
          PROVE TypeOK'
      <3>1. adminFsm' \in [Admins -> AdminFsm]
        <4>1. \A q \in {p, adminFsm[a].payment_id} : Fsm(a, "editing_amount", q, None) \in AdminFsm
          BY <1>1, <2>0, FsmType
        <4> QED
          BY <1>1, <2>4, <4>1 DEF AskNewAmount, TypeOK
      <3> QED
        BY <1>1, <2>4, <3>1 DEF AskNewAmount, TypeOK, chats, told
    <2>5. ASSUME NEW a \in Admins, CancelPaymentCmd(a) PROVE TypeOK'
      <3>1. adminFsm' \in [Admins -> AdminFsm]
        <4>1. \A q \in PaymentIds \cup {None} :
                 Fsm(a, "awaiting_reason", adminFsm[a].payment_id, q) \in AdminFsm
          BY <1>1, <2>0, FsmType
        <4> QED
          BY <1>1, <2>5, <4>1 DEF CancelPaymentCmd, TypeOK
      <3> QED
        BY <1>1, <2>5, <3>1 DEF CancelPaymentCmd, TypeOK, chats, told
    <2> QED
      BY <2>1, <2>2, <2>3, <2>4, <2>5 DEF ChatStep
  <1>3. ASSUME NEW t \in Tasks PROVE TaskInv(t)'
    BY <1>1 DEF IInv, TaskInv, PcMatchesTask, DirtyHoldsLock, SnapIsConsistent,
       WriteIsSafe, NotifiesFirst, StatusWrite, ConfirmWrite, CancelWrite
  <1> QED
    BY <1>1, <1>2, <1>3 DEF IInv, StatusMatchesRevenue, CountedUserNotified

-----------------------------------------------------------------------------
(* The commit.                                                              *)

\* The row a commit leaves, column by column; other rows stay as they are, and
\* so does the row of a transaction that changed nothing.
LEMMA CommittedRow ==
    ASSUME IInv, NEW t \in Tasks, Commit(t), NEW p \in PaymentIds
    PROVE  /\ p # task[t].pay \/ task[t].row = task[t].snap => payment'[p] = payment[p]
           /\ p = task[t].pay =>
                /\ payment'[p].status =
                      Net(payment[p].status, task[t].snap.status, task[t].row.status)
                /\ payment'[p].counted =
                      Net(payment[p].counted, task[t].snap.counted, task[t].row.counted)
                /\ payment'[p].amount =
                      Net(payment[p].amount, task[t].snap.amount, task[t].row.amount)
  <1>1. payment[p] \in PaymentRow /\ task[t].snap \in PaymentRow
    BY DEF IInv, TypeOK, Task
  <1> QED
    BY <1>1, CleanUpdate DEF Commit, UpdatedPayment

\* A write of a committing task, and what the invariant knows of the table.
LEMMA CommitKeepsTable ==
    ASSUME IInv, NEW t \in Tasks, Commit(t), NEW p \in PaymentIds
    PROVE  /\ payment'[p].status = "confirmed" =>
                 payment'[p].counted /\ payment'[p].amount \in Amounts
           /\ payment'[p].status = "cancelled" => ~payment'[p].counted
           /\ payment'[p].counted => p \in notified \cup unreachable
           /\ payment[p].amount \in Amounts => payment'[p].amount \in Amounts
  <1>1. /\ payment[p].status = "confirmed" =>
              payment[p].counted /\ payment[p].amount \in Amounts
        /\ payment[p].status = "cancelled" => ~payment[p].counted
        /\ payment[p].counted => p \in notified \cup unreachable
    BY DEF IInv, StatusMatchesRevenue, CountedUserNotified
  <1>2. CASE p # task[t].pay \/ task[t].row = task[t].snap
    BY <1>1, <1>2, CommittedRow
  <1>3. CASE p = task[t].pay /\ task[t].row # task[t].snap
    <2>1. /\ payment'[p].status =
                Net(payment[p].status, task[t].snap.status, task[t].row.status)
          /\ payment'[p].counted =
                Net(payment[p].counted, task[t].snap.counted, task[t].row.counted)
          /\ payment'[p].amount =
                Net(payment[p].amount, task[t].snap.amount, task[t].row.amount)
      BY <1>3, CommittedRow
    <2>2. /\ SnapIsConsistent(t) /\ NotifiesFirst(t)
          /\ StatusWrite(t) \/ ConfirmWrite(t) \/ CancelWrite(t)
          /\ task[t].pc = "commit"
          /\ task[t].snap.counted \in BOOLEAN /\ task[t].row.counted \in BOOLEAN
      BY <1>3 DEF IInv, TypeOK, Task, PaymentRow, TaskInv, WriteIsSafe, Commit, At
    <2>3. CASE StatusWrite(t)
      BY <1>1, <2>1, <2>3 DEF StatusWrite, Net
    <2>4. CASE ConfirmWrite(t)
      BY <1>1, <1>3, <2>1, <2>2, <2>4 DEF ConfirmWrite, SnapIsConsistent, NotifiesFirst, Net
    <2>5. CASE CancelWrite(t)
      BY <1>1, <1>3, <2>1, <2>2, <2>5 DEF CancelWrite, SnapIsConsistent, Net
    <2> QED
      BY <2>2, <2>3, <2>4, <2>5
  <1> QED
    BY <1>2, <1>3

LEMMA CommitType ==
    ASSUME TypeOK, NEW t \in Tasks, Commit(t)
    PROVE  TypeOK'
  <1>1. /\ task[t].snap \in PaymentRow /\ task[t].row \in PaymentRow
        /\ task[t].tsnap \in TicketRow /\ task[t].trow \in TicketRow
    BY DEF TypeOK, Task
  <1>2. payment' \in [PaymentIds -> PaymentRow]
    BY <1>1, UpdatedPaymentType DEF TypeOK, Commit
  <1>3. ticket' \in [TicketIds -> TicketRow]
    BY <1>1, UpdatedTicketType DEF TypeOK, Commit
  <1>4. /\ payLock' \in [PaymentIds -> Tasks \cup {None}]
        /\ ticketLock' \in [TicketIds -> Tasks \cup {None}]
        /\ task' \in [Tasks -> Task]
    BY IdleType DEF TypeOK, Commit, ReleaseLocks, Finish
  <1> QED
    BY <1>2, <1>3, <1>4 DEF TypeOK, Commit, chats, told, fsm

LEMMA CommitKeeps ==
    ASSUME IInv, NEW t \in Tasks, Commit(t)
    PROVE  IInv'
  <1>1. TypeOK'
    BY CommitType DEF IInv, Commit, fsm
  <1>2. StatusMatchesRevenue' /\ CountedUserNotified'
    BY CommitKeepsTable DEF StatusMatchesRevenue, CountedUserNotified, Commit, chats, told
  <1>3. TaskInv(t)'
    BY IdleInv DEF Commit, Finish, IInv, TypeOK
  <1>4. ASSUME NEW u \in Tasks, u # t PROVE TaskInv(u)'
    <2>1. /\ task'[u] = task[u] /\ TaskInv(u) 
          /\ notified' = notified /\ unreachable' = unreachable
          /\ \A p \in PaymentIds : payLock[p] = u => payLock'[p] = u
      BY <1>4 DEF IInv, TypeOK, Commit, Finish, ReleaseLocks, chats, told
    <2>2. PcMatchesTask(u)' /\ NotifiesFirst(u)' /\ DirtyHoldsLock(u)'
      BY <2>1 DEF TaskInv, PcMatchesTask, NotifiesFirst, DirtyHoldsLock
    <2>3. SnapIsConsistent(u)'
      BY <2>1, CommitKeepsTable DEF TaskInv, SnapIsConsistent
    <2>4. WriteIsSafe(u)'
      <3>1. CASE task[u].row = task[u].snap
        BY <2>1, <3>1 DEF WriteIsSafe
      \* Otherwise u holds the lock of its payment, so t has changed nothing there.
      <3>2. CASE task[u].row # task[u].snap
        <4>1. task[u].pay \in PaymentIds /\ payLock[task[u].pay] = u
          BY <2>1, <3>2 DEF TaskInv, DirtyHoldsLock
        <4>2. task[u].pay # task[t].pay \/ task[t].row = task[t].snap
          BY <1>4, <4>1 DEF IInv, TaskInv, DirtyHoldsLock
        <4>3. payment'[task[u].pay] = payment[task[u].pay]
          BY <4>1, <4>2, CommittedRow
        <4> QED
          BY <2>1, <4>3 DEF TaskInv, WriteIsSafe, StatusWrite, ConfirmWrite, CancelWrite
      <3> QED
        BY <3>1, <3>2
    <2> QED
      BY <2>2, <2>3, <2>4 DEF TaskInv
  <1> QED
    BY <1>1, <1>2, <1>3, <1>4 DEF IInv

-----------------------------------------------------------------------------
(* The invariant of the payment desk.                                       *)

LEMMA InitEstablishes == Init => IInv
  <1> SUFFICES ASSUME Init PROVE IInv
    OBVIOUS
  <1>1. TypeOK
    <2>1. NewPayment \in PaymentRow /\ NewTicket \in TicketRow /\ "chatting" \in UserState
      BY DEF NewPayment, NewTicket, PaymentRow, TicketRow, PaymentStatus, TicketStatus,
         UserState
    <2> QED
      BY <2>1, IdleType, EmptyFsmType DEF Init, TypeOK
  <1>2. StatusMatchesRevenue /\ CountedUserNotified
    BY DEF Init, StatusMatchesRevenue, CountedUserNotified, EmptyFsm,
       NewPayment
  <1>3. ASSUME NEW t \in Tasks PROVE TaskInv(t)
    <2>1. /\ task[t].pc = "idle" /\ task[t].row = task[t].snap
          /\ task[t].pay = None /\ task[t].op = "none"
          /\ task[t].snap.status = "pending" /\ ~task[t].snap.counted
      BY DEF Init, Idle, NewPayment
    <2> QED
      BY <2>1, ConstantsAssumption DEF TaskInv, PcMatchesTask, DirtyHoldsLock,
         SnapIsConsistent, WriteIsSafe, NotifiesFirst
  <1> QED
    BY <1>1, <1>2, <1>3 DEF IInv

LEMMA NextKeeps == IInv /\ [Next]_vars => IInv'
  <1> SUFFICES ASSUME IInv, [Next]_vars PROVE IInv'
    OBVIOUS
  <1>1. CASE ChatStep
    BY <1>1, ChatStepKeeps
  <1>2. ASSUME NEW t \in Tasks, Update(t) PROVE IInv'
    BY <1>2, ReceiveReceiptKeeps, CloseTicketKeeps, CancelPaymentReasonKeeps,
       DoConfirmKeeps, SetNewAmountKeeps, DoRejectKeeps DEF Update
  <1>3. ASSUME NEW t \in Tasks, TaskStep(t) PROVE IInv'
    BY <1>3, FindTicketKeeps, FindPendingKeeps, AttachReceiptKeeps, PostReceiptKeeps,
       SaveAmountKeeps, LoadPaymentKeeps, ConfirmPaymentKeeps, LoadTicketKeeps,
       MarkPaidKeeps, NotifyUserKeeps, ClearFsmKeeps, ClearDataKeeps, RejectReceiptKeeps,
       CancelConfirmedPaymentKeeps, MarkClosedKeeps, CommitKeeps DEF TaskStep
  <1>4. ASSUME NEW t \in Tasks, Abort(t) PROVE IInv'
    BY <1>4, AbortKeeps
  <1>5. CASE UNCHANGED vars
    BY <1>5 DEF vars, IInv, TypeOK, TaskInv, PcMatchesTask,
       DirtyHoldsLock, SnapIsConsistent, WriteIsSafe, NotifiesFirst, StatusWrite,
       ConfirmWrite, CancelWrite, StatusMatchesRevenue, CountedUserNotified
  <1> QED
    BY <1>1, <1>2, <1>3, <1>4, <1>5 DEF Next

\* The inductive invariant holds in every reachable state.
THEOREM Invariance == Spec => []IInv
  <1>1. Init => IInv
    BY InitEstablishes
  <1>2. IInv /\ [Next]_vars => IInv'
    BY NextKeeps
  <1> QED
    BY <1>1, <1>2, PTL DEF Spec

\* Every variable keeps its type, for any number of tasks, admins and payments.
THEOREM TypeCorrect == Spec => []TypeOK
  <1>1. IInv => TypeOK
    BY DEF IInv
  <1> QED
    BY <1>1, Invariance, PTL

\* A confirmed payment is in the revenue with an amount and a cancelled one is
\* not, however many confirmations, rejections, receipts and cancellations of it
\* overlap on stale instances.
THEOREM RevenueIsConsistent == Spec => []StatusMatchesRevenue
  <1>1. IInv => StatusMatchesRevenue
    BY DEF IInv
  <1> QED
    BY <1>1, Invariance, PTL

\* Nothing is counted before its user was told, or Telegram refused to tell them: a
\* rollback can leave a user told of a payment that is not counted, never a payment
\* counted of which the bot has not tried to tell.
THEOREM CountedIsNotified == Spec => []CountedUserNotified
  <1>1. IInv => CountedUserNotified
    BY DEF IInv
  <1> QED
    BY <1>1, Invariance, PTL

-----------------------------------------------------------------------------
(* What a step may do to a payment.                                         *)

\* Only a commit changes a row of payments.
LEMMA OnlyCommitWrites ==
    ASSUME [Next]_vars, payment' # payment
    PROVE  \E t \in Tasks : Commit(t)
  <1>1. ASSUME ChatStep PROVE FALSE
    BY <1>1 DEF ChatStep, AskForReceipt, CancelFlow, ReviewAmount, AskNewAmount,
       CancelPaymentCmd, db
  <1>2. ASSUME NEW t \in Tasks, Update(t) PROVE FALSE
    BY <1>2 DEF Update, ReceiveReceipt, CloseTicket, CancelPaymentReason, DoConfirm,
       SetNewAmount, DoReject, db
  <1>3. ASSUME NEW t \in Tasks, TaskStep(t) PROVE Commit(t)
    <2>1. CASE FindTicket(t) \/ FindPending(t) \/ AttachReceipt(t) \/ PostReceipt(t)
      BY <2>1 DEF FindTicket, FindPending, AttachReceipt, PostReceipt, db
    <2>2. CASE SaveAmount(t) \/ LoadPayment(t) \/ ConfirmPayment(t) \/ LoadTicket(t)
      BY <2>2 DEF SaveAmount, LoadPayment, ConfirmPayment, LoadTicket, db
    <2>3. CASE MarkPaid(t) \/ NotifyUser(t) \/ ClearFsm(t) \/ ClearData(t)
      BY <2>3 DEF MarkPaid, NotifyUser, ClearFsm, ClearData, db
    <2>4. CASE RejectReceipt(t) \/ CancelConfirmedPayment(t) \/ MarkClosed(t)
      BY <2>4 DEF RejectReceipt, CancelConfirmedPayment, MarkClosed, db
    <2> QED
      BY <1>3, <2>1, <2>2, <2>3, <2>4 DEF TaskStep
  <1>4. ASSUME NEW t \in Tasks, Abort(t) PROVE FALSE
    BY <1>4 DEF Abort, db
  <1>5. Next
    BY DEF vars
  <1> QED
    BY <1>1, <1>2, <1>3, <1>4, <1>5 DEF Next

\* A column that leaves the confirmed or the counted state was written by a
\* cancellation, on the row as it was at that moment.
LEMMA CancellationIsFresh ==
    ASSUME IInv, [Next]_vars, NEW p \in PaymentIds,
           \/ payment[p].counted /\ ~payment'[p].counted
           \/ payment[p].status # "cancelled" /\ payment'[p].status = "cancelled"
    PROVE  payment[p].status = "confirmed" /\ payment'[p].status = "cancelled"
  <1>1. PICK t \in Tasks : Commit(t)
    BY OnlyCommitWrites
  <1>2. p = task[t].pay /\ task[t].row # task[t].snap
    BY <1>1, CommittedRow
  <1>3. /\ payment'[p].status =
              Net(payment[p].status, task[t].snap.status, task[t].row.status)
        /\ payment'[p].counted =
              Net(payment[p].counted, task[t].snap.counted, task[t].row.counted)
    BY <1>1, <1>2, CommittedRow
  <1>4. StatusWrite(t) \/ ConfirmWrite(t) \/ CancelWrite(t)
    BY <1>2 DEF IInv, TaskInv, WriteIsSafe
  <1>5. CancelWrite(t)
    BY <1>3, <1>4 DEF StatusWrite, ConfirmWrite, Net
  <1> QED
    BY <1>2, <1>3, <1>5 DEF CancelWrite, Net

\* The counted flag falls only by a cancellation of a payment confirmed at that
\* moment: no stale instance flushed by another handler clears it.
THEOREM CountedFallsByCancel == Spec => CountedFallsOnlyByCancel
  <1>1. IInv /\ [Next]_vars =>
          [\A p \in PaymentIds :
              payment[p].counted /\ ~payment'[p].counted =>
                 payment[p].status = "confirmed" /\ payment'[p].status = "cancelled"]_vars
    BY CancellationIsFresh
  <1> QED
    BY <1>1, Invariance, PTL DEF Spec, CountedFallsOnlyByCancel

\* A cancellation hits only a payment that is confirmed at that moment.
THEOREM CancelsConfirmed == Spec => OnlyConfirmedIsCancelled
  <1>1. IInv /\ [Next]_vars =>
          [\A p \in PaymentIds :
              payment[p].status # "cancelled" /\ payment'[p].status = "cancelled" =>
                 payment[p].status = "confirmed"]_vars
    BY CancellationIsFresh
  <1> QED
    BY <1>1, Invariance, PTL DEF Spec, OnlyConfirmedIsCancelled

-----------------------------------------------------------------------------
(* Who waits for whom.                                                      *)

\* Where a handler is that holds the lock of a payment, and where one is that holds the
\* lock of a ticket: it has all its locks then.
HoldsPayment == {"post", "load_ticket", "flush_ticket", "notify", "clear_fsm", "clear_data",
                 "commit"}
HoldsTicket == {"notify", "clear_fsm", "clear_data", "commit"}

HoldersRun ==
    \A t \in Tasks :
        /\ \A p \in PaymentIds : payLock[p] = t => task[t].pc \in HoldsPayment
        /\ \A k \in TicketIds : ticketLock[k] = t => task[t].pc \in HoldsTicket

\* A step of one task that takes no lock it does not need keeps the locks in order.
LEMMA OneHolderMoves ==
    ASSUME HoldersRun, NEW t \in Tasks,
           \A u \in Tasks \ {t} :
              /\ task'[u] = task[u]
              /\ \A p \in PaymentIds : payLock'[p] = u => payLock[p] = u
              /\ \A k \in TicketIds : ticketLock'[k] = u => ticketLock[k] = u,
           \A p \in PaymentIds : payLock'[p] = t => task'[t].pc \in HoldsPayment,
           \A k \in TicketIds : ticketLock'[k] = t => task'[t].pc \in HoldsTicket
    PROVE  HoldersRun'
  BY DEF HoldersRun

\* A new handler is started in a task that holds nothing.
LEMMA UpdateKeepsOrder ==
    ASSUME TypeOK, HoldersRun, NEW t \in Tasks, Update(t)
    PROVE  HoldersRun'
  <1>1. /\ task[t].pc = "idle"
        /\ \A u \in Tasks \ {t} : task'[u] = task[u]
        /\ payLock' = payLock /\ ticketLock' = ticketLock
    BY DEF Update, ReceiveReceipt, CloseTicket, CancelPaymentReason, DoConfirm, SetNewAmount,
       DoReject, Start, At, locks, TypeOK
  <1>2. /\ \A p \in PaymentIds : payLock[p] # t
        /\ \A k \in TicketIds : ticketLock[k] # t
    BY <1>1 DEF HoldersRun, HoldsPayment, HoldsTicket
  <1> QED
    BY <1>1, <1>2, OneHolderMoves

\* Steps that take no lock: what is held before is held in a place allowed after.
LEMMA LocklessStepKeepsOrder ==
    ASSUME TypeOK, HoldersRun, NEW t \in Tasks,
           \/ FindTicket(t) \/ FindPending(t) \/ PostReceipt(t) \/ SaveAmount(t)
           \/ LoadPayment(t) \/ LoadTicket(t) \/ NotifyUser(t) \/ ClearFsm(t) \/ ClearData(t)
    PROVE  HoldersRun'
  <1>1. /\ \A u \in Tasks \ {t} : task'[u] = task[u]
        /\ payLock' = payLock /\ ticketLock' = ticketLock
    BY DEF FindTicket, FindPending, PostReceipt, SaveAmount, LoadPayment, LoadTicket,
       NotifyUser, ClearFsm, ClearData, Goto, Finish, locks, TypeOK
  <1>2. /\ task[t].pc \in HoldsPayment => task'[t].pc \in HoldsPayment
        /\ task[t].pc \in HoldsTicket => task'[t].pc \in HoldsTicket
    <2>1. CASE FindTicket(t) \/ FindPending(t) \/ SaveAmount(t) \/ LoadPayment(t)
      BY <2>1 DEF FindTicket, FindPending, SaveAmount, LoadPayment, At, HoldsPayment,
         HoldsTicket
    <2>2. CASE LoadTicket(t)
      BY <2>2 DEF LoadTicket, At, TypeOK, Task, HoldsPayment, HoldsTicket
    <2>3. CASE PostReceipt(t) \/ NotifyUser(t) \/ ClearFsm(t) \/ ClearData(t)
      BY <2>3 DEF PostReceipt, NotifyUser, ClearFsm, ClearData, Goto, TypeOK, Task,
         HoldsPayment, HoldsTicket
    <2> QED
      BY <2>1, <2>2, <2>3
  <1> QED
    BY <1>1, <1>2, OneHolderMoves DEF HoldersRun

\* Steps that lock a payment: the handler holds no ticket yet.
LEMMA PaymentLockKeepsOrder ==
    ASSUME TypeOK, HoldersRun, NEW t \in Tasks,
           \/ AttachReceipt(t) \/ ConfirmPayment(t) \/ RejectReceipt(t)
           \/ CancelConfirmedPayment(t)
    PROVE  HoldersRun'
  <1>1. /\ task[t].pc \in {"attach", "lock", "reject", "cancel"}
        /\ task'[t].pc \in HoldsPayment
        /\ \A u \in Tasks \ {t} : task'[u] = task[u]
        /\ ticketLock' = ticketLock
    BY DEF AttachReceipt, ConfirmPayment, RejectReceipt, CancelConfirmedPayment, At, locks,
       TypeOK, Task, HoldsPayment
  <1>2. \A u \in Tasks \ {t} : \A p \in PaymentIds : payLock'[p] = u => payLock[p] = u
    BY DEF AttachReceipt, ConfirmPayment, RejectReceipt, CancelConfirmedPayment, TypeOK
  <1>3. \A k \in TicketIds : ticketLock[k] # t
    BY <1>1 DEF HoldersRun, HoldsTicket
  <1> QED
    BY <1>1, <1>2, <1>3, OneHolderMoves

\* Steps that lock a ticket: the handler needs no other lock from then on.
LEMMA TicketLockKeepsOrder ==
    ASSUME TypeOK, HoldersRun, NEW t \in Tasks, MarkPaid(t) \/ MarkClosed(t)
    PROVE  HoldersRun'
  <1>1. /\ task'[t].pc \in HoldsTicket
        /\ \A u \in Tasks \ {t} : task'[u] = task[u]
        /\ payLock' = payLock
    BY DEF MarkPaid, MarkClosed, At, TypeOK, Task, HoldsTicket
  <1>2. \A u \in Tasks \ {t} : \A k \in TicketIds : ticketLock'[k] = u => ticketLock[k] = u
    BY DEF MarkPaid, MarkClosed, TypeOK
  <1> QED
    BY <1>1, <1>2, OneHolderMoves DEF HoldsPayment, HoldsTicket

\* The end of a handler gives back every lock it holds.
LEMMA EndKeepsOrder ==
    ASSUME TypeOK, HoldersRun, NEW t \in Tasks, Commit(t) \/ Abort(t)
    PROVE  HoldersRun'
  <1>1. /\ \A u \in Tasks \ {t} : task'[u] = task[u]
        /\ \A p \in PaymentIds : payLock'[p] \in {payLock[p], None} /\ payLock'[p] # t
        /\ \A k \in TicketIds : ticketLock'[k] \in {ticketLock[k], None} /\ ticketLock'[k] # t
    BY ConstantsAssumption DEF Commit, Abort, Finish, ReleaseLocks, TypeOK
  <1> QED
    BY <1>1, ConstantsAssumption, OneHolderMoves

LEMMA NextKeepsOrder == TypeOK /\ HoldersRun /\ [Next]_vars => HoldersRun'
  <1> SUFFICES ASSUME TypeOK, HoldersRun, [Next]_vars PROVE HoldersRun'
    OBVIOUS
  <1>1. CASE ChatStep
    BY <1>1 DEF ChatStep, AskForReceipt, CancelFlow, ReviewAmount, AskNewAmount,
       CancelPaymentCmd, locks, HoldersRun
  <1>2. ASSUME NEW t \in Tasks, TaskStep(t) PROVE HoldersRun'
    BY <1>2, LocklessStepKeepsOrder, PaymentLockKeepsOrder, TicketLockKeepsOrder,
       EndKeepsOrder DEF TaskStep
  <1>3. CASE UNCHANGED vars
    BY <1>3 DEF vars, HoldersRun
  <1> QED
    BY <1>1, <1>2, <1>3, UpdateKeepsOrder, EndKeepsOrder DEF Next

\* However many handlers overlap, whoever waits for a row waits for a handler that runs,
\* and a chain of waits ends after two: locks are given back with their handler, and a
\* handler that waits for a payment holds no ticket.
THEOREM WaitsAreShort == Spec => []WaitsEnd
  <1>1. Init => HoldersRun
    BY ConstantsAssumption DEF Init, HoldersRun
  <1>2. IInv /\ HoldersRun => WaitsEnd
    <2> SUFFICES ASSUME IInv, HoldersRun PROVE WaitsEnd
      OBVIOUS
    \* Whoever waits is at a step that takes a lock, and whoever is waited for is past one.
    <2>1. ASSUME NEW t \in Tasks, NEW u \in Tasks, WaitsFor(t, u)
          PROVE  \/ task[u].pc \in HoldsPayment /\ NeedsPayment(t)
                 \/ task[u].pc \in HoldsTicket /\ NeedsTicket(t)
      <3>1. /\ NeedsPayment(t) => task[t].pay \in PaymentIds
            /\ NeedsTicket(t) => task[t].tkt \in TicketIds
        BY DEF NeedsPayment, NeedsTicket, IInv, TaskInv, PcMatchesTask
      <3> QED
        BY <2>1, <3>1 DEF WaitsFor, HoldersRun
    <2>2. ASSUME NEW t \in Tasks, task[t].pc \in HoldsPayment PROVE ~NeedsPayment(t)
      BY <2>2 DEF HoldsPayment, NeedsPayment
    <2>3. ASSUME NEW t \in Tasks, task[t].pc \in HoldsTicket
          PROVE  ~NeedsPayment(t) /\ ~NeedsTicket(t)
      BY <2>3 DEF HoldsTicket, NeedsPayment, NeedsTicket
    <2>4. \A t \in Tasks : task[t].pc \in HoldsPayment \cup HoldsTicket => ~At(t, "idle")
      BY DEF HoldsPayment, HoldsTicket, At
    <2> QED
      BY <2>1, <2>2, <2>3, <2>4 DEF WaitsEnd
  <1> QED
    BY <1>1, <1>2, Invariance, TypeCorrect, NextKeepsOrder, PTL DEF Spec

=============================================================================
