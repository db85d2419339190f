------------------------- MODULE ConversationProofs -------------------------
(***************************************************************************)
(* Theorems about Conversation, for any number of handlers and tickets and *)
(* any timeout, and about the spam guard of its relay (at the end).        *)
(*                                                                         *)
(* That a closed ticket stays closed is not a matter of locks: relays,     *)
(* replies and changes of status flush instances loaded before a closing   *)
(* they know nothing of.  It holds because only changed columns are        *)
(* written and no handler ever changes is_open to TRUE (NeverReopens).     *)
(***************************************************************************)
EXTENDS Conversation, SpamGuard, FiniteSetTheorems, TLAPS

\* No task holds an instance it loaded as closed and would write as open.
NeverReopens(x) == x.row.open => x.snap.open

\* What a program counter says of the task: a handler that is about to write a row has
\* loaded it, only the choice of a reason takes a number, and only the two bulk
\* closings lock rows one after the other.
PcMatchesTask(x) ==
    /\ x.pc \in {"relay", "flush"} => x.k \in TicketIds
    /\ x.pc = "commit" /\ x.op \in {"message", "reply", "status", "close"} =>
          x.k \in TicketIds
    /\ x.pc \in {"number", "chat"} => x.op = "create"
    /\ x.pc = "close_rows" => x.op \in {"new", "auto_close"}

\* The background loop does nothing but close tickets.
OnlyCloses(x) ==
    /\ x.pc \in {"idle", "close_rows", "commit"}
    /\ x.op = IF x.pc = "idle" THEN "none" ELSE "auto_close"

TaskInv(x) == x \in Task /\ NeverReopens(x) /\ PcMatchesTask(x)

\* The typing of everything but the tasks.
Tables ==
    /\ fsm \in UserState
    /\ ticket \in [TicketIds -> TicketRow]
    /\ age \in [TicketIds -> 0 .. Timeout]
    /\ rowLock \in [TicketIds -> Tasks \cup {Loop, None}]
    /\ counterLock \in Tasks \cup {None}
    /\ shown \subseteq TicketIds
    /\ saved \subseteq TicketIds

IInv ==
    /\ TypeOK
    /\ \A t \in Tasks \cup {Loop} : TaskInv(task[t])
    /\ OnlyCloses(task[Loop])

-----------------------------------------------------------------------------
(* What the helpers return.                                                 *)

LEMMA Rows == NoTicket \in TicketRow /\ NewTicket \in TicketRow /\ ClosedTicket \in TicketRow
  BY DEF NoTicket, NewTicket, ClosedTicket, TicketRow, TicketStatus

\* A status changed on a row leaves a row.
LEMMA RowWithStatus ==
    ASSUME NEW r \in TicketRow, NEW s \in TicketStatus
    PROVE  [r EXCEPT !.status = s] \in TicketRow /\ [r EXCEPT !.status = s].open = r.open
  BY DEF TicketRow

\* A row updated column by column is a row.
LEMMA UpdatedTicketType ==
    ASSUME NEW cur \in TicketRow, NEW old \in TicketRow, NEW new \in TicketRow
    PROVE  UpdatedTicket(cur, old, new) \in TicketRow
  BY DEF UpdatedTicket, Net, TicketRow

\* It is open only if it was.
LEMMA UpdatedTicketOpen ==
    ASSUME NEW cur \in TicketRow, NEW old \in TicketRow, NEW new \in TicketRow,
           new.open => old.open, ~cur.open
    PROVE  ~UpdatedTicket(cur, old, new).open
  <1>1. UpdatedTicket(cur, old, new).open = Net(cur.open, old.open, new.open)
    BY DEF UpdatedTicket
  <1>2. old.open \in BOOLEAN /\ new.open \in BOOLEAN
    BY DEF TicketRow
  <1> QED
    BY <1>1, <1>2 DEF Net

LEMMA IdleInv == TaskInv(Idle) /\ OnlyCloses(Idle)
  BY Rows DEF TaskInv, OnlyCloses, NeverReopens, PcMatchesTask, Idle, Task, Pc, Op, NoTicket

\* A handler that starts without a ticket.
LEMMA FreshInv ==
    ASSUME NEW pc \in Pc \ {"relay", "flush", "commit"}, NEW op \in Op,
           NEW b \in SUBSET TicketIds,
           pc \in {"number", "chat"} => op = "create",
           pc = "close_rows" => op \in {"new", "auto_close"}
    PROVE  /\ TaskInv([Idle EXCEPT !.pc = pc, !.op = op, !.batch = b])
           /\ TaskInv([Idle EXCEPT !.pc = pc, !.op = op])
  <1>1. Idle \in Task /\ Idle.snap = NoTicket /\ Idle.row = NoTicket /\ Idle.k = None
    BY IdleInv DEF TaskInv, Idle
  <1>2. ASSUME NEW x \in {[Idle EXCEPT !.pc = pc, !.op = op, !.batch = b],
                          [Idle EXCEPT !.pc = pc, !.op = op]}
        PROVE  TaskInv(x)
    <2>1. x \in Task
      BY <1>1 DEF Task
    <2>2. /\ x.pc = pc /\ x.op = op /\ x.row = NoTicket /\ x.snap = NoTicket
      BY <1>1 DEF Task
    <2>3. NeverReopens(x) /\ PcMatchesTask(x)
      BY <2>2 DEF NeverReopens, PcMatchesTask, NoTicket
    <2> QED
      BY <2>1, <2>3 DEF TaskInv
  <1> QED
    BY <1>2

\* A handler that has loaded ticket k and is to write it.
LEMMA LoadedInv ==
    ASSUME TypeOK, NEW k \in TicketIds, NEW new \in TicketRow, new.open => ticket[k].open,
           NEW pc \in {"relay", "flush"}, NEW op \in Op
    PROVE  TaskInv(Loaded(pc, op, k, new))
  <1> DEFINE x == Loaded(pc, op, k, new)
  <1>1. Idle \in Task /\ ticket[k] \in TicketRow
    BY IdleInv DEF TaskInv, TypeOK
  <1>2. x \in Task
    BY <1>1 DEF Loaded, Task, Pc
  <1>3. x.pc = pc /\ x.op = op /\ x.k = k /\ x.row = new /\ x.snap = ticket[k]
    BY <1>1 DEF Loaded, Task
  <1> QED
    BY <1>2, <1>3 DEF TaskInv, NeverReopens, PcMatchesTask

\* A task that only moves on keeps what it has loaded.
LEMMA GotoInv ==
    ASSUME NEW x \in Task, TaskInv(x), NEW pc \in Pc \ {"number", "close_rows"},
           pc = "chat" => x.op = "create",
           pc \in {"relay", "flush"} => x.k \in TicketIds,
           pc = "commit" /\ x.op \in {"message", "reply", "status", "close"} =>
              x.k \in TicketIds
    PROVE  TaskInv([x EXCEPT !.pc = pc])
  <1> DEFINE y == [x EXCEPT !.pc = pc]
  <1>1. y \in Task
    BY DEF Task
  <1>2. y.pc = pc /\ y.op = x.op /\ y.k = x.k /\ y.row = x.row /\ y.snap = x.snap
    BY DEF Task
  <1> QED
    BY <1>1, <1>2 DEF TaskInv, NeverReopens, PcMatchesTask

\* A step that moves one task.
LEMMA MoveKeeps ==
    ASSUME IInv, NEW t \in Tasks \cup {Loop}, NEW x, TaskInv(x),
           t = Loop => OnlyCloses(x),
           task' = [task EXCEPT ![t] = x], Tables'
    PROVE  IInv'
  <1>1. task \in [Tasks \cup {Loop} -> Task] /\ x \in Task
    BY DEF IInv, TypeOK, TaskInv
  <1>2. TypeOK'
    BY <1>1 DEF TypeOK, Tables
  <1>3. \A u \in Tasks \cup {Loop} : task'[u] = IF u = t THEN x ELSE task[u]
    BY <1>1
  <1>4. \A u \in Tasks \cup {Loop} : TaskInv(task[u])'
    BY <1>3 DEF IInv, TaskInv, NeverReopens, PcMatchesTask
  <1>5. OnlyCloses(task[Loop])'
    BY <1>3 DEF IInv, OnlyCloses
  <1> QED
    BY <1>2, <1>4, <1>5 DEF IInv

\* A step that moves none.
LEMMA StayKeeps ==
    ASSUME IInv, UNCHANGED task, Tables'
    PROVE  IInv'
  BY DEF IInv, TypeOK, Tables, TaskInv, NeverReopens, PcMatchesTask, OnlyCloses

\* A program counter set in place.
LEMMA GotoIs ==
    ASSUME IInv, NEW t \in Tasks \cup {Loop}, NEW pc, Goto(t, pc)
    PROVE  task' = [task EXCEPT ![t] = [task[t] EXCEPT !.pc = pc]]
  BY DEF Goto

\* The end of a handler gives back its locks.
LEMMA ReleaseKeepsTables ==
    ASSUME Tables, NEW t, ReleaseLocks(t)
    PROVE  /\ rowLock' \in [TicketIds -> Tasks \cup {Loop, None}]
           /\ counterLock' \in Tasks \cup {None}
  BY DEF Tables, ReleaseLocks

LEMMA Facts == IInv => /\ Tables
                       /\ \A t \in Tasks \cup {Loop} : task[t] \in Task /\ TaskInv(task[t])
  BY DEF IInv, TypeOK, Tables, TaskInv

-----------------------------------------------------------------------------
(* The steps of the user, of the admins and of the clock.                   *)

\* Buttons that only change the user's state.
LEMMA TapKeeps ==
    ASSUME IInv, Tap
    PROVE  IInv'
  <1>1. Tables' /\ UNCHANGED task
    BY Facts DEF Tap, ContinueTicket, CancelNewTicket, ChoosePurchase, BackToReasons,
       Tables, UserState, tickets, locks, chat
  <1> QED
    BY <1>1, StayKeeps

LEMMA TickKeeps ==
    ASSUME IInv, Tick
    PROVE  IInv'
  <1>1. ASSUME NEW k \in TicketIds
        PROVE  (IF k \in Open /\ age[k] < Timeout THEN age[k] + 1 ELSE age[k]) \in 0 .. Timeout
    <2>1. age[k] \in 0 .. Timeout
      BY Facts DEF Tables
    <2> QED
      BY <2>1, ConversationAssumption
  <1>2. Tables' /\ UNCHANGED task
    BY <1>1, Facts DEF Tick, Tables, locks, chat
  <1> QED
    BY <1>2, StayKeeps

\* An update that starts a handler leaves every table alone, and the loop is no
\* handler.
LEMMA StartKeeps ==
    ASSUME IInv, NEW t \in Tasks, NEW x, Start(t, x), TaskInv(x),
           UNCHANGED <<fsm, tickets, locks, chat>>
    PROVE  IInv'
  <1>1. Tables'
    BY Facts DEF Tables, tickets, locks, chat
  <1>2. t # Loop
    BY ConversationAssumption
  <1> QED
    BY <1>1, <1>2, MoveKeeps DEF Start

\* The handlers that start without a ticket.
LEMMA FreshKeeps ==
    ASSUME IInv, NEW t \in Tasks,
           \/ StartCommand(t) \/ ConfirmNewTicket(t) \/ ChooseReason(t)
           \/ GateBeforeReason(t) \/ Message(t)
    PROVE  IInv'
  <1> DEFINE Fresh(pc, op) == [Idle EXCEPT !.pc = pc, !.op = op]
  <1>1. Open \subseteq TicketIds
    BY DEF Open
  <1>2. CASE StartCommand(t)
    <2> DEFINE pc == IF Open = {} THEN "ask_reason" ELSE "ask_confirm"
    <2> DEFINE x == [Idle EXCEPT !.op = "start", !.pc = pc]
    <2>1. TaskInv(Fresh(pc, "start"))
      BY FreshInv DEF Pc, Op
    <2>2. x = Fresh(pc, "start")
      BY DEF Idle
    <2> QED
      BY <1>2, <2>1, <2>2, StartKeeps DEF StartCommand
  <1>3. CASE ConfirmNewTicket(t)
    <2>1. TaskInv([Idle EXCEPT !.pc = "close_rows", !.op = "new", !.batch = Open])
      BY <1>1, FreshInv DEF Pc, Op
    <2> QED
      BY <1>3, <2>1, StartKeeps DEF ConfirmNewTicket
  <1>4. CASE ChooseReason(t)
    <2>1. TaskInv(Fresh("number", "create"))
      BY FreshInv DEF Pc, Op
    <2> QED
      BY <1>4, <2>1, StartKeeps DEF ChooseReason
  <1>5. CASE GateBeforeReason(t)
    <2>1. TaskInv(Fresh("ask_reason", "gate"))
      BY FreshInv DEF Pc, Op
    <2> QED
      BY <1>5, <2>1, StartKeeps DEF GateBeforeReason
  <1>6. CASE Message(t)
    <2>1. TaskInv(Fresh("find_ticket", "message"))
      BY FreshInv DEF Pc, Op
    <2> QED
      BY <1>6, <2>1, StartKeeps DEF Message
  <1> QED
    BY <1>2, <1>3, <1>4, <1>5, <1>6

\* A reply changes at most the status of the ticket.
LEMMA AdminReplyKeeps ==
    ASSUME IInv, NEW t \in Tasks, NEW k \in TicketIds, AdminReply(t, k)
    PROVE  IInv'
  <1> DEFINE s == IF ticket[k].status \in {"new", "viewed", "awaiting_admin"}
                  THEN "answered" ELSE ticket[k].status
             r == [ticket[k] EXCEPT !.status = s]
  <1>1. ticket[k] \in TicketRow
    BY Facts DEF Tables
  <1>2. r \in TicketRow /\ r.open = ticket[k].open
    BY <1>1 DEF TicketRow, TicketStatus
  <1>3. TaskInv(Loaded("flush", "reply", k, r))
    BY <1>2, LoadedInv DEF IInv, Op
  <1>4. Start(t, Loaded("flush", "reply", k, r))
    BY DEF AdminReply
  <1> QED
    BY <1>3, <1>4, StartKeeps DEF AdminReply

\* So does the choice of a status, whatever the status.
LEMMA SetStatusKeeps ==
    ASSUME IInv, NEW t \in Tasks, NEW k \in TicketIds, NEW s \in Choices, SetStatus(t, k, s)
    PROVE  IInv'
  <1> DEFINE r == [ticket[k] EXCEPT !.status = s]
  <1>1. r \in TicketRow /\ r.open = ticket[k].open
    BY Facts, RowWithStatus, ConversationAssumption DEF Tables
  <1>2. TaskInv(Loaded("flush", "status", k, r))
    BY <1>1, LoadedInv DEF IInv, Op
  <1> QED
    BY <1>2, StartKeeps DEF SetStatus

LEMMA CloseTicketKeeps ==
    ASSUME IInv, NEW t \in Tasks, NEW k \in TicketIds, CloseTicket(t, k)
    PROVE  IInv'
  <1>1. TaskInv(Loaded("flush", "close", k, ClosedTicket))
    BY Rows, LoadedInv DEF IInv, Op, ClosedTicket
  <1> QED
    BY <1>1, StartKeeps DEF CloseTicket

\* The loop starts a round.
LEMMA AutoCloseScanKeeps ==
    ASSUME IInv, AutoCloseScan
    PROVE  IInv'
  <1> DEFINE x == [Idle EXCEPT !.pc = "close_rows", !.op = "auto_close", !.batch = Inactive]
  <1>1. Inactive \in SUBSET TicketIds
    BY DEF Inactive, Open
  <1>2. TaskInv(x)
    BY <1>1, FreshInv DEF Pc, Op
  <1>3. OnlyCloses(x)
    BY DEF OnlyCloses, Idle
  <1>4. Tables'
    BY Facts DEF AutoCloseScan, Tables, tickets, locks, chat
  <1> QED
    BY <1>2, <1>3, <1>4, MoveKeeps DEF AutoCloseScan, Start

-----------------------------------------------------------------------------
(* The steps of a running task.                                             *)

\* A task that ends leaves nothing behind.
LEMMA FinishKeeps ==
    ASSUME IInv, NEW t \in Tasks \cup {Loop}, Finish(t), Tables'
    PROVE  IInv'
  BY IdleInv, MoveKeeps DEF Finish

\* The loop is never at a label of the handlers.
LEMMA LoopElsewhere ==
    ASSUME IInv, NEW t \in Tasks \cup {Loop}, ~At(t, "close_rows"), ~At(t, "commit"),
           ~At(t, "idle")
    PROVE  t \in Tasks /\ t # Loop
  BY DEF IInv, OnlyCloses, At

\* A handler, or the loop at its last row, moves on with what it has loaded.
LEMMA GotoKeeps ==
    ASSUME IInv, NEW t \in Tasks \cup {Loop}, NEW pc \in Pc \ {"number", "close_rows"},
           Goto(t, pc), Tables',
           pc = "chat" => task[t].op = "create",
           pc \in {"relay", "flush"} => task[t].k \in TicketIds,
           pc = "commit" /\ task[t].op \in {"message", "reply", "status", "close"} =>
              task[t].k \in TicketIds,
           t = Loop => pc = "commit" /\ task[t].pc # "idle"
    PROVE  IInv'
  <1> DEFINE x == [task[t] EXCEPT !.pc = pc]
  <1>1. task' = [task EXCEPT ![t] = x]
    BY GotoIs
  <1>2. task[t] \in Task /\ TaskInv(task[t])
    BY Facts
  <1>3. TaskInv(x)
    BY <1>2, GotoInv
  <1>4. t = Loop => OnlyCloses(x)
    BY <1>2 DEF IInv, OnlyCloses, Task
  <1> QED
    BY <1>1, <1>3, <1>4, MoveKeeps

\* The questions of /start and of the gate.
LEMMA AskKeeps ==
    ASSUME IInv, NEW t \in Tasks \cup {Loop}, AskConfirm(t) \/ AskReason(t)
    PROVE  IInv'
  <1>1. Tables'
    BY Facts DEF AskConfirm, AskReason, Tables, UserState, tickets, locks, chat
  <1>2. CASE Finish(t)
    BY <1>1, <1>2, FinishKeeps
  <1>3. CASE At(t, "ask_reason") /\ task[t].op = "new" /\ Goto(t, "commit")
    <2>1. t # Loop
      BY <1>3, LoopElsewhere DEF At
    <2> QED
      BY <1>1, <1>3, <2>1, GotoKeeps DEF Pc
  <1> QED
    BY <1>2, <1>3 DEF AskConfirm, AskReason

\* The creation of a ticket up to its commit.
LEMMA CreateKeeps ==
    ASSUME IInv, NEW t \in Tasks \cup {Loop}, TakeNumber(t) \/ StartChatting(t)
    PROVE  IInv'
  <1>1. t \in Tasks /\ t # Loop
    BY LoopElsewhere DEF TakeNumber, StartChatting, At
  <1>2. task[t].op = "create"
    BY Facts DEF TaskInv, PcMatchesTask, TakeNumber, StartChatting, At
  <1>3. Tables'
    BY <1>1, Facts DEF TakeNumber, StartChatting, Tables, UserState, tickets, locks, chat
  <1>4. CASE TakeNumber(t)
    BY <1>1, <1>2, <1>3, <1>4, GotoKeeps DEF TakeNumber, Pc
  <1>5. CASE StartChatting(t)
    BY <1>1, <1>2, <1>3, <1>5, GotoKeeps DEF StartChatting, Pc
  <1> QED
    BY <1>4, <1>5

LEMMA FindTicketKeeps ==
    ASSUME IInv, NEW t \in Tasks \cup {Loop}, FindTicket(t)
    PROVE  IInv'
  <1>1. t \in Tasks /\ t # Loop
    BY LoopElsewhere DEF FindTicket, At
  <1>2. Tables'
    BY Facts DEF FindTicket, Tables, tickets, locks, chat
  <1>3. CASE Goto(t, "ask_reason")
    BY <1>1, <1>2, <1>3, GotoKeeps DEF Pc
  <1>4. ASSUME NEW k \in Open,
               task' = [task EXCEPT ![t] = Loaded("relay", "message", k, ticket[k])]
        PROVE  IInv'
    <2>1. k \in TicketIds /\ ticket[k] \in TicketRow
      BY Facts DEF Open, Tables
    <2>2. TaskInv(Loaded("relay", "message", k, ticket[k]))
      BY <2>1, LoadedInv DEF IInv, Op
    <2> QED
      BY <1>1, <1>2, <1>4, <2>2, MoveKeeps
  <1> QED
    BY <1>3, <1>4 DEF FindTicket

\* The relay changes the status of its instance, never whether it is open.
LEMMA RelayToAdminKeeps ==
    ASSUME IInv, NEW t \in Tasks \cup {Loop}, RelayToAdmin(t)
    PROVE  IInv'
  <1> DEFINE s == IF task[t].row.status \in {"paid", "closed"}
                  THEN task[t].row.status ELSE "awaiting_admin"
             x == [task[t] EXCEPT !.pc = "flush", !.row.status = s]
  <1>1. t \in Tasks /\ t # Loop
    BY LoopElsewhere DEF RelayToAdmin, At
  <1>2. task[t] \in Task /\ task[t].k \in TicketIds /\ NeverReopens(task[t])
    BY Facts DEF TaskInv, PcMatchesTask, RelayToAdmin, At
  <1>3. task[t].row \in TicketRow
    BY <1>2 DEF Task
  <1>4. s \in TicketStatus \cup {"none"}
    BY <1>3 DEF TicketRow, TicketStatus
  <1>5. x \in Task
    BY <1>2, <1>3, <1>4 DEF Task, TicketRow, Pc
  <1>6. /\ x.pc = "flush" /\ x.op = task[t].op /\ x.k = task[t].k /\ x.snap = task[t].snap
        /\ x.row.open = task[t].row.open
    BY <1>2, <1>3 DEF Task, TicketRow
  <1>7. TaskInv(x)
    BY <1>2, <1>5, <1>6 DEF TaskInv, NeverReopens, PcMatchesTask
  <1>8. task' = [task EXCEPT ![t] = x]
    BY DEF RelayToAdmin
  <1>9. Tables'
    BY <1>2, Facts DEF RelayToAdmin, Tables, tickets, locks
  <1> QED
    BY <1>1, <1>7, <1>8, <1>9, MoveKeeps

LEMMA FlushKeeps ==
    ASSUME IInv, NEW t \in Tasks \cup {Loop}, Flush(t)
    PROVE  IInv'
  <1>1. t \in Tasks /\ t # Loop
    BY LoopElsewhere DEF Flush, At
  <1>2. task[t].k \in TicketIds
    BY Facts DEF TaskInv, PcMatchesTask, Flush, At
  <1>3. Tables'
    BY <1>1, <1>2, Facts DEF Flush, Tables, tickets, chat
  <1> QED
    BY <1>1, <1>2, <1>3, GotoKeeps DEF Flush, Pc

\* The bulk closings lock their rows.
LEMMA LockRowKeeps ==
    ASSUME IInv, NEW t \in Tasks \cup {Loop}, LockRow(t)
    PROVE  IInv'
  <1>1. PICK k \in TicketIds :
           \/ /\ task' = [task EXCEPT ![t].batch = @ \ {k}]
              /\ UNCHANGED rowLock
           \/ /\ rowLock' = [rowLock EXCEPT ![k] = t]
              /\ UNCHANGED task
    BY DEF LockRow
  <1>2. Tables'
    BY <1>1, Facts DEF LockRow, Tables, tickets, chat
  <1>3. CASE UNCHANGED task
    BY <1>2, <1>3, StayKeeps
  <1>4. CASE task' = [task EXCEPT ![t].batch = @ \ {k}]
    <2> DEFINE x == [task[t] EXCEPT !.batch = @ \ {k}]
    <2>1. task[t] \in Task /\ TaskInv(task[t])
      BY Facts
    <2>2. /\ x \in Task
          /\ x.pc = task[t].pc /\ x.op = task[t].op /\ x.k = task[t].k
          /\ x.snap = task[t].snap /\ x.row = task[t].row
      BY <2>1 DEF Task
    <2>3. TaskInv(x) /\ (t = Loop => OnlyCloses(x))
      BY <2>1, <2>2 DEF TaskInv, NeverReopens, PcMatchesTask, IInv, OnlyCloses
    <2>4. task' = [task EXCEPT ![t] = x]
      BY <1>4
    <2> QED
      BY <1>2, <2>3, <2>4, MoveKeeps
  <1> QED
    BY <1>1, <1>3, <1>4

LEMMA RowsLockedKeeps ==
    ASSUME IInv, NEW t \in Tasks \cup {Loop}, RowsLocked(t)
    PROVE  IInv'
  <1>1. task[t].pc = "close_rows" /\ task[t].op \in {"new", "auto_close"}
    BY Facts DEF TaskInv, PcMatchesTask, RowsLocked, At
  <1>2. t = Loop => task[t].op = "auto_close"
    BY <1>1 DEF IInv, OnlyCloses
  <1>3. Tables'
    BY Facts DEF RowsLocked, Tables, tickets, locks, chat
  <1>4. CASE task[t].op = "new"
    BY <1>1, <1>2, <1>3, <1>4, GotoKeeps DEF RowsLocked, Pc
  <1>5. CASE task[t].op = "auto_close"
    BY <1>1, <1>3, <1>5, GotoKeeps DEF RowsLocked, Pc
  <1> QED
    BY <1>1, <1>4, <1>5

-----------------------------------------------------------------------------
(* Commits and failures.                                                    *)

LEMMA CommitRowKeeps ==
    ASSUME IInv, NEW t \in Tasks \cup {Loop}, CommitRow(t)
    PROVE  IInv'
  <1> DEFINE k == task[t].k
  <1>1. task[t] \in Task /\ k \in TicketIds
    BY Facts DEF TaskInv, PcMatchesTask, CommitRow, At
  <1>2. ticket[k] \in TicketRow /\ task[t].snap \in TicketRow /\ task[t].row \in TicketRow
    BY <1>1, Facts DEF Tables, Task
  <1>3. UpdatedTicket(ticket[k], task[t].snap, task[t].row) \in TicketRow
    BY <1>2, UpdatedTicketType
  <1>4. ticket' \in [TicketIds -> TicketRow]
    BY <1>1, <1>3, Facts DEF CommitRow, Tables, tickets
  <1>5. age' \in [TicketIds -> 0 .. Timeout]
    BY <1>1, Facts, ConversationAssumption DEF CommitRow, Tables, tickets
  <1>6. Tables'
    BY <1>1, <1>4, <1>5, Facts, ReleaseKeepsTables DEF CommitRow, Tables
  <1> QED
    BY <1>6, FinishKeeps DEF CommitRow

LEMMA CommitTicketKeeps ==
    ASSUME IInv, NEW t \in Tasks \cup {Loop}, CommitTicket(t)
    PROVE  IInv'
  <1>1. PICK k \in TicketIds : /\ ticket' = [ticket EXCEPT ![k] = NewTicket]
                               /\ age' = [age EXCEPT ![k] = 0]
    BY DEF CommitTicket
  <1>2. Tables'
    BY <1>1, Rows, Facts, ReleaseKeepsTables, ConversationAssumption
       DEF CommitTicket, Tables, chat
  <1> QED
    BY <1>2, FinishKeeps DEF CommitTicket

LEMMA CommitClosedKeeps ==
    ASSUME IInv, NEW t \in Tasks \cup {Loop}, CommitClosed(t)
    PROVE  IInv'
  <1>1. Tables'
    BY Rows, Facts, ReleaseKeepsTables, ConversationAssumption DEF CommitClosed, Tables, chat
  <1> QED
    BY <1>1, FinishKeeps DEF CommitClosed

LEMMA AbortKeeps ==
    ASSUME IInv, NEW t \in Tasks \cup {Loop}, Abort(t)
    PROVE  IInv'
  <1>1. Tables'
    BY Facts, ReleaseKeepsTables DEF Abort, Tables, tickets, chat
  <1> QED
    BY <1>1, FinishKeeps DEF Abort

-----------------------------------------------------------------------------
(* The theorems.                                                            *)

LEMMA InitInv == Init => IInv
  <1> SUFFICES ASSUME Init PROVE IInv
    OBVIOUS
  <1>1. \A t \in Tasks \cup {Loop} : task[t] = Idle
    BY DEF Init
  <1>2. Idle \in Task
    BY IdleInv DEF TaskInv
  <1>3. TypeOK
    BY <1>2, Rows, ConversationAssumption DEF Init, TypeOK, UserState
  <1> QED
    BY <1>1, <1>3, IdleInv DEF IInv

LEMMA NextInv == IInv /\ [Next]_vars => IInv'
  <1> SUFFICES ASSUME IInv, [Next]_vars PROVE IInv'
    OBVIOUS
  <1>1. CASE UNCHANGED vars
    <2>1. UNCHANGED task /\ Tables'
      BY <1>1, Facts DEF vars, Tables
    <2> QED
      BY <2>1, StayKeeps
  <1>2. CASE Tap \/ AutoCloseScan \/ Tick
    BY <1>2, TapKeeps, AutoCloseScanKeeps, TickKeeps
  <1>3. ASSUME NEW t \in Tasks, Update(t) PROVE IInv'
    BY <1>3, FreshKeeps, AdminReplyKeeps, CloseTicketKeeps, SetStatusKeeps DEF Update
  <1>4. ASSUME NEW t \in Tasks \cup {Loop}, TaskStep(t) PROVE IInv'
    BY <1>4, AskKeeps, CreateKeeps, FindTicketKeeps, RelayToAdminKeeps, FlushKeeps,
       LockRowKeeps, RowsLockedKeeps, CommitRowKeeps, CommitTicketKeeps, CommitClosedKeeps
       DEF TaskStep
  <1>5. ASSUME NEW t \in Tasks \cup {Loop}, Abort(t) PROVE IInv'
    BY <1>5, AbortKeeps
  <1> QED
    BY <1>1, <1>2, <1>3, <1>4, <1>5 DEF Next

\* The inductive invariant: typing, and no task that would reopen a ticket.
THEOREM Invariance == Spec => []IInv
  BY InitInv, NextInv, PTL DEF Spec

\* Every state of the user, the tickets, the locks and the handlers is well typed.
THEOREM TypeCorrect == Spec => []TypeOK
  <1>1. IInv => TypeOK
    BY DEF IInv
  <1> QED
    BY <1>1, Invariance, PTL

\* The tickets change only where a handler or the loop commits.
LEMMA OnlyCommitsWrite ==
    ASSUME [Next]_vars, ticket' # ticket
    PROVE  \E t \in Tasks \cup {Loop} : CommitRow(t) \/ CommitTicket(t) \/ CommitClosed(t)
  <1>1. ASSUME Tap \/ AutoCloseScan \/ Tick PROVE FALSE
    BY <1>1 DEF Tap, ContinueTicket, CancelNewTicket, ChoosePurchase, BackToReasons,
       AutoCloseScan, Tick, tickets
  <1>2. ASSUME NEW t \in Tasks, Update(t) PROVE FALSE
    BY <1>2 DEF Update, StartCommand, ConfirmNewTicket, ChooseReason, GateBeforeReason,
       Message, AdminReply, CloseTicket, SetStatus, tickets
  <1>3. ASSUME NEW t \in Tasks \cup {Loop}, TaskStep(t)
        PROVE  CommitRow(t) \/ CommitTicket(t) \/ CommitClosed(t)
    <2>1. CASE AskConfirm(t) \/ AskReason(t) \/ TakeNumber(t) \/ StartChatting(t)
      BY <2>1 DEF AskConfirm, AskReason, TakeNumber, StartChatting, tickets
    <2>2. CASE FindTicket(t) \/ RelayToAdmin(t) \/ Flush(t)
      BY <2>2 DEF FindTicket, RelayToAdmin, Flush, tickets
    <2>3. CASE LockRow(t) \/ RowsLocked(t)
      BY <2>3 DEF LockRow, RowsLocked, tickets
    <2> QED
      BY <1>3, <2>1, <2>2, <2>3 DEF TaskStep
  <1>4. ASSUME NEW t \in Tasks \cup {Loop}, Abort(t) PROVE FALSE
    BY <1>4 DEF Abort, tickets
  <1>5. Next
    BY DEF vars
  <1> QED
    BY <1>1, <1>2, <1>3, <1>4, <1>5 DEF Next

\* No commit opens a ticket that exists and is closed: a row is written column by
\* column, a new ticket takes an id of its own, a bulk closing closes.
LEMMA CommitOpensNothing ==
    ASSUME IInv, NEW t \in Tasks \cup {Loop},
           CommitRow(t) \/ CommitTicket(t) \/ CommitClosed(t),
           NEW k \in TicketIds, Exists(k), ~ticket[k].open
    PROVE  ~ticket'[k].open
  <1>1. /\ ticket \in [TicketIds -> TicketRow]
        /\ task[t] \in Task /\ NeverReopens(task[t]) /\ PcMatchesTask(task[t])
    BY Facts DEF Tables, TaskInv
  <1>2. CASE CommitRow(t)
    <2>1. task[t].k \in TicketIds
      BY <1>1, <1>2 DEF PcMatchesTask, CommitRow, At
    <2>2. CASE ticket' = [ticket EXCEPT ![task[t].k] =
                             UpdatedTicket(@, task[t].snap, task[t].row)]
      <3>1. CASE k # task[t].k
        BY <1>1, <2>2, <3>1
      <3>2. CASE k = task[t].k
        <4>1. task[t].snap \in TicketRow /\ task[t].row \in TicketRow /\ ticket[k] \in TicketRow
          BY <1>1 DEF Task
        <4>2. ~UpdatedTicket(ticket[k], task[t].snap, task[t].row).open
          BY <1>1, <4>1, UpdatedTicketOpen DEF NeverReopens
        <4> QED
          BY <1>1, <2>1, <2>2, <3>2, <4>2
      <3> QED
        BY <3>1, <3>2
    <2>3. CASE UNCHANGED tickets
      BY <2>3 DEF tickets
    <2> QED
      BY <1>2, <2>2, <2>3 DEF CommitRow
  <1>3. CASE CommitTicket(t)
    BY <1>1, <1>3 DEF CommitTicket
  <1>4. CASE CommitClosed(t)
    BY <1>1, <1>4 DEF CommitClosed, ClosedTicket
  <1> QED
    BY <1>2, <1>3, <1>4

\* A closed ticket is never opened again, whatever instance loaded before the closing
\* is flushed after it.
THEOREM ClosedForGood == Spec => ClosedStaysClosed
  <1>1. IInv /\ [Next]_vars =>
          [\A k \in TicketIds : Exists(k) /\ ~ticket[k].open => ~ticket'[k].open]_vars
    <2> SUFFICES ASSUME IInv, [Next]_vars, NEW k \in TicketIds, Exists(k), ~ticket[k].open
                 PROVE  ~ticket'[k].open
      OBVIOUS
    <2>1. CASE ticket' = ticket
      BY <2>1
    <2>2. CASE ticket' # ticket
      BY <2>2, OnlyCommitsWrite, CommitOpensNothing
    <2> QED
      BY <2>1, <2>2
  <1> QED
    BY <1>1, Invariance, PTL DEF Spec, ClosedStaysClosed

-----------------------------------------------------------------------------
(***************************************************************************)
(* The spam guard, for any number of messages, any limit and any windows.  *)
(*                                                                         *)
(* What carries it is the window that is current: the messages it has      *)
(* counted and the one that opened it (WindowIs).  Two windows begin at    *)
(* least Window apart, so a time as long as Window meets two at most; and  *)
(* whoever is throttled is in a full one, which runs or has no expiry yet. *)
(* Repeats are a matter of marks: the mark of a text is no older than any  *)
(* message with that text that the guard still has to know of.             *)
(***************************************************************************)

\* Messages that got through, and that the guard still knows of.
Passed == {m \in Counted : ~msg[m].throttled /\ (redis \/ msg[m].at > booted)}

\* The order of times in a message, and what its step says of it.
MsgKnown(m) ==
    /\ msg[m].at # Nil => msg[m].at <= now
    /\ msg[m].at # Nil \/ msg[m].marked # Nil => msg[m].came # Nil
    /\ msg[m].came # Nil => msg[m].came <= now
    /\ msg[m].marked # Nil => msg[m].marked <= now /\ msg[m].text \in Texts
    /\ msg[m].opened # Nil => msg[m].at # Nil /\ msg[m].at <= msg[m].opened
    /\ msg[m].pc \in {"new", "incr"} => msg[m].at = Nil /\ ~msg[m].throttled
    /\ msg[m].pc = "expire" => msg[m].at # Nil /\ msg[m].first /\ msg[m].opened = Nil
    /\ msg[m].pc \in {"get", "set"} => msg[m].text \in Texts
    /\ msg[m].pc # "new" => msg[m].came # Nil
    /\ msg[m].pc \in {"new", "incr", "expire", "get", "set"} => msg[m].marked = Nil
    /\ msg[m].throttled => msg[m].at # Nil
    /\ m \in Running => redis

\* C are the messages of the current window, o the one that opened it.  Those that got
\* through before are no younger than o, and at most Limit of them are less than Window older.
WindowIs(C, o) ==
    /\ o \in C /\ C \subseteq Counted
    /\ Cardinality(C) = count
    /\ Cardinality(C \cap Passed) <= Limit
    /\ \A m \in C : msg[o].at <= msg[m].at
    /\ msg[o].first
    /\ since = msg[o].opened
    /\ redis \/ since # Nil
    /\ \A m \in Messages : GuardAt(m, "expire") => m = o
    /\ \A m \in Passed \ C : msg[m].at <= msg[o].at
    /\ Cardinality({m \in Passed \ C : msg[o].at < msg[m].at + Window}) <= Limit

NoWindow ==
    /\ count = 0 /\ since = Nil
    /\ Passed = {}
    /\ \A m \in Messages : ~GuardAt(m, "expire")

WindowKnown == NoWindow \/ \E C \in SUBSET Counted : \E o \in C : WindowIs(C, o)

\* The mark of a text is no older than any message that the guard still has to know of.
MarkKnown(k) ==
    msg[k].marked # Nil /\ (redis \/ msg[k].marked > booted) =>
        \/ mark[msg[k].text] # Nil /\ msg[k].marked <= mark[msg[k].text]
        \/ msg[k].marked + DupWindow < now

\* A message that has read the mark and not yet set it knows of the earlier ones.
RepeatSeen(k, m) ==
    /\ GuardAt(m, "set") /\ msg[k].text = msg[m].text
    /\ msg[k].marked # Nil /\ msg[k].marked < msg[m].came /\ now < msg[k].marked + DupWindow
    => msg[m].dup

GuardInv ==
    /\ GuardTypeOK
    /\ IsFiniteSet(Counted)
    /\ WindowKnown
    /\ \A m \in Messages : MsgKnown(m) /\ MarkKnown(m)
    /\ \A k, m \in Messages : RepeatSeen(k, m)
    /\ ThrottledForAReason /\ BurstIsBounded /\ RepeatIsFlagged

-----------------------------------------------------------------------------
(* Types, and sets of messages.                                             *)

LEMMA GuardConstants ==
    /\ Limit \in Nat \ {0} /\ Window \in Nat /\ DupWindow \in Nat /\ MaxTime \in Nat
    /\ Nil \notin Texts /\ Nil \notin Nat
  BY SpamGuardAssumption

LEMMA MsgTypes ==
    ASSUME GuardTypeOK, NEW m \in Messages
    PROVE  /\ msg[m] \in Msg
           /\ now \in Nat /\ booted \in Nat /\ since \in Nat \cup {Nil} /\ redis \in BOOLEAN
           /\ msg[m].text \in Texts \cup {Nil}
           /\ msg[m].came \in Nat \cup {Nil} /\ msg[m].at \in Nat \cup {Nil}
           /\ msg[m].opened \in Nat \cup {Nil} /\ msg[m].marked \in Nat \cup {Nil}
           /\ msg[m].throttled \in BOOLEAN
           /\ \A x \in Texts : mark[x] \in Nat \cup {Nil}
  BY GuardConstants DEF GuardTypeOK, Msg, Time

LEMMA CountedAt ==
    ASSUME GuardInv, NEW m \in Counted
    PROVE  m \in Messages /\ msg[m].at \in Nat /\ msg[m].at <= now /\ now \in Nat
  BY MsgTypes DEF Counted, GuardInv, MsgKnown

\* Of two sets the smaller one has fewer elements, and their union no more than both.
LEMMA Sizes ==
    ASSUME NEW S, NEW T, IsFiniteSet(S), IsFiniteSet(T), NEW U \in SUBSET (S \cup T)
    PROVE  /\ IsFiniteSet(U)
           /\ Cardinality(S) \in Nat /\ Cardinality(T) \in Nat /\ Cardinality(U) \in Nat
           /\ Cardinality(U) <= Cardinality(S) + Cardinality(T)
           /\ U \subseteq S => Cardinality(U) <= Cardinality(S)
  <1>1. /\ Cardinality(S) \in Nat /\ Cardinality(T) \in Nat
        /\ IsFiniteSet(S \cup T) /\ IsFiniteSet(S \cap T)
        /\ Cardinality(S \cup T) = Cardinality(S) + Cardinality(T) - Cardinality(S \cap T)
    BY FS_CardinalityType, FS_Union, FS_Intersection
  <1>2. Cardinality(S \cap T) \in Nat /\ Cardinality(S \cup T) \in Nat
    BY <1>1, FS_CardinalityType
  <1>3. IsFiniteSet(U) /\ Cardinality(U) <= Cardinality(S \cup T)
    BY <1>1, FS_Subset
  <1>4. U \subseteq S => Cardinality(U) <= Cardinality(S)
    BY FS_Subset
  <1>5. Cardinality(U) \in Nat
    BY <1>3, FS_CardinalityType
  <1> QED
    BY <1>1, <1>2, <1>3, <1>4, <1>5

LEMMA GuardInitInv == GuardInit => GuardInv
  <1> SUFFICES ASSUME GuardInit PROVE GuardInv
    OBVIOUS
  <1>1. Unseen \in Msg /\ Unseen.at = Nil /\ Unseen.came = Nil /\ Unseen.marked = Nil
        /\ Unseen.opened = Nil /\ Unseen.pc = "new" /\ Unseen.throttled = FALSE
    BY DEF Unseen, Msg
  <1>2. \A m \in Messages : msg[m] = Unseen
    BY DEF GuardInit
  <1>3. Counted = {} /\ Passed = {} /\ Running = {}
    BY <1>1, <1>2 DEF Counted, Passed, Running
  <1>4. IsFiniteSet(Counted) /\ Cardinality(Counted) = 0
    BY <1>3, FS_EmptySet
  <1>5. GuardTypeOK
    BY <1>1, <1>4, GuardConstants DEF GuardInit, GuardTypeOK, Time
  <1>6. WindowKnown
    BY <1>1, <1>2, <1>3 DEF WindowKnown, NoWindow, GuardInit, GuardAt
  <1>7. \A m \in Messages : MsgKnown(m) /\ MarkKnown(m)
    BY <1>1, <1>2, <1>3 DEF MsgKnown, MarkKnown
  <1>8. \A k, m \in Messages : RepeatSeen(k, m)
    BY <1>1, <1>2 DEF RepeatSeen
  <1>9. ThrottledForAReason /\ RepeatIsFlagged
    BY <1>1, <1>2 DEF ThrottledForAReason, RepeatIsFlagged
  <1>10. BurstIsBounded
    <2> SUFFICES ASSUME NEW a \in Time
                 PROVE  Cardinality({m \in Counted : /\ ~msg[m].throttled
                                                     /\ a <= msg[m].at /\ msg[m].at < a + Window
                                                     /\ redis \/ msg[m].at > booted}) <= 2 * Limit
      BY DEF BurstIsBounded
    <2>1. {m \in Counted : /\ ~msg[m].throttled
                           /\ a <= msg[m].at /\ msg[m].at < a + Window
                           /\ redis \/ msg[m].at > booted} = {}
      BY <1>3
    <2>2. Cardinality({}) = 0 /\ 0 <= 2 * Limit
      BY FS_EmptySet, GuardConstants
    <2> QED
      BY <2>1, <2>2
  <1> QED
    BY <1>4, <1>5, <1>6, <1>7, <1>8, <1>9, <1>10 DEF GuardInv

-----------------------------------------------------------------------------
(* Windows.                                                                 *)

\* The limit holds as long as it holds for the messages that got through.
LEMMA BurstOfPassed ==
    BurstIsBounded <=>
        \A a \in Time : Cardinality({m \in Passed : a <= msg[m].at /\ msg[m].at < a + Window}) <= 2 * Limit
  <1>1. \A a \in Time :
           {m \in Passed : a <= msg[m].at /\ msg[m].at < a + Window}
           = {m \in Counted : /\ ~msg[m].throttled
                              /\ a <= msg[m].at /\ msg[m].at < a + Window
                              /\ redis \/ msg[m].at > booted}
    BY DEF Passed
  <1> QED
    BY <1>1 DEF BurstIsBounded

LEMMA BurstOfPassedNext ==
    BurstIsBounded' <=>
        \A a \in Time : Cardinality({m \in Passed' : a <= msg'[m].at /\ msg'[m].at < a + Window}) <= 2 * Limit
  <1>1. \A a \in Time :
           {m \in Passed' : a <= msg'[m].at /\ msg'[m].at < a + Window}
           = {m \in Counted' : /\ ~msg'[m].throttled
                               /\ a <= msg'[m].at /\ msg'[m].at < a + Window
                               /\ redis' \/ msg'[m].at > booted'}
    BY DEF Passed
  <1> QED
    BY <1>1 DEF BurstIsBounded

\* What a step does that counts nothing.
CountsNothing ==
    /\ UNCHANGED <<redis, count, since>>
    /\ redis \/ booted' = booted
    /\ \A m \in Messages : /\ msg'[m].at = msg[m].at /\ msg'[m].throttled = msg[m].throttled
                           /\ msg'[m].first = msg[m].first /\ msg'[m].opened = msg[m].opened
                           /\ GuardAt(m, "expire")' => GuardAt(m, "expire")

Windows == IsFiniteSet(Counted) /\ WindowKnown /\ ThrottledForAReason /\ BurstIsBounded

LEMMA SameWindows ==
    ASSUME GuardInv, CountsNothing
    PROVE  Windows' /\ Counted' = Counted
  <1> USE DEF CountsNothing
  <1>1. Counted' = Counted
    BY DEF Counted
  <1>2. Passed' = Passed
    BY <1>1 DEF Passed, Counted
  <1>3. ASSUME NEW C \in SUBSET Counted, NEW o \in C, WindowIs(C, o)
        PROVE  WindowIs(C, o)'
    <2>1. \A m \in Counted : m \in Messages
      BY DEF Counted
    <2>2. Passed \subseteq Counted
      BY DEF Passed
    <2>3. {m \in Passed' \ C : msg'[o].at < msg'[m].at + Window}
          = {m \in Passed \ C : msg[o].at < msg[m].at + Window}
      BY <1>2, <2>1, <2>2
    <2> QED
      BY <1>1, <1>2, <1>3, <2>1, <2>2, <2>3 DEF WindowIs
  <1>4. WindowKnown'
    <2>1. NoWindow => NoWindow'
      BY <1>2 DEF NoWindow
    <2>2. WindowKnown
      BY DEF GuardInv
    <2> QED
      BY <1>1, <1>3, <2>1, <2>2 DEF WindowKnown
  <1>5. ThrottledForAReason'
    <2> SUFFICES ASSUME NEW m \in Messages, msg'[m].throttled
                 PROVE  \E o \in Counted' :
                          /\ msg'[o].first
                          /\ msg'[o].opened = Nil \/ msg'[m].at <= msg'[o].opened + Window
                          /\ Limit <= Cardinality({k \in Counted' \ {m} : msg'[o].at <= msg'[k].at
                                                                          /\ msg'[k].at <= msg'[m].at})
      BY DEF ThrottledForAReason
    <2>1. PICK o \in Counted :
             /\ msg[o].first
             /\ msg[o].opened = Nil \/ msg[m].at <= msg[o].opened + Window
             /\ Limit <= Cardinality({k \in Counted \ {m} : msg[o].at <= msg[k].at /\ msg[k].at <= msg[m].at})
      BY DEF GuardInv, ThrottledForAReason
    <2>2. {k \in Counted' \ {m} : msg'[o].at <= msg'[k].at /\ msg'[k].at <= msg'[m].at}
          = {k \in Counted \ {m} : msg[o].at <= msg[k].at /\ msg[k].at <= msg[m].at}
      BY <1>1 DEF Counted
    <2> QED
      BY <1>1, <2>1, <2>2 DEF Counted
  <1>6. BurstIsBounded'
    <2>1. \A a \in Time : {m \in Passed' : a <= msg'[m].at /\ msg'[m].at < a + Window}
                          = {m \in Passed : a <= msg[m].at /\ msg[m].at < a + Window}
      BY <1>2 DEF Passed, Counted
    <2> QED
      BY <2>1, BurstOfPassed, BurstOfPassedNext DEF GuardInv
  <1> QED
    BY <1>1, <1>4, <1>5, <1>6 DEF Windows, GuardInv

\* What a step does that counts message m, as the first of a new window or not.
Counts(m, new) ==
    /\ UNCHANGED <<redis, now, booted>>
    /\ msg[m].at = Nil
    /\ \A k \in Messages \ {m} : msg'[k] = msg[k]
    /\ msg'[m].at = now
    /\ count' = IF new THEN 1 ELSE count + 1
    /\ msg'[m].throttled <=> count' > Limit
    /\ new => /\ count = 0 \/ (since # Nil /\ since + Window <= now)
              /\ msg'[m].first
              /\ since' = msg'[m].opened
              /\ redis \/ since' # Nil
    /\ ~new => /\ count # 0
               /\ since' = since
               /\ msg'[m].pc # "expire"
               /\ since = Nil \/ now <= since + Window

LEMMA CountedNext ==
    ASSUME GuardInv, NEW m \in Messages, NEW new \in BOOLEAN, Counts(m, new)
    PROVE  /\ Counted' = Counted \cup {m} /\ m \notin Counted
           /\ IsFiniteSet(Counted')
           /\ count \in Nat /\ count' \in 0..Cardinality(Counted')
           /\ Passed \subseteq Passed' /\ Passed' \subseteq Passed \cup {m}
           /\ m \in Passed' => count' <= Limit
  <1>1. Counted' = Counted \cup {m} /\ m \notin Counted
    BY MsgTypes, GuardConstants DEF Counted, Counts, GuardInv
  <1>2. /\ IsFiniteSet(Counted') /\ Cardinality(Counted) \in Nat
        /\ Cardinality(Counted') = Cardinality(Counted) + 1
    BY <1>1, FS_AddElement, FS_CardinalityType DEF GuardInv
  <1>3. count \in 0..Cardinality(Counted)
    BY DEF GuardInv, GuardTypeOK
  <1>4. \A k \in Counted : k \in Messages \ {m} /\ msg'[k] = msg[k]
    BY <1>1 DEF Counted, Counts
  <1>5. Passed \subseteq Passed' /\ Passed' \subseteq Passed \cup {m}
    BY <1>1, <1>4 DEF Passed, Counts
  <1>6. m \in Passed' => count' <= Limit
    BY <1>2, <1>3, GuardConstants DEF Passed, Counts
  <1> QED
    BY <1>1, <1>2, <1>3, <1>5, <1>6 DEF Counts

\* It belongs to the window that is then the current one.
LEMMA WindowNext ==
    ASSUME GuardInv, NEW m \in Messages, NEW new \in BOOLEAN, Counts(m, new)
    PROVE  \E C \in SUBSET Counted' : \E o \in C : WindowIs(C, o)' /\ m \in C
  <1> USE DEF GuardAt
  <1>1. \A k \in Counted : /\ k \in Messages /\ k # m /\ msg'[k] = msg[k]
                           /\ msg[k].at \in Nat /\ msg[k].at <= now
    BY CountedNext, CountedAt DEF Counts, Counted
  <1>2. now \in Nat /\ Window \in Nat /\ Limit \in Nat \ {0} /\ Nil \notin Nat /\ since \in Nat \cup {Nil}
    BY MsgTypes, GuardConstants DEF GuardInv
  <1>3. Passed \subseteq Counted /\ IsFiniteSet(Counted) /\ IsFiniteSet(Counted') /\ Passed' \subseteq Counted'
    BY CountedNext DEF Passed, GuardInv
  <1>4. CASE new
    <2>1. {m} \in SUBSET Counted' /\ Cardinality({m}) = count' /\ IsFiniteSet({m})
      BY <1>4, CountedNext, FS_Singleton DEF Counts
    <2>2. Cardinality({m} \cap Passed') <= Limit
      BY <1>2, <2>1, <1>4, Sizes DEF Counts
    <2>3. \A k \in Messages : GuardAt(k, "expire")' => k = m
      <3> SUFFICES ASSUME NEW k \in Messages, k # m, msg[k].pc = "expire" PROVE FALSE
        BY DEF Counts
      <3>1. PICK C \in SUBSET Counted : \E o \in C : WindowIs(C, o)
        BY DEF GuardInv, WindowKnown, NoWindow
      <3>2. PICK o \in C : WindowIs(C, o)
        BY <3>1
      <3>3. count # 0
        <4>1. IsFiniteSet(C)
          BY <1>3, FS_Subset
        <4> QED
          BY <4>1, <3>2, FS_EmptySet DEF WindowIs
      <3>4. k = o /\ msg[k].opened = Nil
        BY <3>2 DEF WindowIs, GuardInv, MsgKnown
      <3> QED
        BY <3>2, <3>3, <3>4, <1>4 DEF WindowIs, Counts
    <2>4. \A k \in Passed' \ {m} : msg'[k].at <= msg'[m].at
      BY <1>1, <1>3, CountedNext DEF Counts
    <2>5. Cardinality({k \in Passed' \ {m} : msg'[m].at < msg'[k].at + Window}) <= Limit
      <3> DEFINE Late == {k \in Passed' \ {m} : msg'[m].at < msg'[k].at + Window}
      <3>1. Late \subseteq {k \in Passed : now < msg[k].at + Window}
        BY <1>1, <1>3, CountedNext DEF Counts
      <3>2. CASE NoWindow
        <4>1. Late = {}
          BY <3>1, <3>2 DEF NoWindow
        <4>2. Cardinality({}) = 0 /\ 0 <= Limit
          BY FS_EmptySet, <1>2
        <4> QED
          BY <4>1, <4>2
      <3>3. CASE ~NoWindow
        <4>1. PICK C \in SUBSET Counted : \E o \in C : WindowIs(C, o)
          BY <3>3 DEF GuardInv, WindowKnown
        <4>2. PICK o \in C : WindowIs(C, o)
          BY <4>1
        <4>3. IsFiniteSet(C) /\ count # 0
          <5>1. IsFiniteSet(C)
            BY <1>3, FS_Subset
          <5> QED
            BY <5>1, <4>2, FS_EmptySet DEF WindowIs
        <4>4. since # Nil /\ since + Window <= now /\ since = msg[o].opened
          BY <1>4, <4>2, <4>3 DEF Counts, WindowIs
        <4>5. msg[o].at <= since /\ msg[o].at \in Nat
          BY <4>4, <1>1 DEF GuardInv, MsgKnown
        <4>6. ASSUME NEW k \in Passed \ C PROVE ~(now < msg[k].at + Window)
          <5>1. msg[k].at <= msg[o].at /\ msg[k].at \in Nat
            BY <4>2, <1>1, <1>3 DEF WindowIs
          <5> QED
            BY <5>1, <4>4, <4>5, <1>2
        <4>7. Late \subseteq C \cap Passed
          BY <3>1, <4>6
        <4>8. IsFiniteSet(C \cap Passed)
          BY <4>3, FS_Intersection
        <4>9. Cardinality(Late) \in Nat /\ Cardinality(C \cap Passed) \in Nat
              /\ Cardinality(Late) <= Cardinality(C \cap Passed)
          <5> HIDE DEF Late
          <5> QED
            BY <4>7, <4>8, Sizes
        <4>10. Cardinality(C \cap Passed) <= Limit
          BY <4>2 DEF WindowIs
        <4> HIDE DEF Late
        <4>11. Cardinality(Late) <= Limit
          BY <4>9, <4>10, <1>2
        <4> QED
          BY <4>11 DEF Late
      <3> QED
        BY <3>2, <3>3
    <2>6. WindowIs({m}, m)'
      BY <2>1, <2>2, <2>3, <2>4, <2>5, <1>2, <1>4 DEF WindowIs, Counts
    <2> QED
      BY <2>1, <2>6
  <1>5. CASE ~new
    <2>1. count # 0
      BY <1>5 DEF Counts
    <2>2. PICK C \in SUBSET Counted : \E o \in C : WindowIs(C, o)
      BY <2>1 DEF GuardInv, WindowKnown, NoWindow
    <2>3. PICK o \in C : WindowIs(C, o)
      BY <2>2
    <2> DEFINE D == C \cup {m}
    <2>4. /\ D \in SUBSET Counted' /\ o \in D /\ m \in D /\ o \in Messages /\ o # m
          /\ msg'[o] = msg[o]
      BY <1>1, CountedNext
    <2>5. IsFiniteSet(D) /\ Cardinality(D) = count' /\ IsFiniteSet(C)
      <3>1. IsFiniteSet(C) /\ m \notin C
        BY <1>3, CountedNext, FS_Subset
      <3>2. Cardinality(C) = count /\ count' = count + 1
        BY <2>3, <1>5 DEF WindowIs, Counts
      <3> QED
        BY <3>1, <3>2, FS_AddElement
    <2>6. Cardinality(D \cap Passed') <= Limit
      <3>1. CASE m \in Passed'
        <4>1. count' <= Limit /\ count' \in Nat
          BY <3>1, CountedNext
        <4>2. /\ Cardinality(D \cap Passed') \in Nat
              /\ Cardinality(D \cap Passed') <= Cardinality(D)
          BY <2>5, Sizes
        <4> QED
          BY <4>1, <4>2, <2>5, <1>2
      <3>2. CASE m \notin Passed'
        <4>1. D \cap Passed' = C \cap Passed
          BY <3>2, CountedNext
        <4> QED
          BY <4>1, <2>3 DEF WindowIs
      <3> QED
        BY <3>1, <3>2
    <2>7. \A k \in D : msg'[o].at <= msg'[k].at
      BY <2>3, <2>4, <1>1 DEF WindowIs, Counts
    <2>8. \A k \in Messages : GuardAt(k, "expire")' => k = o
      BY <2>3, <1>5 DEF WindowIs, Counts
    <2>9. Passed' \ D = Passed \ C /\ \A k \in Passed \ C : msg'[k] = msg[k]
      BY <1>1, <1>3, CountedNext
    <2>10. {k \in Passed' \ D : msg'[o].at < msg'[k].at + Window}
           = {k \in Passed \ C : msg[o].at < msg[k].at + Window}
      BY <2>4, <2>9
    <2>11. /\ msg'[o].first /\ since' = msg'[o].opened /\ (redis' \/ since' # Nil)
           /\ \A k \in Passed' \ D : msg'[k].at <= msg'[o].at
           /\ Cardinality({k \in Passed' \ D : msg'[o].at < msg'[k].at + Window}) <= Limit
      BY <2>3, <2>4, <2>9, <2>10, <1>5 DEF WindowIs, Counts
    <2>12. WindowIs(D, o)'
      BY <2>4, <2>5, <2>6, <2>7, <2>8, <2>11 DEF WindowIs
    <2> QED
      BY <2>4, <2>12
  <1> QED
    BY <1>4, <1>5

LEMMA ReasonNext ==
    ASSUME GuardInv, NEW m \in Messages, NEW new \in BOOLEAN, Counts(m, new)
    PROVE  ThrottledForAReason'
  <1>1. \A k \in Counted : /\ k \in Messages /\ k # m /\ msg'[k] = msg[k]
                           /\ msg[k].at \in Nat /\ msg[k].at <= now
    BY CountedNext, CountedAt DEF Counts, Counted
  <1>2. now \in Nat /\ Window \in Nat /\ Limit \in Nat \ {0} /\ count \in Nat
    BY MsgTypes, GuardConstants, CountedNext DEF GuardInv
  <1>3. IsFiniteSet(Counted) /\ IsFiniteSet(Counted') /\ Counted' = Counted \cup {m} /\ m \notin Counted
    BY CountedNext DEF GuardInv
  <1> SUFFICES ASSUME NEW x \in Messages, msg'[x].throttled
               PROVE  \E o \in Counted' :
                        /\ msg'[o].first
                        /\ msg'[o].opened = Nil \/ msg'[x].at <= msg'[o].opened + Window
                        /\ Limit <= Cardinality({k \in Counted' \ {x} : msg'[o].at <= msg'[k].at
                                                                        /\ msg'[k].at <= msg'[x].at})
    BY DEF ThrottledForAReason
  <1>4. CASE x # m
    <2>1. msg'[x] = msg[x]
      BY <1>4 DEF Counts
    <2>2. PICK o \in Counted :
             /\ msg[o].first
             /\ msg[o].opened = Nil \/ msg[x].at <= msg[o].opened + Window
             /\ Limit <= Cardinality({k \in Counted \ {x} : msg[o].at <= msg[k].at /\ msg[k].at <= msg[x].at})
      BY <2>1 DEF GuardInv, ThrottledForAReason
    <2> DEFINE S == {k \in Counted \ {x} : msg[o].at <= msg[k].at /\ msg[k].at <= msg[x].at}
               T == {k \in Counted' \ {x} : msg'[o].at <= msg'[k].at /\ msg'[k].at <= msg'[x].at}
    <2>3. S \subseteq T /\ T \subseteq Counted'
      BY <1>1, <1>3, <2>1
    <2>4. Cardinality(S) \in Nat /\ Cardinality(T) \in Nat /\ Cardinality(S) <= Cardinality(T)
      <3> HIDE DEF S, T
      <3>1. IsFiniteSet(T)
        BY <2>3, <1>3, FS_Subset
      <3> QED
        BY <2>3, <3>1, Sizes
    <2>5. Limit <= Cardinality(T)
      <3>1. Limit <= Cardinality(S)
        BY <2>2
      <3> HIDE DEF S, T
      <3> QED
        BY <2>4, <3>1, <1>2
    <2> QED
      BY <2>1, <2>2, <2>5, <1>1, <1>3
  <1>5. CASE x = m
    <2>1. count' > Limit /\ ~new /\ count >= Limit /\ count # 0
      BY <1>2, <1>5 DEF Counts
    <2>2. PICK C \in SUBSET Counted : \E o \in C : WindowIs(C, o)
      BY <2>1 DEF GuardInv, WindowKnown, NoWindow
    <2>3. PICK o \in C : WindowIs(C, o)
      BY <2>2
    <2> DEFINE T == {k \in Counted' \ {x} : msg'[o].at <= msg'[k].at /\ msg'[k].at <= msg'[x].at}
    <2>4. C \subseteq T /\ T \subseteq Counted'
      BY <1>1, <1>3, <1>5, <2>3 DEF WindowIs, Counts
    <2>5. Limit <= Cardinality(T)
      <3> HIDE DEF T
      <3>1. IsFiniteSet(T)
        BY <2>4, <1>3, FS_Subset
      <3>2. Cardinality(C) <= Cardinality(T) /\ Cardinality(T) \in Nat
        BY <3>1, <2>4, Sizes
      <3>3. Cardinality(C) = count
        BY <2>3 DEF WindowIs
      <3> QED
        BY <3>2, <3>3, <2>1, <1>2
    <2>6. msg'[o] = msg[o] /\ o \in Counted'
      BY <1>1, <1>3
    <2>7. msg'[o].first /\ (msg'[o].opened = Nil \/ msg'[x].at <= msg'[o].opened + Window)
      BY <1>5, <2>1, <2>3, <2>6 DEF WindowIs, Counts
    <2> QED
      BY <2>5, <2>6, <2>7
  <1> QED
    BY <1>4, <1>5

LEMMA BurstNext ==
    ASSUME GuardInv, NEW m \in Messages, NEW new \in BOOLEAN, Counts(m, new)
    PROVE  BurstIsBounded'
  <1>1. \A k \in Counted : k \in Messages /\ k # m /\ msg'[k] = msg[k] /\ msg[k].at \in Nat
    BY CountedNext, CountedAt DEF Counts, Counted
  <1>2. now \in Nat /\ Window \in Nat /\ Limit \in Nat \ {0} /\ msg'[m].at = now
    BY MsgTypes, GuardConstants DEF GuardInv, Counts
  <1>3. /\ Passed \subseteq Counted /\ IsFiniteSet(Counted') /\ Passed' \subseteq Counted'
        /\ Counted' = Counted \cup {m}
        /\ Passed \subseteq Passed' /\ Passed' \subseteq Passed \cup {m}
    BY CountedNext DEF Passed
  <1> SUFFICES ASSUME NEW a \in Time
               PROVE  Cardinality({k \in Passed' : a <= msg'[k].at /\ msg'[k].at < a + Window}) <= 2 * Limit
    BY BurstOfPassedNext
  <1> DEFINE S == {k \in Passed' : a <= msg'[k].at /\ msg'[k].at < a + Window}
  <1>4. CASE m \notin S
    <2>1. S = {k \in Passed : a <= msg[k].at /\ msg[k].at < a + Window}
      BY <1>1, <1>3, <1>4
    <2> QED
      BY <2>1, BurstOfPassed DEF GuardInv
  <1>5. CASE m \in S
    <2>1. PICK C \in SUBSET Counted' : \E o \in C : WindowIs(C, o)' /\ m \in C
      BY WindowNext
    <2>2. PICK o \in C : WindowIs(C, o)' /\ m \in C
      BY <2>1
    <2> DEFINE A == C \cap Passed'
               B == {k \in Passed' \ C : msg'[o].at < msg'[k].at + Window}
    <2>3. msg'[o].at \in Nat /\ msg'[o].at <= now
      BY <2>2, <1>1, <1>2, <1>3 DEF WindowIs
    <2>4. S \subseteq A \cup B
      <3> SUFFICES ASSUME NEW k \in S, k \notin C PROVE msg'[o].at < msg'[k].at + Window
        OBVIOUS
      <3>1. a \in Nat /\ a <= msg'[k].at /\ now < a + Window /\ msg'[k].at \in Nat
        BY <1>1, <1>2, <1>3, <1>5, GuardConstants DEF Time
      <3> QED
        BY <3>1, <2>3, <1>2
    <2>5. A \subseteq Counted' /\ B \subseteq Counted'
      BY <1>3
    <2>6. Cardinality(A) <= Limit /\ Cardinality(B) <= Limit
      BY <2>2 DEF WindowIs
    <2> HIDE DEF A, B, S
    <2>7. IsFiniteSet(A) /\ IsFiniteSet(B)
      BY <2>5, <1>3, FS_Subset
    <2>8. /\ Cardinality(A) \in Nat /\ Cardinality(B) \in Nat /\ Cardinality(S) \in Nat
          /\ Cardinality(S) <= Cardinality(A) + Cardinality(B)
      BY <2>4, <2>7, Sizes
    <2>9. Cardinality(S) <= 2 * Limit
      BY <2>6, <2>8, <1>2
    <2> QED
      BY <2>9 DEF S
  <1> QED
    BY <1>4, <1>5

LEMMA WindowsNext ==
    ASSUME GuardInv, NEW m \in Messages, NEW new \in BOOLEAN, Counts(m, new)
    PROVE  Windows' /\ count' \in 0..Cardinality(Counted')
  <1>1. WindowKnown'
    BY WindowNext DEF WindowKnown
  <1> QED
    BY <1>1, CountedNext, ReasonNext, BurstNext DEF Windows

-----------------------------------------------------------------------------
(* Marks.                                                                   *)

\* A message that a step leaves alone.
LEMMA KnownNext ==
    ASSUME GuardInv, NEW k \in Messages, msg'[k] = msg[k], UNCHANGED redis,
           now' \in Nat, now <= now'
    PROVE  MsgKnown(k)'
  <1>1. MsgKnown(k)
    BY DEF GuardInv
  <1>2. /\ now \in Nat /\ Nil \notin Nat /\ msg[k].at \in Nat \cup {Nil}
        /\ msg[k].came \in Nat \cup {Nil} /\ msg[k].marked \in Nat \cup {Nil}
    BY MsgTypes, GuardConstants DEF GuardInv
  <1> QED
    BY <1>1, <1>2 DEF MsgKnown, Running

\* What a step does that marks nothing and reads no mark, and may take time or a restart.
MarksNothing ==
    /\ UNCHANGED <<redis, mark>>
    /\ now' \in Nat /\ now <= now'
    /\ redis \/ (booted' \in Nat /\ booted <= booted')
    /\ \A m \in Messages : /\ msg'[m].marked = msg[m].marked
                           /\ msg[m].marked # Nil \/ GuardAt(m, "set")' =>
                                  /\ msg'[m].text = msg[m].text
                                  /\ msg'[m].came = msg[m].came
                                  /\ msg'[m].dup = msg[m].dup
                           /\ GuardAt(m, "set")' => GuardAt(m, "set")

Marks ==
    /\ \A m \in Messages : MarkKnown(m)
    /\ \A k, m \in Messages : RepeatSeen(k, m)
    /\ RepeatIsFlagged

LEMMA SameMarks ==
    ASSUME GuardInv, MarksNothing
    PROVE  Marks'
  <1> USE DEF MarksNothing, GuardAt
  <1>1. \A m \in Messages : /\ msg[m].marked \in Nat \cup {Nil} /\ now \in Nat /\ booted \in Nat
                            /\ \A x \in Texts : mark[x] \in Nat \cup {Nil}
    BY MsgTypes DEF GuardInv
  <1>2. Nil \notin Nat /\ DupWindow \in Nat
    BY GuardConstants
  <1>3. ASSUME NEW m \in Messages PROVE MarkKnown(m)'
    <2>1. MarkKnown(m)
      BY DEF GuardInv
    <2> QED
      BY <1>1, <1>2, <2>1 DEF MarkKnown
  <1>4. ASSUME NEW k \in Messages, NEW m \in Messages PROVE RepeatSeen(k, m)'
    <2>1. RepeatSeen(k, m)
      BY DEF GuardInv
    <2> QED
      BY <1>1, <1>2, <2>1 DEF RepeatSeen
  <1>5. RepeatIsFlagged'
    <2> SUFFICES ASSUME NEW k \in Messages, NEW m \in Messages,
                        msg'[k].text = msg'[m].text,
                        msg'[k].marked # Nil, msg'[m].marked # Nil,
                        msg'[k].marked < msg'[m].came, msg'[m].marked < msg'[k].marked + DupWindow,
                        redis' \/ msg'[k].marked > booted'
                 PROVE  msg'[m].dup
      BY DEF RepeatIsFlagged
    <2>1. redis \/ msg[k].marked > booted
      BY <1>1, <1>2
    <2>2. RepeatIsFlagged
      BY DEF GuardInv
    <2> QED
      BY <2>1, <2>2 DEF RepeatIsFlagged
  <1> QED
    BY <1>3, <1>4, <1>5 DEF Marks

\* The invariant, put together again after a step.
LEMMA GuardInvNext ==
    ASSUME GuardTypeOK', Windows', Marks', \A m \in Messages : MsgKnown(m)'
    PROVE  GuardInv'
  BY DEF GuardInv, Windows, Marks

-----------------------------------------------------------------------------
(* The actions.                                                             *)

LEMMA ReceiveInv ==
    ASSUME GuardInv, NEW m \in Messages, NEW x \in Texts \cup {Nil}, Receive(m, x)
    PROVE  GuardInv'
  <1>1. msg[m] \in Msg /\ msg \in [Messages -> Msg] /\ now \in Time
    BY DEF GuardInv, GuardTypeOK
  <1>2. /\ msg' \in [Messages -> Msg]
        /\ \A k \in Messages \ {m} : msg'[k] = msg[k]
        /\ msg'[m].pc = "incr" /\ msg'[m].came = now
        /\ \A f \in {"at", "first", "opened", "throttled", "dup", "marked"} : msg'[m][f] = msg[m][f]
    BY <1>1 DEF Receive, Msg
  <1>3. MsgKnown(m) /\ msg[m].pc = "new" /\ redis
    BY DEF GuardInv, Receive, GuardAt
  <1>4. /\ msg'[m].at = msg[m].at /\ msg'[m].first = msg[m].first /\ msg'[m].opened = msg[m].opened
        /\ msg'[m].throttled = msg[m].throttled /\ msg'[m].marked = msg[m].marked
    BY <1>2
  <1>5. now \in Nat /\ booted \in Nat /\ Nil \notin Nat
    BY MsgTypes, GuardConstants DEF GuardInv
  <1>6. CountsNothing
    BY <1>2, <1>4 DEF CountsNothing, Receive, GuardAt
  <1>7. MarksNothing
    BY <1>2, <1>3, <1>4, <1>5 DEF MarksNothing, Receive, GuardAt, MsgKnown
  <1>8. MsgKnown(m)'
    BY <1>2, <1>3, <1>4, <1>5 DEF MsgKnown, Running, Receive
  <1>9. \A k \in Messages : MsgKnown(k)'
    BY <1>2, <1>5, <1>8, KnownNext DEF Receive
  <1>10. GuardTypeOK'
    BY <1>2, <1>6, SameWindows DEF GuardInv, GuardTypeOK, Receive
  <1> QED
    BY <1>6, <1>7, <1>9, <1>10, SameWindows, SameMarks, GuardInvNext

LEMMA IncrInv ==
    ASSUME GuardInv, NEW m \in Messages, Incr(m)
    PROVE  GuardInv'
  <1> DEFINE n == IF BurstOver THEN 1 ELSE count + 1
             new == BurstOver \/ count = 0
  <1>1. msg[m] \in Msg /\ msg \in [Messages -> Msg] /\ now \in Time /\ count \in Nat
    <2>1. Cardinality(Counted) \in Nat
      BY FS_CardinalityType DEF GuardInv
    <2> QED
      BY <2>1 DEF GuardInv, GuardTypeOK
  <1>2. /\ msg' \in [Messages -> Msg]
        /\ \A k \in Messages \ {m} : msg'[k] = msg[k]
        /\ msg'[m].at = now /\ (msg'[m].first <=> n = 1) /\ (msg'[m].throttled <=> n > Limit)
        /\ msg'[m].pc = (CASE n = 1 -> "expire"
                           [] n > Limit -> "over"
                           [] OTHER -> IF msg[m].text = Nil THEN "over" ELSE "get")
        /\ \A f \in {"text", "came", "opened", "dup", "marked"} : msg'[m][f] = msg[m][f]
    <2> DEFINE pc == CASE n = 1 -> "expire"
                       [] n > Limit -> "over"
                       [] OTHER -> IF msg[m].text = Nil THEN "over" ELSE "get"
               first == n = 1
               throttled == n > Limit
    <2>1. msg' = [msg EXCEPT ![m].at = now, ![m].first = first, ![m].throttled = throttled, ![m].pc = pc]
      BY DEF Incr
    <2>2. pc \in {"expire", "over", "get"} /\ first \in BOOLEAN /\ throttled \in BOOLEAN
      OBVIOUS
    <2> HIDE DEF n, pc, first, throttled
    <2>3. msg' \in [Messages -> Msg]
      BY <1>1, <2>1, <2>2 DEF Msg
    <2>4. msg'[m].at = now /\ msg'[m].pc = pc
      BY <1>1, <2>1, <2>2 DEF Msg
    <2>5. msg'[m].first = first
      BY <1>1, <2>1, <2>2 DEF Msg
    <2>6. msg'[m].throttled = throttled
      BY <1>1, <2>1, <2>2 DEF Msg
    <2>7. \A k \in Messages \ {m} : msg'[k] = msg[k]
      BY <1>1, <2>1
    <2>8. \A f \in {"text", "came", "opened", "dup", "marked"} : msg'[m][f] = msg[m][f]
      BY <1>1, <2>1 DEF Msg
    <2> QED
      BY <2>3, <2>4, <2>5, <2>6, <2>7, <2>8 DEF first, throttled, pc
  <1>3. MsgKnown(m) /\ msg[m].pc = "incr" /\ redis
    BY DEF GuardInv, MsgKnown, Running, Incr, GuardAt
  <1>4. /\ msg'[m].text = msg[m].text /\ msg'[m].came = msg[m].came
        /\ msg'[m].opened = msg[m].opened /\ msg'[m].dup = msg[m].dup /\ msg'[m].marked = msg[m].marked
    BY <1>2
  <1>5. /\ now \in Nat /\ booted \in Nat /\ Nil \notin Nat /\ Limit \in Nat \ {0} /\ Window \in Nat
        /\ since \in Nat \cup {Nil} /\ msg[m].text \in Texts \cup {Nil}
    BY MsgTypes, GuardConstants DEF GuardInv
  <1>6. msg[m].opened = Nil
    BY <1>3 DEF MsgKnown
  <1>7. count = 0 => since = Nil
    <2> SUFFICES ASSUME count = 0, ~NoWindow PROVE FALSE
      BY DEF NoWindow
    <2>1. PICK C \in SUBSET Counted : \E o \in C : WindowIs(C, o)
      BY DEF GuardInv, WindowKnown
    <2>2. IsFiniteSet(C) /\ Cardinality(C) = 0 /\ C # {}
      BY <2>1, FS_Subset DEF GuardInv, WindowIs
    <2> QED
      BY <2>2, FS_EmptySet
  <1>8. new \in BOOLEAN /\ n = count' /\ (new <=> n = 1) /\ count' = (IF new THEN 1 ELSE count + 1)
    BY <1>1 DEF Incr, BurstOver
  <1>9. Counts(m, new)
    <2>1. new => since' = Nil /\ (count = 0 \/ (since # Nil /\ since + Window <= now))
      BY <1>5, <1>7 DEF Incr, BurstOver
    <2>2. ~new => /\ count # 0 /\ since' = since
                  /\ since = Nil \/ now <= since + Window
      BY <1>5 DEF Incr, BurstOver
    <2>3. ~new => n # 1 /\ msg'[m].pc # "expire"
      BY <1>2, <1>8
    <2>4. (new => msg'[m].first) /\ (msg'[m].throttled <=> count' > Limit)
      <3> HIDE DEF n, new
      <3> QED
        BY <1>2, <1>8
    <2>5. UNCHANGED <<redis, now, booted>> /\ msg[m].at = Nil
      BY <1>3 DEF Incr, MsgKnown
    <2> HIDE DEF n, new
    <2> QED
      BY <1>2, <1>3, <1>4, <1>6, <1>8, <2>1, <2>2, <2>3, <2>4, <2>5 DEF Counts
  <1>10. Windows' /\ count' \in 0..Cardinality(Counted')
    <2> HIDE DEF n, new
    <2> QED
      BY <1>8, <1>9, WindowsNext
  <1>11. msg'[m].pc \in {"expire", "over", "get"}
    BY <1>2
  <1>12. MarksNothing
    BY <1>2, <1>3, <1>4, <1>5, <1>11 DEF MarksNothing, Incr, GuardAt, MsgKnown
  <1>13. MsgKnown(m)'
    <2>1. msg'[m].pc = "expire" => msg'[m].first
      BY <1>2
    <2>2. msg'[m].pc = "get" => msg'[m].text \in Texts
      BY <1>2, <1>4, <1>5
    <2>3. redis' /\ now' = now
      BY <1>3 DEF Incr
    <2>4. msg'[m].at = now
      BY <1>2
    <2> HIDE DEF n, new
    <2> QED
      BY <1>3, <1>4, <1>5, <1>6, <1>11, <2>1, <2>2, <2>3, <2>4 DEF MsgKnown, Running
  <1>14. \A k \in Messages : MsgKnown(k)'
    <2>1. now' = now /\ redis' = redis
      BY DEF Incr
    <2> HIDE DEF n, new
    <2> QED
      BY <1>2, <1>5, <1>13, <2>1, KnownNext
  <1>15. GuardTypeOK'
    <2>1. since' \in Time \cup {Nil} /\ UNCHANGED <<redis, now, booted, mark>>
      BY DEF GuardInv, GuardTypeOK, Incr
    <2> HIDE DEF n, new
    <2> QED
      BY <1>2, <1>10, <2>1 DEF GuardInv, GuardTypeOK
  <1> QED
    BY <1>10, <1>12, <1>14, <1>15, SameMarks, GuardInvNext

\* The first message of the window lets it run: what was open for good lasts from now on.
LEMMA ExpireInv ==
    ASSUME GuardInv, NEW m \in Messages, Expire(m)
    PROVE  GuardInv'
  <1>1. msg[m] \in Msg /\ msg \in [Messages -> Msg] /\ now \in Time
    BY DEF GuardInv, GuardTypeOK
  <1>2. /\ msg' \in [Messages -> Msg]
        /\ \A k \in Messages \ {m} : msg'[k] = msg[k]
        /\ msg'[m].opened = now
        /\ msg'[m].pc = (IF msg[m].text = Nil THEN "over" ELSE "get")
        /\ \A f \in {"text", "came", "at", "first", "throttled", "dup", "marked"} : msg'[m][f] = msg[m][f]
    BY <1>1 DEF Expire, Msg
  <1>3. /\ MsgKnown(m) /\ msg[m].pc = "expire" /\ redis /\ since' = now
        /\ UNCHANGED <<redis, now, booted, count, mark>>
    BY DEF GuardInv, MsgKnown, Running, Expire, GuardAt
  <1>4. /\ msg'[m].text = msg[m].text /\ msg'[m].came = msg[m].came /\ msg'[m].at = msg[m].at
        /\ msg'[m].first = msg[m].first /\ msg'[m].throttled = msg[m].throttled
        /\ msg'[m].dup = msg[m].dup /\ msg'[m].marked = msg[m].marked
    BY <1>2
  <1>5. /\ now \in Nat /\ booted \in Nat /\ Nil \notin Nat /\ Window \in Nat
        /\ msg[m].text \in Texts \cup {Nil} /\ msg[m].at \in Nat /\ msg[m].at <= now
    BY <1>3, MsgTypes, GuardConstants DEF GuardInv, MsgKnown
  <1>6. Counted' = Counted /\ Passed' = Passed
    <2>1. Counted' = Counted
      BY <1>2, <1>4 DEF Counted
    <2> QED
      BY <2>1, <1>2, <1>3, <1>4 DEF Passed, Counted
  <1>7. \A k \in Messages : msg'[k].at = msg[k].at /\ msg'[k].first = msg[k].first
                            /\ msg'[k].throttled = msg[k].throttled
    BY <1>2, <1>4
  <1>8. WindowKnown'
    <2>1. PICK C \in SUBSET Counted : \E o \in C : WindowIs(C, o)
      BY <1>3 DEF GuardInv, WindowKnown, NoWindow, GuardAt
    <2>2. PICK o \in C : WindowIs(C, o)
      BY <2>1
    <2>3. o = m
      BY <1>3, <2>2 DEF WindowIs, GuardAt
    <2>4. {k \in Passed' \ C : msg'[o].at < msg'[k].at + Window}
          = {k \in Passed \ C : msg[o].at < msg[k].at + Window}
      BY <1>6, <1>7, <2>2 DEF Passed, Counted
    <2>5. \A k \in Messages : ~GuardAt(k, "expire")'
      BY <1>2, <2>2, <2>3 DEF WindowIs, GuardAt
    <2>6. /\ \A k \in C : msg'[o].at <= msg'[k].at
          /\ \A k \in Passed' \ C : msg'[k].at <= msg'[o].at
          /\ msg'[o].first
      BY <1>6, <1>7, <2>2 DEF WindowIs, Passed, Counted
    <2>7. WindowIs(C, o)'
      BY <1>2, <1>3, <1>6, <2>2, <2>3, <2>4, <2>5, <2>6 DEF WindowIs
    <2> QED
      BY <1>6, <2>7 DEF WindowKnown
  <1>9. ThrottledForAReason'
    <2> SUFFICES ASSUME NEW x \in Messages, msg'[x].throttled
                 PROVE  \E o \in Counted' :
                          /\ msg'[o].first
                          /\ msg'[o].opened = Nil \/ msg'[x].at <= msg'[o].opened + Window
                          /\ Limit <= Cardinality({k \in Counted' \ {x} : msg'[o].at <= msg'[k].at
                                                                          /\ msg'[k].at <= msg'[x].at})
      BY DEF ThrottledForAReason
    <2>1. PICK o \in Counted :
             /\ msg[o].first
             /\ msg[o].opened = Nil \/ msg[x].at <= msg[o].opened + Window
             /\ Limit <= Cardinality({k \in Counted \ {x} : msg[o].at <= msg[k].at /\ msg[k].at <= msg[x].at})
      BY <1>7 DEF GuardInv, ThrottledForAReason
    <2>2. {k \in Counted' \ {x} : msg'[o].at <= msg'[k].at /\ msg'[k].at <= msg'[x].at}
          = {k \in Counted \ {x} : msg[o].at <= msg[k].at /\ msg[k].at <= msg[x].at}
      BY <1>6, <1>7 DEF Counted
    <2>3. x \in Counted /\ msg[x].at \in Nat /\ msg[x].at <= now
      BY <1>7, CountedAt DEF GuardInv, MsgKnown, Counted
    <2>4. msg'[o].opened = Nil \/ msg'[x].at <= msg'[o].opened + Window
      BY <1>2, <1>5, <1>7, <2>1, <2>3 DEF Counted
    <2> QED
      BY <1>6, <1>7, <2>1, <2>2, <2>4 DEF Counted
  <1>10. BurstIsBounded'
    <2>1. \A a \in Time : {k \in Passed' : a <= msg'[k].at /\ msg'[k].at < a + Window}
                          = {k \in Passed : a <= msg[k].at /\ msg[k].at < a + Window}
      BY <1>6, <1>7 DEF Passed, Counted
    <2> QED
      BY <2>1, BurstOfPassed, BurstOfPassedNext DEF GuardInv
  <1>11. Windows'
    BY <1>6, <1>8, <1>9, <1>10 DEF Windows, GuardInv
  <1>12. MarksNothing
    BY <1>2, <1>3, <1>4, <1>5 DEF MarksNothing, GuardAt, MsgKnown
  <1>13. MsgKnown(m)'
    BY <1>2, <1>3, <1>4, <1>5 DEF MsgKnown, Running
  <1>14. \A k \in Messages : MsgKnown(k)'
    BY <1>2, <1>3, <1>5, <1>13, KnownNext
  <1>15. GuardTypeOK'
    BY <1>1, <1>2, <1>3, <1>6 DEF GuardInv, GuardTypeOK
  <1> QED
    BY <1>11, <1>12, <1>14, <1>15, SameMarks, GuardInvNext

LEMMA GetMarkInv ==
    ASSUME GuardInv, NEW m \in Messages, GetMark(m)
    PROVE  GuardInv'
  <1> DEFINE dup == mark[msg[m].text] # Nil /\ now < mark[msg[m].text] + DupWindow
  <1>1. msg[m] \in Msg /\ msg \in [Messages -> Msg] /\ dup \in BOOLEAN
    BY DEF GuardInv, GuardTypeOK
  <1>2. /\ msg' \in [Messages -> Msg]
        /\ \A k \in Messages \ {m} : msg'[k] = msg[k]
        /\ msg'[m].pc = "set" /\ msg'[m].dup = dup
        /\ msg'[m].text = msg[m].text /\ msg'[m].came = msg[m].came /\ msg'[m].at = msg[m].at
        /\ msg'[m].first = msg[m].first /\ msg'[m].throttled = msg[m].throttled
        /\ msg'[m].opened = msg[m].opened /\ msg'[m].marked = msg[m].marked
    <2>1. msg' = [msg EXCEPT ![m].pc = "set", ![m].dup = dup]
      BY DEF GetMark
    <2> HIDE DEF dup
    <2>2. msg' \in [Messages -> Msg]
      BY <1>1, <2>1 DEF Msg
    <2>3. msg'[m].pc = "set" /\ \A k \in Messages \ {m} : msg'[k] = msg[k]
      BY <1>1, <2>1 DEF Msg
    <2>4. msg'[m].dup = dup
      BY <1>1, <2>1 DEF Msg
    <2>5. \A f \in {"text", "came", "at", "first", "throttled", "opened", "marked"} : msg'[m][f] = msg[m][f]
      BY <1>1, <2>1 DEF Msg
    <2> QED
      BY <2>2, <2>3, <2>4, <2>5
  <1>3. /\ MsgKnown(m) /\ msg[m].pc = "get" /\ redis /\ msg[m].marked = Nil /\ msg[m].text \in Texts
        /\ UNCHANGED <<redis, now, booted, count, since, mark>>
    BY DEF GuardInv, MsgKnown, Running, GetMark, GuardAt
  <1>4. /\ now \in Nat /\ booted \in Nat /\ Nil \notin Nat /\ DupWindow \in Nat
        /\ \A k \in Messages : msg[k].marked \in Nat \cup {Nil} /\ \A x \in Texts : mark[x] \in Nat \cup {Nil}
    BY MsgTypes, GuardConstants DEF GuardInv
  <1>5. CountsNothing
    BY <1>2, <1>3 DEF CountsNothing, GuardAt
  <1>6. ASSUME NEW k \in Messages PROVE MarkKnown(k)'
    BY <1>2, <1>3 DEF GuardInv, MarkKnown
  <1>7. ASSUME NEW k \in Messages, NEW x \in Messages PROVE RepeatSeen(k, x)'
    <2>1. CASE x # m
      BY <1>2, <1>3, <2>1 DEF GuardInv, RepeatSeen, GuardAt
    <2>2. CASE x = m
      <3> SUFFICES ASSUME msg'[k].text = msg[m].text, msg'[k].marked # Nil,
                          now < msg'[k].marked + DupWindow
                   PROVE  dup
        BY <1>2, <1>3, <2>2 DEF RepeatSeen
      <3>1. k # m /\ msg'[k] = msg[k] /\ MarkKnown(k)
        BY <1>2, <1>3 DEF GuardInv
      <3> QED
        BY <1>3, <1>4, <3>1 DEF MarkKnown
    <2> QED
      BY <2>1, <2>2
  <1>8. RepeatIsFlagged'
    <2>1. RepeatIsFlagged
      BY DEF GuardInv
    <2> QED
      BY <1>2, <1>3, <2>1 DEF RepeatIsFlagged
  <1>9. MsgKnown(m)'
    BY <1>2, <1>3, <1>4 DEF MsgKnown, Running
  <1>10. \A k \in Messages : MsgKnown(k)'
    BY <1>2, <1>3, <1>4, <1>9, KnownNext
  <1>11. GuardTypeOK'
    BY <1>2, <1>3, <1>5, SameWindows DEF GuardInv, GuardTypeOK
  <1> QED
    BY <1>5, <1>6, <1>7, <1>8, <1>10, <1>11, SameWindows, GuardInvNext DEF Marks

LEMMA SetMarkInv ==
    ASSUME GuardInv, NEW m \in Messages, SetMark(m)
    PROVE  GuardInv'
  <1>1. msg[m] \in Msg /\ msg \in [Messages -> Msg] /\ now \in Time /\ mark \in [Texts -> Time \cup {Nil}]
    BY DEF GuardInv, GuardTypeOK
  <1>2. /\ msg' \in [Messages -> Msg]
        /\ \A k \in Messages \ {m} : msg'[k] = msg[k]
        /\ msg'[m].pc = "over" /\ msg'[m].marked = now
        /\ msg'[m].text = msg[m].text /\ msg'[m].came = msg[m].came /\ msg'[m].at = msg[m].at
        /\ msg'[m].first = msg[m].first /\ msg'[m].throttled = msg[m].throttled
        /\ msg'[m].opened = msg[m].opened /\ msg'[m].dup = msg[m].dup
    BY <1>1 DEF SetMark, Msg
  <1>3. /\ MsgKnown(m) /\ msg[m].pc = "set" /\ redis /\ msg[m].marked = Nil /\ msg[m].text \in Texts
        /\ UNCHANGED <<redis, now, booted, count, since>>
        /\ mark' = [mark EXCEPT ![msg[m].text] = now]
    BY DEF GuardInv, MsgKnown, Running, SetMark, GuardAt
  <1>4. /\ now \in Nat /\ booted \in Nat /\ Nil \notin Nat /\ DupWindow \in Nat
        /\ \A k \in Messages : /\ msg[k].marked \in Nat \cup {Nil} /\ msg[k].came \in Nat \cup {Nil}
                               /\ msg[k].came # Nil => msg[k].came <= now
                               /\ msg[k].marked # Nil => msg[k].marked <= now /\ msg[k].text \in Texts
                                                         /\ msg[k].came # Nil
                               /\ msg[k].pc # "new" => msg[k].came # Nil
    BY MsgTypes, GuardConstants DEF GuardInv, MsgKnown
  <1>5. CountsNothing
    BY <1>2, <1>3 DEF CountsNothing, GuardAt
  <1>6. ASSUME NEW k \in Messages PROVE MarkKnown(k)'
    <2>1. CASE k = m
      BY <1>1, <1>2, <1>3, <1>4, <2>1 DEF MarkKnown
    <2>2. CASE k # m
      <3>1. MarkKnown(k) /\ msg'[k] = msg[k]
        BY <1>2, <2>2 DEF GuardInv
      <3> QED
        BY <1>1, <1>3, <1>4, <3>1 DEF MarkKnown
    <2> QED
      BY <2>1, <2>2
  <1>7. ASSUME NEW k \in Messages, NEW x \in Messages PROVE RepeatSeen(k, x)'
    <2>1. CASE k = m
      BY <1>2, <1>3, <1>4, <2>1 DEF RepeatSeen, GuardAt
    <2>2. CASE k # m
      BY <1>2, <1>3, <2>2 DEF GuardInv, RepeatSeen, GuardAt
    <2> QED
      BY <2>1, <2>2
  <1>8. RepeatIsFlagged'
    <2> SUFFICES ASSUME NEW k \in Messages, NEW x \in Messages,
                        msg'[k].text = msg'[x].text,
                        msg'[k].marked # Nil, msg'[x].marked # Nil,
                        msg'[k].marked < msg'[x].came, msg'[x].marked < msg'[k].marked + DupWindow
                 PROVE  msg'[x].dup
      BY DEF RepeatIsFlagged
    <2>1. CASE k = m
      BY <1>2, <1>3, <1>4, <2>1
    <2>2. CASE k # m /\ x = m
      <3>1. RepeatSeen(k, m)
        BY DEF GuardInv
      <3> QED
        BY <1>2, <1>3, <2>2, <3>1 DEF RepeatSeen, GuardAt
    <2>3. CASE k # m /\ x # m
      <3>1. RepeatIsFlagged /\ msg'[k] = msg[k] /\ msg'[x] = msg[x]
        BY <1>2, <2>3 DEF GuardInv
      <3> QED
        BY <1>3, <3>1 DEF RepeatIsFlagged
    <2> QED
      BY <2>1, <2>2, <2>3
  <1>9. MsgKnown(m)'
    BY <1>2, <1>3, <1>4 DEF MsgKnown, Running
  <1>10. \A k \in Messages : MsgKnown(k)'
    BY <1>2, <1>3, <1>4, <1>9, KnownNext
  <1>11. GuardTypeOK'
    BY <1>1, <1>2, <1>3, <1>5, SameWindows DEF GuardInv, GuardTypeOK
  <1> QED
    BY <1>5, <1>6, <1>7, <1>8, <1>10, <1>11, SameWindows, GuardInvNext DEF Marks

\* Collecting takes expired marks only.
LEMMA GcDupFacts ==
    ASSUME GuardTypeOK
    PROVE  /\ GcDup \in [Texts -> Time \cup {Nil}]
           /\ \A x \in Texts : GcDup[x] = mark[x] \/ (GcDup[x] = Nil /\ ~Live(x))
  BY DEF GcDup, GuardTypeOK

LEMMA RememberInv ==
    ASSUME GuardInv, NEW m \in Messages, NEW x \in Texts \cup {Nil}, Remember(m, x)
    PROVE  GuardInv'
  <1> DEFINE new == count = 0 \/ now > since + Window
             n == IF new THEN 1 ELSE count + 1
             checked == n <= Limit /\ x # Nil
             dup == checked /\ Live(x)
             y == [pc |-> "over", text |-> x, came |-> now, at |-> now, first |-> new,
                   opened |-> IF new THEN now ELSE Nil, throttled |-> n > Limit,
                   dup |-> dup, marked |-> IF checked THEN now ELSE Nil]
  <1>1. msg \in [Messages -> Msg] /\ now \in Time /\ count \in Nat /\ mark \in [Texts -> Time \cup {Nil}]
    <2>1. Cardinality(Counted) \in Nat
      BY FS_CardinalityType DEF GuardInv
    <2> QED
      BY <2>1 DEF GuardInv, GuardTypeOK
  <1>2. /\ ~redis /\ msg[m].pc = "new" /\ UNCHANGED <<redis, now, booted>>
        /\ count' = n /\ since' = (IF new THEN now ELSE since)
        /\ mark' = (IF checked THEN [GcDup EXCEPT ![x] = now] ELSE mark)
        /\ msg' = [msg EXCEPT ![m] = y]
    BY DEF Remember, GuardAt
  <1>3. /\ now \in Nat /\ booted \in Nat /\ Nil \notin Nat /\ Nil \notin Texts /\ DupWindow \in Nat
        /\ Window \in Nat /\ Limit \in Nat \ {0} /\ since \in Nat \cup {Nil}
        /\ \A k \in Messages : /\ msg[k].marked \in Nat \cup {Nil}
                               /\ msg[k].marked # Nil => msg[k].marked <= now /\ msg[k].text \in Texts
                               /\ msg[k].pc # "set"
        /\ \A z \in Texts : mark[z] \in Nat \cup {Nil}
    BY <1>2, MsgTypes, GuardConstants DEF GuardInv, MsgKnown, Running
  <1>4. MsgKnown(m)
    BY DEF GuardInv
  <1>5. new \in BOOLEAN /\ checked \in BOOLEAN /\ n \in Nat /\ (n > Limit) \in BOOLEAN
    BY <1>1
  <1>6. y \in Msg
    <2>1. dup \in BOOLEAN
      OBVIOUS
    <2> HIDE DEF n, checked, new, dup
    <2> QED
      BY <1>1, <1>5, <2>1 DEF Msg
  <1>7. msg' \in [Messages -> Msg] /\ msg'[m] = y /\ \A k \in Messages \ {m} : msg'[k] = msg[k]
    <2> HIDE DEF y
    <2> QED
      BY <1>1, <1>2, <1>6
  <1>8. Counts(m, new)
    <2>1. count # 0 => /\ since # Nil
                       /\ ~NoWindow
      <3> SUFFICES ASSUME count # 0 PROVE since # Nil
        BY DEF NoWindow
      <3>1. PICK C \in SUBSET Counted : \E o \in C : WindowIs(C, o)
        BY DEF GuardInv, WindowKnown, NoWindow
      <3> QED
        BY <3>1, <1>2 DEF WindowIs
    <2>2. count = 0 \/ (since # Nil /\ (now > since + Window => since + Window <= now)
                                    /\ (~(now > since + Window) => now <= since + Window))
      BY <2>1, <1>3
    <2>3. msg[m].at = Nil
      BY <1>2, <1>4 DEF MsgKnown
    <2>4. new => msg'[m].first /\ since' = msg'[m].opened /\ since' # Nil
      <3> HIDE DEF n, new, checked
      <3> QED
        BY <1>2, <1>3, <1>7
    <2>5. msg'[m].at = now /\ msg'[m].pc = "over"
      BY <1>7
    <2>6. msg'[m].throttled <=> count' > Limit
      <3> HIDE DEF n, new, checked
      <3> QED
        BY <1>2, <1>7
    <2>7. new => count = 0 \/ (since # Nil /\ since + Window <= now)
      BY <2>2
    <2>8. ~new => count # 0 /\ since' = since /\ (since = Nil \/ now <= since + Window)
      BY <2>2, <1>2
    <2>9. count' = IF new THEN 1 ELSE count + 1
      BY <1>2
    <2> HIDE DEF n, new, checked, dup, y
    <2> QED
      BY <1>2, <1>7, <2>3, <2>4, <2>5, <2>6, <2>7, <2>8, <2>9 DEF Counts
  <1>9. Windows' /\ count' \in 0..Cardinality(Counted')
    <2> HIDE DEF n, new, checked, dup, y
    <2> QED
      BY <1>5, <1>8, WindowsNext
  <1>10. /\ msg'[m].pc = "over" /\ msg'[m].text = x /\ msg'[m].came = now /\ msg'[m].at = now
         /\ msg'[m].opened \in {now, Nil}
         /\ msg'[m].marked = (IF checked THEN now ELSE Nil)
    BY <1>7
  <1>11. msg'[m].dup = dup
    <2> HIDE DEF checked, n, new, dup
    <2> QED
      BY <1>7
  <1>12. checked => x \in Texts
    OBVIOUS
  <1> HIDE DEF n, new, checked, dup, y
  <1>13. \A z \in Texts : \/ mark'[z] = mark[z]
                          \/ mark'[z] = Nil /\ ~Live(z)
                          \/ mark'[z] = now
    BY <1>1, <1>2, <1>12, GcDupFacts DEF GuardInv
  <1>14. checked => mark'[x] = now
    BY <1>2, <1>12, GcDupFacts DEF GuardInv
  <1>15. ASSUME NEW k \in Messages PROVE MarkKnown(k)'
    <2>1. CASE k = m
      BY <1>2, <1>3, <1>10, <1>12, <1>14, <2>1 DEF MarkKnown
    <2>2. CASE k # m
      <3> SUFFICES ASSUME msg[k].marked # Nil, msg[k].marked > booted
                   PROVE  \/ mark'[msg[k].text] # Nil /\ msg[k].marked <= mark'[msg[k].text]
                          \/ msg[k].marked + DupWindow < now
        BY <1>2, <1>7, <2>2 DEF MarkKnown
      <3>1. msg[k].text \in Texts /\ msg[k].marked \in Nat /\ msg[k].marked <= now
        BY <1>3
      <3>2. \/ mark[msg[k].text] # Nil /\ msg[k].marked <= mark[msg[k].text]
            \/ msg[k].marked + DupWindow < now
        BY <1>2 DEF GuardInv, MarkKnown
      <3>3. CASE mark'[msg[k].text] = now
        BY <3>1, <3>3, <1>3
      <3>4. CASE mark'[msg[k].text] = Nil /\ ~Live(msg[k].text)
        BY <3>1, <3>2, <3>4, <1>3 DEF Live
      <3> QED
        BY <1>13, <3>1, <3>2, <3>3, <3>4
    <2> QED
      BY <2>1, <2>2
  <1>16. ASSUME NEW k \in Messages, NEW z \in Messages PROVE RepeatSeen(k, z)'
    BY <1>3, <1>7, <1>10 DEF RepeatSeen, GuardAt
  <1>17. RepeatIsFlagged'
    <2> SUFFICES ASSUME NEW k \in Messages, NEW z \in Messages,
                        msg'[k].text = msg'[z].text,
                        msg'[k].marked # Nil, msg'[z].marked # Nil,
                        msg'[k].marked < msg'[z].came, msg'[z].marked < msg'[k].marked + DupWindow,
                        msg'[k].marked > booted
                 PROVE  msg'[z].dup
      BY <1>2 DEF RepeatIsFlagged
    <2>1. CASE k = m
      <3>1. msg'[k].marked = now /\ now < msg'[z].came
        BY <1>10, <2>1
      <3>2. msg'[z].came = now \/ (z # m /\ msg[z].came \in Nat /\ msg[z].came <= now /\ msg'[z] = msg[z])
        <4>1. CASE z # m
          <5>1. MsgKnown(z) /\ msg'[z] = msg[z] /\ msg[z].came \in Nat \cup {Nil}
            BY <1>7, <4>1, MsgTypes DEF GuardInv
          <5> QED
            BY <5>1, <4>1 DEF MsgKnown
        <4> QED
          BY <4>1, <1>10
      <3> QED
        BY <3>1, <3>2, <1>3
    <2>2. CASE k # m /\ z = m
      <3>1. checked /\ x \in Texts /\ msg[k].text = x
        BY <1>7, <1>10, <1>12, <2>2
      <3>2. msg[k].marked \in Nat /\ now < msg[k].marked + DupWindow /\ msg[k].marked > booted
        BY <1>3, <1>7, <1>10, <2>2, <3>1
      <3>3. mark[x] # Nil /\ msg[k].marked <= mark[x]
        BY <1>3, <3>1, <3>2 DEF GuardInv, MarkKnown
      <3>4. Live(x)
        BY <1>3, <3>1, <3>2, <3>3 DEF Live
      <3> QED
        BY <1>11, <2>2, <3>1, <3>4 DEF dup
    <2>3. CASE k # m /\ z # m
      <3>1. RepeatIsFlagged /\ msg'[k] = msg[k] /\ msg'[z] = msg[z]
        BY <1>7, <2>3 DEF GuardInv
      <3> QED
        BY <1>2, <3>1 DEF RepeatIsFlagged
    <2> QED
      BY <2>1, <2>2, <2>3
  <1>18. MsgKnown(m)'
    <2>1. msg'[m].throttled => msg'[m].at # Nil
      BY <1>3, <1>10
    <2>2. m \notin Running'
      BY <1>10 DEF Running
    <2> QED
      BY <1>2, <1>3, <1>10, <1>12, <2>1, <2>2 DEF MsgKnown
  <1>19. \A k \in Messages : MsgKnown(k)'
    BY <1>2, <1>3, <1>7, <1>18, KnownNext
  <1>20. GuardTypeOK'
    <2>1. mark' \in [Texts -> Time \cup {Nil}]
      BY <1>1, <1>2, GcDupFacts DEF GuardInv
    <2>2. since' \in Time \cup {Nil}
      BY <1>1, <1>2 DEF GuardInv, GuardTypeOK
    <2> QED
      BY <1>2, <1>7, <1>9, <2>1, <2>2 DEF GuardInv, GuardTypeOK
  <1> QED
    BY <1>9, <1>15, <1>16, <1>17, <1>19, <1>20, GuardInvNext DEF Marks

LEMMA FailInv ==
    ASSUME GuardInv, NEW m \in Messages, Fail(m)
    PROVE  GuardInv'
  <1>1. msg[m] \in Msg /\ msg \in [Messages -> Msg]
    BY DEF GuardInv, GuardTypeOK
  <1>2. /\ msg' \in [Messages -> Msg]
        /\ \A k \in Messages \ {m} : msg'[k] = msg[k]
        /\ msg'[m].pc = "failed" /\ msg'[m].marked = msg[m].marked
        /\ msg'[m].text = msg[m].text /\ msg'[m].came = msg[m].came /\ msg'[m].at = msg[m].at
        /\ msg'[m].first = msg[m].first /\ msg'[m].throttled = msg[m].throttled
        /\ msg'[m].opened = msg[m].opened /\ msg'[m].dup = msg[m].dup
    BY <1>1 DEF Fail, Msg
  <1>3. MsgKnown(m) /\ msg[m].pc # "new" /\ UNCHANGED <<redis, now, booted, count, since, mark>>
    BY DEF GuardInv, Fail, Running
  <1>4. now \in Nat /\ booted \in Nat
    BY MsgTypes DEF GuardInv
  <1>5. CountsNothing /\ MarksNothing
    BY <1>2, <1>3, <1>4 DEF CountsNothing, MarksNothing, GuardAt
  <1>6. MsgKnown(m)'
    BY <1>2, <1>3 DEF MsgKnown, Running
  <1>7. \A k \in Messages : MsgKnown(k)'
    BY <1>2, <1>3, <1>4, <1>6, KnownNext
  <1>8. GuardTypeOK'
    BY <1>2, <1>3, <1>5, SameWindows DEF GuardInv, GuardTypeOK
  <1> QED
    BY <1>5, <1>7, <1>8, SameWindows, SameMarks, GuardInvNext

\* Redis keeps everything; without it there is no window and nothing to remember.
LEMMA RestartInv ==
    ASSUME GuardInv, Restart
    PROVE  GuardInv'
  <1> USE DEF GuardAt
  <1>1. msg \in [Messages -> Msg] /\ now \in Time /\ UNCHANGED <<redis, now>> /\ booted' = now
    BY DEF GuardInv, GuardTypeOK, Restart
  <1>2. /\ msg' \in [Messages -> Msg]
        /\ \A k \in Messages :
              /\ msg'[k].pc = IF k \in Running THEN "failed" ELSE msg[k].pc
              /\ msg'[k].marked = msg[k].marked
              /\ msg'[k].text = msg[k].text /\ msg'[k].came = msg[k].came /\ msg'[k].at = msg[k].at
              /\ msg'[k].first = msg[k].first /\ msg'[k].throttled = msg[k].throttled
              /\ msg'[k].opened = msg[k].opened /\ msg'[k].dup = msg[k].dup
    BY <1>1 DEF Restart, Msg
  <1>3. Running' = {}
    BY <1>2 DEF Running
  <1>4. /\ now \in Nat /\ booted \in Nat /\ Nil \notin Nat
        /\ \A k \in Messages : msg[k].at \in Nat \cup {Nil} /\ msg[k].marked \in Nat \cup {Nil}
    BY <1>1, MsgTypes, GuardConstants DEF GuardInv, GuardTypeOK, Time
  <1>5. ASSUME NEW k \in Messages PROVE MsgKnown(k)'
    <2>1. /\ MsgKnown(k)
          /\ IF k \in Running THEN msg[k].pc # "new" ELSE msg[k].pc \in {"new", "over", "failed"}
      BY DEF GuardInv, Running
    <2> QED
      BY <1>1, <1>2, <1>3, <2>1 DEF MsgKnown
  <1>6. Counted' = Counted
    BY <1>2 DEF Counted
  <1>7. CASE redis
    <2>1. UNCHANGED <<count, since, mark>>
      BY <1>7 DEF Restart
    <2>2. CountsNothing
      BY <1>1, <1>2, <1>7, <2>1 DEF CountsNothing
    <2>3. \A k \in Messages : msg'[k].pc = "set" => FALSE
      BY <1>2 DEF Running
    <2>4. MarksNothing
      BY <1>1, <1>2, <1>4, <1>7, <2>1, <2>3 DEF MarksNothing
    <2>5. GuardTypeOK'
      BY <1>1, <1>2, <1>6, <2>1 DEF GuardInv, GuardTypeOK
    <2> QED
      BY <1>5, <2>2, <2>4, <2>5, SameWindows, SameMarks, GuardInvNext
  <1>8. CASE ~redis
    <2>1. count' = 0 /\ since' = Nil /\ mark' = [x \in Texts |-> Nil] /\ ~redis'
      BY <1>1, <1>8 DEF Restart
    <2>2. \A k \in Messages : /\ ~(msg'[k].at # Nil /\ msg'[k].at > booted')
                               /\ ~(msg'[k].marked # Nil /\ msg'[k].marked > booted')
      BY <1>1, <1>2, <1>4 DEF GuardInv, MsgKnown
    <2>3. Passed' = {}
      BY <2>1, <2>2 DEF Passed, Counted
    <2>4. WindowKnown'
      BY <1>2, <2>1, <2>3 DEF WindowKnown, NoWindow, Running
    <2>5. ThrottledForAReason'
      <3> SUFFICES ASSUME NEW x \in Messages, msg'[x].throttled
                   PROVE  \E o \in Counted' :
                            /\ msg'[o].first
                            /\ msg'[o].opened = Nil \/ msg'[x].at <= msg'[o].opened + Window
                            /\ Limit <= Cardinality({k \in Counted' \ {x} : msg'[o].at <= msg'[k].at
                                                                            /\ msg'[k].at <= msg'[x].at})
        BY DEF ThrottledForAReason
      <3>1. PICK o \in Counted :
               /\ msg[o].first
               /\ msg[o].opened = Nil \/ msg[x].at <= msg[o].opened + Window
               /\ Limit <= Cardinality({k \in Counted \ {x} : msg[o].at <= msg[k].at /\ msg[k].at <= msg[x].at})
        BY <1>2 DEF GuardInv, ThrottledForAReason
      <3>2. {k \in Counted' \ {x} : msg'[o].at <= msg'[k].at /\ msg'[k].at <= msg'[x].at}
            = {k \in Counted \ {x} : msg[o].at <= msg[k].at /\ msg[k].at <= msg[x].at}
        BY <1>2, <1>6 DEF Counted
      <3>3. /\ o \in Counted' /\ msg'[o].first /\ msg'[o].opened = msg[o].opened
            /\ msg'[x].at = msg[x].at
        BY <1>2, <1>6, <3>1 DEF Counted
      <3> QED
        BY <3>1, <3>2, <3>3
    <2>6. BurstIsBounded'
      <3>1. \A a \in Time : {k \in Passed' : a <= msg'[k].at /\ msg'[k].at < a + Window} = {}
        BY <2>3
      <3>2. Cardinality({}) = 0 /\ 0 <= 2 * Limit
        BY FS_EmptySet, GuardConstants
      <3> QED
        BY <3>1, <3>2, BurstOfPassedNext
    <2>7. Windows'
      BY <1>6, <2>4, <2>5, <2>6 DEF Windows, GuardInv
    <2>8. Marks'
      <3>1. \A k \in Messages : MarkKnown(k)'
        BY <2>1, <2>2 DEF MarkKnown
      <3>2. \A k, x \in Messages : RepeatSeen(k, x)'
        BY <1>2 DEF RepeatSeen, Running
      <3>3. RepeatIsFlagged'
        BY <2>1, <2>2 DEF RepeatIsFlagged
      <3> QED
        BY <3>1, <3>2, <3>3 DEF Marks
    <2>9. 0 \in 0..Cardinality(Counted')
      BY <1>6, FS_CardinalityType DEF GuardInv
    <2>10. GuardTypeOK'
      BY <1>1, <1>2, <2>1, <2>9 DEF GuardInv, GuardTypeOK
    <2> QED
      BY <1>5, <2>7, <2>8, <2>10, GuardInvNext
  <1> QED
    BY <1>7, <1>8

LEMMA GuardTickInv ==
    ASSUME GuardInv, GuardTick
    PROVE  GuardInv'
  <1>1. now' = now + 1 /\ now' \in Time /\ UNCHANGED <<redis, booted, count, since, mark, msg>>
    BY GuardConstants DEF GuardTick, GuardInv, GuardTypeOK, Time
  <1>2. now \in Nat /\ booted \in Nat /\ now' \in Nat /\ now <= now'
    BY <1>1 DEF GuardInv, GuardTypeOK, Time
  <1>3. CountsNothing /\ MarksNothing
    BY <1>1, <1>2 DEF CountsNothing, MarksNothing, GuardAt
  <1>4. \A k \in Messages : MsgKnown(k)'
    BY <1>1, <1>2, KnownNext
  <1>5. GuardTypeOK'
    BY <1>1, <1>3, SameWindows DEF GuardInv, GuardTypeOK
  <1> QED
    BY <1>3, <1>4, <1>5, SameWindows, SameMarks, GuardInvNext

LEMMA GuardNextInv ==
    ASSUME GuardInv, [GuardNext]_guardVars
    PROVE  GuardInv'
  <1>1. CASE UNCHANGED guardVars
    <2>1. CountsNothing /\ MarksNothing
      <3>1. now \in Nat /\ booted \in Nat
        BY GuardConstants DEF GuardInv, GuardTypeOK, Time
      <3> QED
        BY <1>1, <3>1 DEF guardVars, CountsNothing, MarksNothing, GuardAt
    <2>2. \A k \in Messages : MsgKnown(k)'
      BY <1>1, <2>1, KnownNext DEF guardVars, MarksNothing
    <2>3. GuardTypeOK'
      BY <1>1, <2>1, SameWindows DEF guardVars, GuardInv, GuardTypeOK
    <2> QED
      BY <2>1, <2>2, <2>3, SameWindows, SameMarks, GuardInvNext
  <1>2. CASE GuardNext
    BY <1>2, ReceiveInv, IncrInv, ExpireInv, GetMarkInv, SetMarkInv, RememberInv, FailInv,
       RestartInv, GuardTickInv DEF GuardNext
  <1> QED
    BY <1>1, <1>2

-----------------------------------------------------------------------------
(* Theorems.                                                                *)

\* In every reachable state of the guard windows and marks are known.
THEOREM GuardInvariance == GuardSpec => []GuardInv
  BY GuardInitInv, GuardNextInv, PTL DEF GuardSpec

\* The clock, the counter, the marks and the messages are well typed.
THEOREM GuardTypeCorrect == GuardSpec => []GuardTypeOK
  <1>1. GuardInv => GuardTypeOK
    BY DEF GuardInv
  <1> QED
    BY <1>1, GuardInvariance, PTL

\* Nobody is throttled without a window that is full and runs, or never ends.
THEOREM ThrottledWithReason == GuardSpec => []ThrottledForAReason
  <1>1. GuardInv => ThrottledForAReason
    BY DEF GuardInv
  <1> QED
    BY <1>1, GuardInvariance, PTL

\* No more than twice the limit gets through in a time as long as the window.
THEOREM TwiceTheLimit == GuardSpec => []BurstIsBounded
  <1>1. GuardInv => BurstIsBounded
    BY DEF GuardInv
  <1> QED
    BY <1>1, GuardInvariance, PTL

\* A repeat that began after the first one was marked is flagged.
THEOREM RepeatsAreFlagged == GuardSpec => []RepeatIsFlagged
  <1>1. GuardInv => RepeatIsFlagged
    BY DEF GuardInv
  <1> QED
    BY <1>1, GuardInvariance, PTL

=============================================================================
