# historyentk_bot: a TLA+ verification project

The program is a Telegram bot that relays messages between the readers of a channel and the
administrators in one admin chat, sends payment requisites, collects receipts and keeps the
revenue. It is Python (aiogram, SQLAlchemy, asyncpg): one process, one event loop, **one asyncio
task per update**. Every `await` is a point where other handlers run. What is hard about it is not
in any one handler: it is two admins tapping the same button, a stale ORM instance flushed after
a lock was awaited, a message that went out before a commit that failed.

Paths below are relative to the repository (`app/...`, in `PROJECT.json` `src/app/...`).

## 1. Inventory

| Component | State | Operations | Interacts with |
|---|---|---|---|
| Payment desk (`handlers/admin/payment.py`, `services/payments.py`) | rows of `payments` (status, `counted_in_revenue`, amounts), the admin's FSM state and data | review, edit the amount, confirm, reject, ask again, cancel | tickets (status paid), Telegram, FSM storage |
| Receipts (`handlers/user/receipt.py`) | the user's FSM state, `payments` | ask for a receipt, take it | admin chat |
| Requisites (`handlers/admin/requisites.py`) | admin's FSM data (kind, ticket, amount, comment), `requisites`, `payments` | amount, comment, preview, send | user chat, tickets |
| Ticket numbers (`services/tickets.py`) | the one row of `ticket_counter` | `next_ticket_number`, `create_ticket` | every handler that opens a ticket |
| Conversation (`handlers/user/start.py`, `reason.py`, `messages.py`) | the user's FSM state, `tickets`, `ticket_messages`, `users` | /start, /new, confirmation, reasons, gate, relay | admin chat, spam guard |
| Replies and reactions (`handlers/admin/reply.py`, `reaction.py`) | `ticket_messages` (the mapping of admin-chat messages to tickets) | reply, mirror a reaction, refuse | user chat |
| Status and closing (`handlers/admin/status.py`, `services/auto_close.py`) | `tickets` (status, `is_open`, `updated_at`) | set a status, close, close the inactive ones | all of the above |
| Session per update (`middlewares/db.py`, `db/session.py`) | a transaction per handler, a pool of 10+20 connections | commit, rollback | PostgreSQL |
| FSM storage (`services/fsm_storage.py`) | a row per chat member (state, data as JSON) | set/get state and data, each a transaction on a connection of its own | the same pool, every handler |
| Delivery (`services/queue.py`) | none | send with retries | Telegram |
| Spam guard (`services/spam_guard.py`) | a burst counter with its window and marks of duplicates, in Redis or in memory | throttled?, duplicate? | relay |
| Reports (`services/finance.py`, `stats.py`, `handlers/admin/{finance,stats,report,history}.py`) | the admin's custom-period flow | sums and counts over a period, export, the card of a user | `payments`, `tickets` |
| Payment settings (`handlers/admin/payment_settings.py`) | `requisites`, admin's FSM | edit one field | requisites flow |
| Backup and restore (`services/backup.py`, `handlers/admin/backup.py`) | files in `backups/`, the admin's restore flow | daily dump, /backup, pruning; ask, confirm, run `psql` | `pg_dump`, `psql`, a database in use |
| Dispatcher and entry point (`bot.py`, `main.py`) | router order, back-off | dispatch, migrations, restart polling, background tasks | everything |

**Concurrency.** Updates are dispatched without isolation per chat, so two updates of one user or
two admins run at the same time; the two background tasks (auto-close, backup) run beside them.
**Failure.** A handler that raises is rolled back by the session's context manager and reported by
`on_error`; messages already sent and FSM writes are not undone. A process restart is the same
for the database. **Ordering.** Telegram messages go out before the commit; FSM state is committed
on its own, at once. **Time.** Auto-close after 30 minutes, retries and flood control in delivery,
the pool's and the driver's timeouts.

What makes each component correct:

- *payments*: a confirmed payment is counted, with an amount, after the bot told its user or found
  that they had blocked it, and leaves the revenue only by a cancellation while it is confirmed;
  handlers that wait for each other's rows do not wait in a circle. (That the amount is one the
  admin was shown is what the repository's README says, and what the code does not give.)
- *ticket numbers*: 1, 2, 3, ... without gap or repetition.
- *conversation*: a second ticket needs a confirmation; a closed ticket stays closed; an abandoned
  one is closed in the end; a user is never stuck in a state of the FSM.
- *replies*: a reply reaches the user whose message it answers, or the admin learns that it did not.
- *requisites*: what is booked as pending is what the user received.
- *FSM storage*: a call is atomic and touches its own column, whatever overlaps; handlers that hold
  one connection and want another do not wait for ever.
- *delivery*: no send is reported that did not arrive.
- *spam guard*: nobody is throttled without a reason, no more than a bounded burst passes, repeats are
  flagged.
- *reports*: what the queries of one report, of different days and of different commands say of the
  same payment fits together.
- *backup*: backups go on through any failure, and none is lost but to newer ones; *restore* says
  done only when its script ran to its end, alone; *polling* comes back. (That a restore overwrites
  the data is what the docstring and the question say, and what the code does not do.)

## 2. Modules

| Module | What it is |
|---|---|
| `Payments` | payment desk and receipts; one step per await that touches shared state |
| `PaymentsProofs` | its inductive invariant and the theorems about it |
| `Numbering` | abstract specification of ticket numbers |
| `TicketNumbers` | `next_ticket_number`/`create_ticket` in detail; refines `Numbering` |
| `TicketNumbersProofs` | the refinement and its invariant, proved |
| `Conversation` | one user's FSM and tickets, the admins' actions on them, the auto-close loop |
| `ReplyChannel` | abstract specification of an admin's reply: its author or nobody gets it |
| `Relay` | the mapping between the chats, replies, reactions, `send_with_retry`; refines `ReplyChannel` |
| `RelayProofs` | its inductive invariant, the mirroring of reactions and the refinement |
| `Requisites` | the requisites flow, from the amount to the booked payment, and /payment_settings |
| `RequisitesProofs` | its inductive invariant and the theorems about what users are asked for |
| `FsmStore` | abstract specification of the FSM storage: atomic calls on cells |
| `FsmStorage` | `PostgresStorage` statement by statement, and the connection pool; refines `FsmStore` |
| `FsmStorageProofs` | that refinement, proved |
| `SpamGuard` | both spam guards, on Redis and in memory, with a clock and restarts |
| `ConversationProofs` | that closed tickets stay closed, and the three properties of the spam guard |
| `Reports` | periods, the queries of every report, and the tickets and payments that change between them |
| `ReportsProofs` | its inductive invariant, its typing and its three properties, proved |
| `Backup` | the process: migrations, polling with retries, the daily loop, /backup and pruning |
| `Restore` | the restore flow and `psql` on a database in use |
| `BackupProofs` | the safety of both, proved: their inductive invariants what files hold and lose, and what a restore that is done has done |
| `MC...` (one for each of them) | values of the constants for TLC |

### How code maps to actions

A handler is a task with a program counter. The update starts it in an idle task (`DoConfirm`,
`ReceiveReceipt`, `Message`, ...), one action per await that reads or writes shared state follows,
and `Commit` or `Abort` ends it. `Abort` may happen at every step: any await may raise, and a
restart of the process is the same to the database. `do_confirm`, for instance, is

    DoConfirm -> LoadPayment -> ConfirmPayment -> LoadTicket -> MarkPaid -> NotifyUser -> ClearFsm, ClearData -> Commit
    get_data     get_payment    FOR UPDATE,       session.get   flush       send_message  clear                  middleware
                                guard, flush

`NotifyUser` has the two ends the code has: the user is told, or has blocked the bot (`UserUnreachable`
is passed over) and the payment is counted all the same; `unreachable` remembers the second.

Handlers of `Payments` that write only an FSM row are one action each (`ReviewAmount`, `AskNewAmount`,
`CancelFlow`, ...), which may also stop between its two storage calls and leave the new state with the
old data; `SetNewAmount` and `SaveAmount` are apart, since a send stands between them.

In `Relay` the handler of a user's message is `PostHeader`, `PostCopy`, `CommitRelay`, or `FailRelay`
between them; a reply is `ReplyToTicket`, then the attempts of `send_with_retry` (`CallReturns`,
`NetworkError`, `FloodControl`, `Refused`), then `TellSent` and `CommitReply`. Which of the three
handlers takes a reply follows the order of the routers in `bot.py`: a row for the post, else a flow
of that admin that waits for a text, else the fallback. A flow is there only as an admin who waits.

In `Requisites` every handler that uses the database goes through `get_or_create_requisites`
(`LoadRequisites`, `InsertRequisites`) and then its own way (`After`): a preview is `GetData`, `PutData`,
`SetPreview`, `PostPreview`; a send is `SendText` or `Undelivered`, `MarkAwaiting`, `ClearState`, `ClearData`;
an edit is `FlushEdit`, `BackToMenu`. Handlers without a row (`StartRequisitesFlow`, `SaveComment`,
`ChooseKind`, `PaymentFieldEdit`, `CancelFlow`) are tasks too: here every call of the FSM storage is a step,
and `update_data` is the library's `GetData` and `PutData`, which overwrites what came between. So a
state may stand without its data, after a failure or another handler's clear; what the handlers then
look up (`LookUpTicket`, `LookUpField`) is not there, they raise `KeyError`, and only `Abort` is left.
A filter reads the state when the update comes in, the lookup is a later step. A keyboard carries kind
and ticket; the kind follows from the ticket.

In `FsmStorage` a handler (`Begin`, `Query`, `Finish`) makes calls, one at a time. A call waits for a
connection (`Connect`, or `PoolTimeout`), reads the row (`ReadRow`), and writes unless nothing changes
(`WriteRow`, or `InsertCollides` if a row came up since it was looked for); `Return` gives the
connection back. `update_data` is the library's: a `Get`, then `MergeData` makes a `SetData` of it.

`SpamGuard` runs the same messages through either guard: on Redis each command is an await (`Incr`,
`Expire`, `GetMark`, `SetMark`), in memory nothing is awaited and a message is one step (`Remember`).
`since` is what the key's expiry or the tuple's second element is counted from.

In `Reports` every report handler is `Begun`, with a period computed at once, then `ReadTickets` if it
is one that lists tickets, then `ReadPayments`. `AskPeriod`, `PeriodStartInput` and `PeriodEndInput` are
the flow of a custom period. Payments are as in `Payments`, with their stamp taken before their commit
(`ConfirmPayment`, `EndConfirm`), and reduced to what the filters test. A report stands for the rows
it counts; sums are functions of them. The number of new users and the statuses are left out: no
property could tell them from the query. The database and the process have one clock there.

`Backup` has a job per caller of `create_backup`: `BeginBackup` (the name), `TakeSnapshot` (that of
`pg_dump`), `WriteFile` with the pruning, or `WriteFails`, `BackupFails`; `StartProcess`, `StartPolling`,
`PollingFails`, `Retry`, `ProcessExits` are the process. Contents are versions of the database, a cut file
holds `Nothing`. Files are listed by their time of writing, which is what the pruning sorts by, so that
writing a file (`Written`) puts it last, and `Prunings` keeps the last ones and any of the older.

In `Restore` the flow is in Redis, call by call (`AskRestore`, `SaveFile`; `CancelRestore`, `DropFile`;
`ConfirmRestore`, `ReadFlow`, `ClearFlow`, `ClearData`). `Load` is the first `CREATE` of the script, which
fails if there are tables, and `Loaded` its end; what lies between is `Part`, a database of which
something is missing. The bot is in use meanwhile: `Commit` also writes to a part, which is `Amended`
from then on, and what `Loaded` leaves is the file or, if it is amended, the file mixed with those
commits. `AskRestore` needs tables: a reply in the admin chat is first looked up in `ticket_messages` by
the filter of an earlier router (`handlers/admin/reply.py:39-42`, `bot.py:116`), and on an empty database
that raises; so a restore onto one is asked for before it is emptied. With the FSM in PostgreSQL the
flow would be gone together with the schema, and there is no such restore at all.

Four facts about the environment are modelled from how the code uses it:

1. *Row locks.* `FOR UPDATE`, `UPDATE` and an uncommitted insert hold a row until the transaction
   ends; plain reads see committed rows (READ COMMITTED, PostgreSQL's default, which
   `db/session.py` does not change).
2. *Identity map.* A session returns the instance it already loaded. A later
   `SELECT ... FOR UPDATE` locks the row and **does not refresh** the instance, because the code
   does not ask for `populate_existing`. `cancel_confirmed_payment` loads under the lock;
   `confirm_payment` gets an instance that `do_confirm` loaded before.
3. *Net change.* A flush writes only the columns whose value differs from the loaded one (`Net`),
   so a stale instance overwrites only what its handler changed. No change, no UPDATE, no lock
   and no new `updated_at`.
4. *FSM.* One FSM call is one atomic step in the modules of the handlers. `FsmStorage` justifies it:
   its calls implement atomic ones (`ImplementsStore`). What is more than one call (`state.clear()` is
   `set_state` and `set_data`, `update_data` is `get_data` and `set_data`) is as many steps in `Requisites`,
   in `Restore` (but for the read of an `update_data` that overwrites all there is) and in the long
   handlers of `Payments`, whose short ones may stop between two calls. `Conversation` keeps of the user's
   FSM the state alone. In `Reports` the calls of one handler are one step: the flow there only picks
   the period of a report, and every period that a broken sequence can pick is one that a whole
   sequence picks too.

`map` in `PROJECT.json` leaves out the helpers that only stand for such a fact (a lock, a net
change, an idle task) and those that share their lines with one that is listed.

Amounts are opaque values; whether a text is an amount, and a guard that only answers
"not found", change nothing and are left out, as is `payretry`, which only sends a message. In
`Payments` the ticket statuses are those its actions tell apart; `set_status` is in `Conversation`.
`Conversation` in turn leaves out the receipt state of the user, and `set_status` stands there for
the two payment handlers that set a ticket's status. The user of `Conversation` is registered: the
foreign key that stops a ticket for a user who never sent /start is not modelled. `Relay` holds the
messages that the guards of `Conversation` let through; the status a relay or a reply sets is in
`Conversation` only. An id of a post is its place in the admin chat, into which the prompts,
confirmations and receipts of the bot, which never have a row, are not put. `Requisites` books the
payments with which `Payments` starts; `awaiting` is what that flow alone does to a ticket's status,
which `set_status` may set as well. The QR picture that the send would add is left out, since nothing
in the program stores one. A field in `Shown` is one a text and a snapshot have in common (bank,
recipient, card or phone).

## 3. Runs

| Run | Instance | Shows |
|---|---|---|
| `payments` | 2 handlers, 1 admin, 1 payment, 2 amounts | `TypeOK`, `StatusMatchesRevenue`, `CountedUserNotified`, `WaitsEnd`, `CountedFallsOnlyByCancel`, `OnlyConfirmedIsCancelled` |
| `payments_stale_amount` | 2 handlers, 1 admin, 2 payments | **violated**: `AmountWasReviewed` |
| `ticket_numbers` | 3 handlers, 3 tickets | `TypeOK`, `ImplementsNumbering`, `CallsEnd` |
| `conversation` | 1 handler, the loop, 2 tickets | `TypeOK`, `ClosedStaysClosed`, `AbandonedTicketCloses` |
| `requisites` | 2 handlers, 1 admin, 1 ticket, 2 fields, 2 values | `TypeOK`, `AwaitingIsAsked`, `EditsOneField` |
| `relay` | 2 messages of 2 users, 1 admin, 1 reply, 1 reaction | `TypeOK`, `ReactionsMirrorCopies`, `ImplementsChannel` |
| `fsm_storage` | 2 handlers of 1 member, 2 calls each, a pool of 2 | `TypeOK`, `ImplementsStore`, `HandlersEnd` |
| `spam_guard` | 3 messages, 2 texts, limit 1, windows of 2 moments, 5 moments | `GuardTypeOK`, `ThrottledForAReason`, `BurstIsBounded`, `RepeatIsFlagged` |
| `reports` | 1 ticket with its payment, 2 reports, days of 2 moments, 3 moments | `TypeOK`, `PaidTicketIsCounted`, `OneDayPerConfirmation`, `CardsMatchFinance` |
| `backup` | the loop, 1 command, keep 2, 3 seconds, 2 versions | `BackupTypeOK`, `NameTellsTime`, `LostOnlyToNewer`, `BackupsGoOn`, `PollingComesBack` |
| `restore` | 2 presses, 2 versions | `TypeOK`, `RestoredIsThere` |
| `restore_overwrites` | 1 press, 2 versions | **violated**: `RestoreOverwrites` |

**Bounds.** The properties that hold relate one payment (or ticket) to the handlers that overlap on
it; two handlers and one row give every pair of conflicting operations in every order, each of them
again and again since a finished handler's task is free for the next update. A third party enters
through the committed row, the FSM and the buttons, which all stay. One admin is enough in
`payments`: the identity of the admin matters only through FSM data, and one admin may already run
two confirmations. `Bound` in `MCPayments` leaves out that a user is told once and found to have blocked the
bot another time, and FSM states that wait for an answer but lack its payment, from which the answer only
raises. The theorems remove these bounds. The amount bug needs two payments and the
deadlock of bulk closings two rows, so those runs have them. `conversation` has one handler besides the loop, for the sake of its liveness property;
that closed tickets stay closed under any number of handlers is proved. `MaxNumber`
bounds `ticket_numbers`: no call starts once there are three tickets, so that instance stops by
itself and its cfg says `CHECK_DEADLOCK FALSE`. `MaxTickets` bounds `Conversation` in the same way
(a handler that would create one more waits and can only fail), and `Timeout = 1` tick is enough
because only "older than the timeout or not" is read. `Choices` are statuses picked in the
menu: closed and paid, which the guards single out; others come up by messages and replies. `relay` needs two messages of two users, so that
headers and copies interleave and a wrong row names a wrong user; replies do not read what other
replies write, so one reply and one reaction are enough. `Attempts` is 2 instead of 4: a first
attempt, one that is repeated and the last one are all there. `requisites` starts with any requisites entered and with or
without a preview keyboard left in the chat, so its two handlers, each run once, may be two edits, an
edit and a send, or two sends; one admin may run both, which is the case in which their FSM writes
meet. Handlers that only write the FSM run again and again, in the tasks that are free.

`fsm_storage`: a connection per handler is all the pool has, so that every handler may hold one and wait
for another; two calls make an `update_data`, or a write on top of another. `spam_guard`: with a limit of
1 a second message is over it and a third opens the next window; `MaxTime` is twice the window, and
`DupRoom` is 1 so that marks are collected. `reports`: day 0 is a Monday and a first of the month, a week
and a month last longer than the run, so that today differs from the rest; the filters take rows one by
one, so one payment is enough; `MaxTime` reaches the next day
and `MaxTimes` lets a payment be confirmed again. `backup`: a third file is one too many, and three
seconds give three names and namesakes; `MaxBackoff` is reached by one doubling. Ticks and commits
may stop at any time, so the liveness properties do not rest on those bounds. `restore`: two presses
may both run `psql`, on a database that is whole, empty, in part or amended; more presses repeat that. Of the
handlers of /restore, and of those that drop the flow, one at a time is on its way, and two versions
are enough to tell the file from the data.

**Symmetry.** Handler tasks (and admins) are interchangeable: no action, constant or property
singles one out. It is used for safety only, never in a run with a liveness property.

**Fairness.** Strong fairness on the steps of a task: PostgreSQL queues the waiters of a row, so
one whose row is free again and again gets it, and queries and sends have timeouts, so a step that
can be taken is not postponed for ever. Nothing is assumed of users and admins, and a handler may
fail at any step. This is `ticket_numbers`; in
`conversation` the loop is weakly fair, PostgreSQL resolves a deadlock (external), and the
property assumes that rounds of the loop do not fail for ever, which is when the code promises
nothing. In `fsm_storage` the steps of a handler are weakly fair: the event loop goes on with whatever can
go on, and the pool's timeout is such a step. In `backup` a job that has begun goes on, a day passes,
a sleep ends and the container is started until the migrations succeed (weakly fair); `StartPolling`
is strongly fair: Telegram is not unreachable at every single attempt for ever. Without fairness no
liveness property is claimed: `Payments` states the order of its locks as an invariant instead. By
`WaitsEnd` whoever waits for a row waits for a handler that runs, and that one, if it waits itself,
for one that waits for nothing; so waits end as handlers do.

**What the violations show** (with the lines quoted in `PROJECT.json` under "findings").
`payments_stale_amount`: an amount typed for one payment is booked for another, by way of
`pending_amount` in the admin's FSM data. `restore_overwrites`: a backup, restored while the bot is in
use, overwrites nothing. The dump is made without `--clean`, so its first `CREATE` fails on the table
that is there, and `ON_ERROR_STOP` makes that the end; the docstring (`services/backup.py:115-116`),
the question (`handlers/admin/backup.py:90-91`) and the button (line 32) say that it overwrites the data.

**Met while modelling**, without a run of its own. Paths are under `app/`.

Payments and requisites:

- Two confirmations at once both report `newly_counted`: the guard of `confirm_payment`
  (`services/payments.py:140`) tests the instance loaded before the lock, against the docstring of
  lines 132-135. The sum is not doubled, since the row is one, but amount, admin and time of the first
  are overwritten, which moves the payment to another day of the reports, and the user is told twice.
- A rejection, or a late receipt, of a payment confirmed meanwhile changes its status and leaves it
  counted, so it drops out of every report (they want both) and cannot be cancelled.
- A user may be told of a confirmation that is rolled back, and one who has blocked the bot is told
  nothing of one that is counted (`handlers/admin/payment.py:104`).
- `set_state` and `update_data` are committed apart, and `state.clear()` in two: a failure between them, or
  the end of a send (`handlers/admin/requisites.py:158`) while the same admin begins something else,
  leaves a state that waits for a text without its data. The next text raises `KeyError`
  (`requisites.py:49-50`, `86-87`, `payment_settings.py:113`, `137-138`), again and again until /cancel.
- `send_requisites_to_user` books 0 if the admin's FSM has no amount, and the amount of another ticket
  if it has that one; a pending payment is committed for a user who was not reached.
- An edit to the value a handler had loaded is reported as saved although another came between
  (`Changes`); a comment typed without a flow leaves the admin in `editing_comment` until /cancel.

Tickets and relay:

- The very first two calls of `next_ticket_number` find no row to lock, both insert it, and one fails,
  although the docstring says that "concurrent requests never collide" (`InsertCollides`).
- A message during the question whether to open a new ticket leads to the reasons
  (`handlers/user/messages.py:126`), and choosing one opens a second ticket beside the first; README:272
  of the repository promises a question first.
- `updated_at` moves only with a column: a second message while the ticket already awaits an admin
  leaves it old and the loop may close a live conversation (`services/auto_close.py:24-33`).
- `set_status` never touches `is_open`, so a ticket may be open and marked closed, which the loop then
  skips; a relay or the loop may write over a status (paid, closed) set while it waited.
- A copy is in the admin chat before its row is committed (`handlers/user/messages.py:74`), and stays
  there without a row if the handler fails: a reply to it finds no recipient (README:276-278 promises
  that it does).
- A reply whose last attempt met a network error may have arrived although the admin is told it was not
  delivered, and arrives twice if an earlier one did.

Spam guard and reports:

- A failure between INCR and EXPIRE leaves a counter without expiry: after `BURST_LIMIT` messages the
  user is throttled for good.
- Statistics can show a conversion above 100 % (`services/stats.py:44-49`): payments of tickets that were
  opened before the period, and of cooperation, are put over the purchases opened in it.
- A report of a period that has ended may still grow, when a stamp taken in it is committed later.
- The last day of a custom period is not in it, but for its first moment: the end is parsed as midnight
  (`handlers/admin/finance.py:84`), although the prompt (line 76) asks for the date of the end and the
  label of the report (line 92) names that day as its last. A /cancel between the two FSM calls of
  `period_start_input` and the answer after it leave a state without `period_start`, and
  `handlers/admin/finance.py:90` raises KeyError.
- /open and /answered (`handlers/admin/history.py:102`, `:119`) compare the enum column with lower-case
  strings, while the enum type has the names of the members.

Backup, restore and the process:

- What handlers commit while a script runs stays in the database beside what the file has, so a restore
  reported as done need not leave the file; and commits into a part may make its later statements
  fail.
- A cut file restores "successfully"; a restore that is interrupted leaves a part, over which every
  later one fails. The button of an older question restores the file of the newest one.
- Backups of a database that has lost its tables succeed and push out the good ones.
- The image of the `Dockerfile` does not install `pg_dump` and `psql`: starting them raises
  FileNotFoundError, which is no `BackupError`; the loop logs it every day.
- `BACKUP_DIR` is on no volume: a redeployment takes the backups with it.

## 4. Proofs

TLAPS proves the following for **any** number of handlers, admins, payments, tickets, amounts,
messages, reports and files, any limits, windows and lengths of days, and any bounds of the clock,
from the assumptions on constants stated in the modules (ids and times are numbers, limits and
windows are not zero, the null value is not a value of another kind) and nothing else. No set is
assumed to be finite. TLC evaluates the assumptions in every run. Every invariant and every action
property that the passing runs check is a theorem, and so is every refinement.

*PaymentsProofs.* `StatusMatchesRevenue` is not inductive: a commit of a stale row could break it.
`IInv` adds what makes a flush safe:

- `PcMatchesTask`: what a task runs, and what it has loaded, at each program counter;
- `DirtyHoldsLock`: a task that will write a payment holds its row, so two of them never race
  between flush and commit;
- `SnapIsConsistent`: a loaded instance was itself a consistent row, if an old one;
- `WriteIsSafe`: the net change of a task, put on the row *as it is now*, gives a consistent row.
  This is where a cancellation matters: it loads under the lock, so its instance is current,
  whereas a confirmation may be stale, and is safe because it writes status, flag and amount together
  or none of them;
- `NotifiesFirst`: a confirmation that counts comes to its commit only after the user was told, or
  was found to have blocked the bot.

`Invariance` proves `Spec => []IInv`, one step per action; `TypeCorrect`, `RevenueIsConsistent` and
`CountedIsNotified` are its consequences, and the action properties `CountedFallsByCancel` and
`CancelsConfirmed` follow from it at `Commit`, the only action that writes a payment. `WaitsAreShort` needs
one fact more (`HoldersRun`): who holds the row of a payment is past the step that locks it, and who
holds the row of a ticket has taken all it will take. As the row of a payment comes first, its waiter
holds nothing, and a chain of waits has at most two links.

*TicketNumbersProofs.* The invariant says that a task that has read the counter holds its lock,
that the counter is the number of committed tickets and that the number taken is one more. Then a
`Commit` is an `Issue` of `Numbering` and every other step stutters: `Implements` is the refinement.
`NumbersAreConsecutive` states the consequence directly.

*ConversationProofs.* `TypeCorrect`, and `ClosedForGood`: a closed ticket is never opened again. The
strengthening (`NeverReopens`) is that no task holds an instance it loaded as closed and would write
as open; with net changes no write of `is_open` can then be TRUE, and no lock is needed.

*RelayProofs.* `RowsAreCopies` carries it: what a row says of a post is what the chat shows, because
a relay takes the id from its own copy (`RelayKnowsCopy`) and the chat only grows. So what a handler
has found stays true during its attempts (`TaskKnowsPost`), a reply that is to be recorded has
arrived (`RecordedArrived`) and a reaction that is shown was put on the copy of that message
(`FaceIsMirrored`). `ReactionsAreMirrored` is a consequence; `RepliesImplementChannel` maps each step
to a step of `ReplyChannel` or a stutter: `CallReturns` and `NetworkError` are its `Deliver`, which
may deliver and tell "undelivered" at once, as the code may.

*RequisitesProofs.* What a handler writes at its end depends on what it loaded at its beginning. Three
facts are kept in between: `PcMatchesOp`, what each step knows of its flow; `RowIsThere`, an inserted
row is locked by its handler and there is no other, a loaded one is never gone again; `MarkedIsAsked`,
a handler marks a ticket only after the user got the very text it then books. With them
`AwaitingIsAsked` is inductive (`AwaitedWasAsked`), and
`EditsAreMerged` shows that a commit changes one field of the row *as it is then*.

*FsmStorageProofs.* `CallIsKnown` is enough of an invariant: nothing is said of what a call has read,
which may be as old as it likes. A write changes one column of the row as it is *then*, so the moment
of a call that writes is its write, and that of any other call is its read (`EffectMaps`: written
column and effect on the cell agree; `NothingToWrite`: what is not written would change nothing).
`StorageImplementsStore` maps every step to the step of that moment or to a stutter.

*ConversationProofs, the spam guard.* Counting needs sets that no variable holds: `WindowIs` says that
there are a set of messages, as many as the counter says, and one among them that opened the window.
No more than the limit of them got through, and no more of the earlier ones are less than a window
older than the opener. So an interval as long as a window, when it reaches a new message, has at most
the limit from either part (`TwiceTheLimit`). `ThrottledWithReason` reads the same set: who
is over the limit is in the set with those that came before. Repeats rest on `MarkKnown`, the mark
of a text is no older than any message that has set it and is not forgotten yet, and `RepeatSeen`, a
handler between its two commands knows of every mark that was set before it came (`RepeatsAreFlagged`).

*ReportsProofs.* Two orders carry everything. Times: a ticket is opened, committed, and its payment
confirmed after that (`TimesAreOrdered`). Queries: a period ends before the tickets are read, and they
are read before the payments, so a payment that is counted belongs to a ticket that the first query
saw (`PeriodIsKnown`, `TicketsAreRead`, `PaymentsAreOld`; `TicketsOfPaymentsAreCounted`). For
`CountedOnOneDay`, `DaysAreConfirmed` charges every day that counts a payment to a confirmation of its
own, and the current stamp to the last one. Days, weeks and months are divisions of the clock by
lengths left open; `MidnightBefore` and its companions are all that is used of them.

*BackupProofs.* Restore: `OneLoads`, who is past the first statement of its script works on a part and
is alone, because that statement succeeds on an empty database only and leaves it a part, which no
commit of a handler completes. So when it ends it puts its own file in place, or that file with
those commits (`DoneIsDone`). Backup: versions are committed in order, so a snapshot is their maximum and holds all
(`CommittedInOrder`, `SnapshotFacts`); whatever is committed after a name was taken is not older than
it, so a dump, and later its file, stays as full as its name says (`IsFull`; `NamesTell`). Files have
names of their own, and `TakenFrom` says of every change of the directory that the files that stay
keep their order. So the last `Keep` places after a pruning are `Keep` different files that are newer
than any that was lost (`PruningLosesOld`), and a cut file, which prunes nothing, costs its namesake
alone (`CutLosesNone`): `LostToNewer`.

Only model-checked: liveness (`CallsEnd`, `AbandonedTicketCloses`, `HandlersEnd`,
`BackupsGoOn`, `PollingComesBack`), which is outside the prover's reach; and the violated properties,
`AmountWasReviewed` and `RestoreOverwrites`.

## 5. Plan

In this order; each new module says which existing one it extends or composes.

1. Lemmas on progress that liveness rests on and that are not temporal: the lock discipline of
   `Conversation` (who waits for whom) and of the connection pool in `FsmStorage`.
2. `Relay`, continued: the reaction shown last, which concurrent retries break; the header that a voice
   reply sends first.
3. The users table (`upsert_user`), whose unlocked read and insert can collide as the counter's does.

## 6. Not modelled

Rendering of texts and reports, CSV and Excel files, lists of tickets, of backups and of commands
(read-only), help, parsing of configuration, logging, keyboards' layout: no behaviour of their own to
check. The webhook server, the insides of `pg_dump`, `psql` and Alembic: external; what the code
relies on is in `Backup` and `Restore`. The users table, catch-all answers, a second process on the
same database (nothing in the repository starts one). The tests of the repository run on SQLite, one
call after the other, and were read as statements of intent, not modelled.
