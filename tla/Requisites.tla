----------------------------- MODULE Requisites -----------------------------
(***************************************************************************)
(* How a user is asked to pay: an admin types an amount, looks at the      *)
(* preview, adds a comment and sends the requisites, which books a pending *)
(* payment.  Meanwhile admins edit the requisites themselves in            *)
(* /payment_settings, with the same FSM.                                   *)
(*                                                                         *)
(* As in Payments a handler is a task: a row it read may be stale when it  *)
(* is flushed, what it flushed is seen by others after its commit, and any *)
(* await may raise.  Every call of the FSM storage is a step: set_state    *)
(* and set_data are each committed at once, update_data is a get_data and  *)
(* a set_data of all the data, clear is set_state(None) and set_data({}).  *)
(* What becomes of a payment later is in Payments, what else sets the      *)
(* status of a ticket in Conversation.                                     *)
(***************************************************************************)
EXTENDS Naturals, FiniteSets

CONSTANTS
    Admins,   \* admins
    Tickets,  \* tickets whose reason is a purchase or a cooperation
    Kinds,    \* RequisiteKind
    KindOf,   \* the kind of a ticket's reason, which its keyboards carry along
    Fields,   \* columns of Requisites that can be edited
    Photo,    \* the one that takes a photo, photo_file_id
    Shown,    \* those a payment keeps in its snapshot
    Values,   \* texts and photos
    Amounts,  \* amounts typed
    Zero,     \* the amount sent if none is in the FSM data
    Comments, \* comments typed
    Tasks,    \* handlers; one that uses the database is run once
    None      \* no value

ASSUME RequisitesAssumption ==
    /\ KindOf \in [Tickets -> Kinds]
    /\ Photo \in Fields
    /\ Shown \subseteq Fields
    /\ None \notin Admins \cup Tickets \cup Kinds \cup Fields \cup Values \cup Amounts
                   \cup Comments \cup Tasks
    /\ None \notin [Fields -> Values \cup {None}]

VARIABLES
    requisites,  \* committed rows, None while a kind has none
    payments,    \* committed payments, as they were booked
    awaiting,    \* tickets whose committed status this flow set to awaiting_payment
    lock,        \* which task holds the row of a kind (or its unique key), or of a ticket
    state,       \* FSM state of each admin
    data,        \* FSM data of each admin
    keyboards,   \* tickets for which a preview keyboard is in the admin chat
    inbox,       \* requisites that reached the user of a ticket
    task         \* the handlers

db == <<requisites, payments, awaiting, lock>>
chats == <<keyboards, inbox>>
fsm == <<state, data>>
vars == <<db, fsm, chats, task>>

-----------------------------------------------------------------------------
Row == [Fields -> Values \cup {None}]
EmptyRow == [f \in Fields |-> None]

\* What a text and a snapshot say of a row.
Details(row) == [f \in Shown |-> row[f]]

Text == [ticket: Tickets, amount: Amounts \cup {Zero}, details: [Shown -> Values \cup {None}]]

Payment == [ticket: Tickets, amount: Amounts \cup {Zero}, details: [Shown -> Values \cup {None}],
            comment: Comments \cup {None}, by: Admins]

\* RequisitesFlow and PaymentSettingsFlow; "editing" is one of the states editing_*, told
\* apart by settings_field.
State == {"none", "entering_amount", "preview", "editing_comment", "menu", "editing",
          "awaiting_photo"}

\* A ticket_id comes with the req_kind of its keyboard, KindOf.
Data == [ticket: Tickets \cup {None}, amount: Amounts \cup {None},
         comment: Comments \cup {None}, settings_kind: Kinds \cup {None},
         settings_field: Fields \cup {None}]

NoData == [ticket |-> None, amount |-> None, comment |-> None, settings_kind |-> None,
           settings_field |-> None]

Pc == {"idle", "look_up", "load", "insert", "get", "put", "preview", "post", "send", "mark",
       "clear", "clear_data", "flush", "menu", "commit", "over"}

\* Handlers that write only the FSM, and those that have a row of requisites.
FsmOp == {"flow", "comment", "kind", "field", "clear"}
DbOp == {"preview", "send", "save", "delete", "look"}

\* row is the instance the handler has loaded or, if fresh, inserted; value is what an
\* edit writes to field; read is the FSM data an update_data has read; mark says that the
\* ticket will await its payment.
Task == [pc: Pc, op: FsmOp \cup DbOp \cup {"none"},
         by: Admins \cup {None}, ticket: Tickets \cup {None},
         amount: Amounts \cup {Zero, None}, comment: Comments \cup {None},
         kind: Kinds \cup {None}, field: Fields \cup {None}, value: Values \cup {None},
         read: Data, row: Row, fresh: BOOLEAN, mark: BOOLEAN]

Idle == [pc |-> "idle", op |-> "none", by |-> None, ticket |-> None, amount |-> None,
         comment |-> None, kind |-> None, field |-> None, value |-> None,
         read |-> NoData, row |-> EmptyRow, fresh |-> FALSE, mark |-> FALSE]

TypeOK ==
    /\ requisites \in [Kinds -> Row \cup {None}]
    /\ payments \subseteq Payment
    /\ awaiting \subseteq Tickets
    /\ lock \in [Kinds \cup Tickets -> Tasks \cup {None}]
    /\ state \in [Admins -> State]
    /\ data \in [Admins -> Data]
    /\ keyboards \subseteq Tickets
    /\ inbox \subseteq Text
    /\ task \in [Tasks -> Task]

\* The bot may have been in use: requisites entered, previews posted.
Init ==
    /\ requisites \in [Kinds -> Row \cup {None}]
    /\ payments = {}
    /\ awaiting = {}
    /\ lock = [r \in Kinds \cup Tickets |-> None]
    /\ state = [a \in Admins |-> "none"]
    /\ data = [a \in Admins |-> NoData]
    /\ keyboards \in SUBSET Tickets
    /\ inbox = {}
    /\ task = [t \in Tasks |-> Idle]

-----------------------------------------------------------------------------
(* Updates.  A handler starts with the first of its calls that matters.     *)

At(t, pc) == task[t].pc = pc
Goto(t, pc) == task' = [task EXCEPT ![t].pc = pc]

Start(t, new) ==
    /\ At(t, "idle")
    /\ task' = [task EXCEPT ![t] = new]
    /\ UNCHANGED <<db, data, chats>>

SetState(a, new) == state' = [state EXCEPT ![a] = new]

AddCommentPrompt(a) ==
    /\ keyboards # {}
    /\ SetState(a, "editing_comment")
    /\ UNCHANGED <<db, data, chats, task>>

PaymentSettingsMenu(a) ==
    /\ SetState(a, "menu")
    /\ UNCHANGED <<db, data, chats, task>>

\* req: under a message of the user, and reqamount: under a preview.
StartRequisitesFlow(t, a, tk) ==
    /\ SetState(a, "entering_amount")
    /\ Start(t, [Idle EXCEPT !.pc = "get", !.op = "flow", !.by = a, !.ticket = tk])

SaveComment(t, a, c) ==
    /\ state[a] = "editing_comment"
    /\ Start(t, [Idle EXCEPT !.pc = "get", !.op = "comment", !.by = a, !.comment = c])
    /\ UNCHANGED state

\* reqcancel:, /cancel, and the end of /payment_settings.
CancelFlow(t, a) ==
    /\ SetState(a, "none")
    /\ Start(t, [Idle EXCEPT !.pc = "clear_data", !.op = "clear", !.by = a])

\* psettings: with a kind leaves the state as it is.
ChooseKind(t, a, k) ==
    /\ Start(t, [Idle EXCEPT !.pc = "get", !.op = "kind", !.by = a, !.kind = k])
    /\ UNCHANGED state

PaymentFieldEdit(t, a, k, f) ==
    /\ SetState(a, IF f = Photo THEN "awaiting_photo" ELSE "editing")
    /\ Start(t, [Idle EXCEPT !.pc = "get", !.op = "field", !.by = a, !.kind = k, !.field = f])

EnterAmount(t, a, x) ==
    /\ state[a] = "entering_amount"
    /\ Start(t, [Idle EXCEPT !.pc = "look_up", !.op = "preview", !.by = a, !.amount = x])
    /\ UNCHANGED state

\* Mutant: no default for an amount that is not there.
SendWithoutDefault(t, a, tk) ==
    /\ tk \in keyboards
    /\ Start(t, [Idle EXCEPT !.pc = "load", !.op = "send", !.by = a, !.ticket = tk,
                             !.kind = KindOf[tk], !.comment = data[a].comment,
                             !.amount = data[a].amount])
    /\ UNCHANGED state

\* The button names the ticket; amount and comment are those in the data of who taps.
SendRequisitesToUser(t, a, tk) ==
    /\ tk \in keyboards
    /\ Start(t, [Idle EXCEPT !.pc = "load", !.op = "send", !.by = a, !.ticket = tk,
                             !.kind = KindOf[tk], !.comment = data[a].comment,
                             !.amount = IF data[a].amount = None THEN Zero ELSE data[a].amount])
    /\ UNCHANGED state

SaveTextField(t, a, v) ==
    /\ state[a] = "editing"
    /\ Start(t, [Idle EXCEPT !.pc = "look_up", !.op = "save", !.by = a, !.value = v])
    /\ UNCHANGED state

SaveRequisitesPhoto(t, a, v) ==
    /\ state[a] = "awaiting_photo"
    /\ Start(t, [Idle EXCEPT !.pc = "look_up", !.op = "save", !.by = a, !.value = v,
                             !.field = Photo])
    /\ UNCHANGED state

DeletePhoto(t, a, k) ==
    /\ Start(t, [Idle EXCEPT !.pc = "load", !.op = "delete", !.by = a, !.kind = k,
                             !.field = Photo])
    /\ UNCHANGED state

\* The previews of the settings.
Look(t, a, k) ==
    /\ Start(t, [Idle EXCEPT !.pc = "load", !.op = "look", !.by = a, !.kind = k])
    /\ UNCHANGED state

-----------------------------------------------------------------------------
(* Calls of the FSM storage.                                                *)

\* What is left of a handler that has ended.
Ended(t) == IF task[t].op \in FsmOp THEN Idle ELSE [Idle EXCEPT !.pc = "over"]

\* data["ticket_id"], in enter_amount and save_comment.  If it is not there, or no longer,
\* the handler raises, and all that is left is Abort.
LookUpTicket(t) ==
    LET d == data[task[t].by] IN
    /\ At(t, "look_up")
    /\ task[t].op \in {"preview", "comment"}
    /\ d.ticket # None
    /\ task' = IF task[t].op = "preview"
               THEN [task EXCEPT ![t].pc = "load", ![t].ticket = d.ticket,
                                 ![t].kind = KindOf[d.ticket]]
               ELSE [task EXCEPT ![t].pc = "preview", ![t].ticket = d.ticket]
    /\ UNCHANGED <<db, fsm, chats>>

\* data["settings_kind"] and, for a text, data["settings_field"], in the same way.
LookUpField(t) ==
    LET d == data[task[t].by]
        f == IF task[t].field = Photo THEN Photo ELSE d.settings_field
    IN
    /\ At(t, "look_up")
    /\ task[t].op = "save"
    /\ d.settings_kind # None
    /\ f # None
    /\ task' = [task EXCEPT ![t].pc = "load", ![t].kind = d.settings_kind, ![t].field = f]
    /\ UNCHANGED <<db, fsm, chats>>

\* update_data reads the data ...
GetData(t) ==
    /\ At(t, "get")
    /\ task' = [task EXCEPT ![t].pc = "put", ![t].read = data[task[t].by]]
    /\ UNCHANGED <<db, fsm, chats>>

\* What a handler puts into the data it has read.
Updated(t) ==
    LET d == task[t].read IN
    CASE task[t].op = "flow" -> [d EXCEPT !.ticket = task[t].ticket]
      [] task[t].op = "preview" -> [d EXCEPT !.amount = task[t].amount]
      [] task[t].op = "comment" -> [d EXCEPT !.comment = task[t].comment]
      [] task[t].op = "kind" -> [d EXCEPT !.settings_kind = task[t].kind]
      [] task[t].op = "field" ->
            [d EXCEPT !.settings_kind = task[t].kind,
                      !.settings_field = IF task[t].field = Photo THEN @ ELSE task[t].field]

\* ... and writes it back, over whatever was written in between.
PutData(t) ==
    /\ At(t, "put")
    /\ data' = [data EXCEPT ![task[t].by] = Updated(t)]
    /\ task' = CASE task[t].op = "preview" -> [task EXCEPT ![t].pc = "preview", ![t].read = NoData]
                 [] task[t].op = "comment" -> [task EXCEPT ![t].pc = "look_up", ![t].read = NoData]
                 [] OTHER -> [task EXCEPT ![t] = Ended(t)]
    /\ UNCHANGED <<db, state, chats>>

SetPreview(t) ==
    /\ At(t, "preview")
    /\ SetState(task[t].by, "preview")
    /\ Goto(t, "post")
    /\ UNCHANGED <<db, data, chats>>

\* The keyboard with the button to send, under a preview or a comment.
PostPreview(t) ==
    /\ At(t, "post")
    /\ keyboards' = keyboards \cup {task[t].ticket}
    /\ task' = IF task[t].op = "preview" THEN [task EXCEPT ![t].pc = "commit"]
               ELSE [task EXCEPT ![t] = Ended(t)]
    /\ UNCHANGED <<db, fsm, inbox>>

\* The end of send_requisites_to_user: whatever the admin has begun meanwhile goes too.
ClearState(t) ==
    /\ At(t, "clear")
    /\ SetState(task[t].by, "none")
    /\ Goto(t, "clear_data")
    /\ UNCHANGED <<db, data, chats>>

ClearData(t) ==
    /\ At(t, "clear_data")
    /\ data' = [data EXCEPT ![task[t].by] = NoData]
    /\ task' = IF task[t].op = "send" THEN [task EXCEPT ![t].pc = "commit"]
               ELSE [task EXCEPT ![t] = Ended(t)]
    /\ UNCHANGED <<db, state, chats>>

BackToMenu(t) ==
    /\ At(t, "menu")
    /\ SetState(task[t].by, "menu")
    /\ Goto(t, "commit")
    /\ UNCHANGED <<db, data, chats>>

-----------------------------------------------------------------------------
(* get_or_create_requisites.                                                *)

\* Waits for a row (or a unique key) another transaction has written.
Lock(t, r) ==
    /\ lock[r] \in {t, None}
    /\ lock' = [lock EXCEPT ![r] = t]

\* What follows once the row is there.
After(op) == CASE op = "preview" -> "get"
               [] op = "send" -> "send"
               [] op \in {"save", "delete"} -> "flush"
               [] op = "look" -> "commit"

LoadRequisites(t) ==
    LET k == task[t].kind IN
    /\ At(t, "load")
    /\ task' = IF requisites[k] = None
               THEN [task EXCEPT ![t].pc = "insert"]
               ELSE [task EXCEPT ![t].pc = After(task[t].op), ![t].row = requisites[k]]
    /\ UNCHANGED <<db, fsm, chats>>

\* If the kind has got its row meanwhile the insert collides, and all that is left is Abort.
InsertRequisites(t) ==
    LET k == task[t].kind IN
    /\ At(t, "insert")
    /\ requisites[k] = None
    /\ Lock(t, k)
    /\ task' = [task EXCEPT ![t].pc = After(task[t].op), ![t].fresh = TRUE]
    /\ UNCHANGED <<requisites, payments, awaiting, fsm, chats>>

-----------------------------------------------------------------------------
(* send_requisites_to_user.  The payment is inserted before the text goes   *)
(* out; both are made from the instance the handler has loaded.             *)

\* Mutant: the text is rendered from the row as it is when it is sent.
TextOfCurrent(t) ==
    LET k == task[t].kind IN
    [ticket |-> task[t].ticket, amount |-> task[t].amount,
     details |-> Details(IF requisites[k] = None THEN task[t].row ELSE requisites[k])]

TextOf(t) == [ticket |-> task[t].ticket, amount |-> task[t].amount,
              details |-> Details(task[t].row)]

Booked(t) == [ticket |-> task[t].ticket, amount |-> task[t].amount,
              details |-> Details(task[t].row), comment |-> task[t].comment, by |-> task[t].by]

SendText(t) ==
    /\ At(t, "send")
    /\ inbox' = inbox \cup {TextOf(t)}
    /\ task' = [task EXCEPT ![t].pc = "mark"]
    /\ UNCHANGED <<db, fsm, keyboards>>

\* The user has blocked the bot: a normal return, so the payment is committed.  (An
\* earlier attempt, answered with a network error, may have arrived.)
Undelivered(t) ==
    /\ At(t, "send")
    /\ inbox' \in {inbox, inbox \cup {TextOf(t)}}
    /\ task' = [task EXCEPT ![t].pc = "commit"]
    /\ UNCHANGED <<db, fsm, keyboards>>

MarkAwaiting(t) ==
    /\ At(t, "mark")
    /\ Lock(t, task[t].ticket)
    /\ task' = [task EXCEPT ![t].pc = "clear", ![t].mark = TRUE]
    /\ UNCHANGED <<requisites, payments, awaiting, fsm, chats>>

-----------------------------------------------------------------------------
(* An edit of the requisites.                                               *)

Changes(t) == task[t].op \in {"save", "delete"} /\ task[t].row[task[t].field] # task[t].value

\* An unchanged value is not written, and locks nothing.
FlushEdit(t) ==
    /\ At(t, "flush")
    /\ IF Changes(t) THEN Lock(t, task[t].kind) ELSE UNCHANGED lock
    /\ task' = [task EXCEPT ![t].pc = IF task[t].op = "delete" THEN "commit" ELSE "menu"]
    /\ UNCHANGED <<requisites, payments, awaiting, fsm, chats>>

-----------------------------------------------------------------------------
(* The end of a handler.                                                    *)

\* Mutant: the whole instance is written.
UpdatedRowWhole(t) ==
    IF Changes(t) THEN [task[t].row EXCEPT ![task[t].field] = task[t].value]
    ELSE IF task[t].fresh THEN task[t].row ELSE requisites[task[t].kind]

\* A fresh instance is written as it is, of a loaded one only what has changed.
UpdatedRow(t) ==
    LET old == IF task[t].fresh THEN task[t].row ELSE requisites[task[t].kind] IN
    IF Changes(t) THEN [old EXCEPT ![task[t].field] = task[t].value] ELSE old

Released(t) == [r \in Kinds \cup Tickets |-> IF lock[r] = t THEN None ELSE lock[r]]

Commit(t) ==
    /\ At(t, "commit")
    /\ requisites' = [requisites EXCEPT ![task[t].kind] = UpdatedRow(t)]
    /\ payments' = IF task[t].op = "send" THEN payments \cup {Booked(t)} ELSE payments
    /\ awaiting' = IF task[t].mark THEN awaiting \cup {task[t].ticket} ELSE awaiting
    /\ lock' = Released(t)
    /\ task' = [task EXCEPT ![t] = Ended(t)]
    /\ UNCHANGED <<fsm, chats>>

\* An await raises, or the process restarts; what was sent or written to the FSM stays.
Abort(t) ==
    /\ task[t].pc \notin {"idle", "over"}
    /\ lock' = Released(t)
    /\ task' = [task EXCEPT ![t] = Ended(t)]
    /\ UNCHANGED <<requisites, payments, awaiting, fsm, chats>>

-----------------------------------------------------------------------------
Update(t, a) ==
    \/ CancelFlow(t, a)
    \/ \E tk \in Tickets : StartRequisitesFlow(t, a, tk) \/ SendRequisitesToUser(t, a, tk)
    \/ \E c \in Comments : SaveComment(t, a, c)
    \/ \E x \in Amounts : EnterAmount(t, a, x)
    \/ \E v \in Values : SaveTextField(t, a, v) \/ SaveRequisitesPhoto(t, a, v)
    \/ \E k \in Kinds : ChooseKind(t, a, k) \/ DeletePhoto(t, a, k) \/ Look(t, a, k)
    \/ \E k \in Kinds, f \in Fields : PaymentFieldEdit(t, a, k, f)

TaskStep(t) ==
    \/ LookUpTicket(t) \/ LookUpField(t) \/ GetData(t) \/ PutData(t)
    \/ SetPreview(t) \/ PostPreview(t) \/ ClearState(t) \/ ClearData(t) \/ BackToMenu(t)
    \/ LoadRequisites(t) \/ InsertRequisites(t)
    \/ SendText(t) \/ Undelivered(t) \/ MarkAwaiting(t)
    \/ FlushEdit(t)
    \/ Commit(t) \/ Abort(t)

Next ==
    \/ \E a \in Admins : AddCommentPrompt(a) \/ PaymentSettingsMenu(a)
    \/ \E t \in Tasks, a \in Admins : Update(t, a)
    \/ \E t \in Tasks : TaskStep(t)

Spec == Init /\ [][Next]_vars

-----------------------------------------------------------------------------
(* Properties.                                                              *)

\* A ticket that send_requisites_to_user has made await its payment has a booked payment,
\* and its user has been sent just that amount and those requisites, whatever admins
\* edited in the meantime.
AwaitingIsAsked ==
    \A tk \in awaiting : \E p \in payments :
        /\ p.ticket = tk
        /\ [ticket |-> tk, amount |-> p.amount, details |-> p.details] \in inbox

\* Requisites are never lost: a row stays, and only the field an admin has edited changes,
\* whatever other edits were committed since the instance was loaded.
EditsOneField ==
    [][\A k \in Kinds : requisites[k] # None =>
          /\ requisites'[k] # None
          /\ \A f \in Fields : requisites'[k][f] # requisites[k][f] =>
                \E t \in Tasks : /\ task[t].op \in {"save", "delete"}
                                 /\ task[t].kind = k /\ task[t].field = f
                                 /\ requisites'[k][f] = task[t].value]_vars

=============================================================================
