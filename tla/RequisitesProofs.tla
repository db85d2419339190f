-------------------------- MODULE RequisitesProofs --------------------------
(***************************************************************************)
(* Theorems about Requisites, for any number of admins, tickets, kinds,    *)
(* fields and handlers: its typing, that a ticket awaits a payment only    *)
(* when its user was asked for just what is booked, and that edits of      *)
(* requisites lose nothing.                                                *)
(*                                                                         *)
(* What carries them is the row a handler works on: one that has inserted  *)
(* it holds its key, so nobody else has a row of that kind, and one that   *)
(* has loaded it can rely on the row still being there, if changed.  Of    *)
(* the FSM nothing is needed but its type: what a handler looks up there   *)
(* may be missing, and then the handler does not go on.                    *)
(***************************************************************************)
EXTENDS Requisites, TLAPS

Active(t) == task[t].pc \notin {"idle", "over"}

\* The handler has its row, loaded or inserted.
HasRow(t) == task[t].op \in DbOp /\ task[t].pc \notin {"look_up", "load", "insert"}

\* Which handler is at which step, and what it was started with or has looked up.
PcMatchesOp(t) ==
    /\ Active(t) <=> task[t].op # "none"
    /\ Active(t) => task[t].by \in Admins
    /\ task[t].op \in DbOp /\ task[t].pc # "look_up" => task[t].kind \in Kinds
    /\ task[t].op = "preview" =>
          task[t].amount \in Amounts /\ (task[t].pc # "look_up" => task[t].ticket \in Tickets)
    /\ task[t].op = "comment" /\ task[t].pc \in {"preview", "post"} => task[t].ticket \in Tickets
    /\ task[t].op = "send" => task[t].ticket \in Tickets /\ task[t].amount \in Amounts \cup {Zero}
    /\ task[t].op \in {"save", "delete"} /\ task[t].pc # "look_up" => task[t].field \in Fields
    /\ task[t].pc \in {"load", "insert", "commit"} => task[t].op \in DbOp
    /\ task[t].pc \in {"get", "put"} =>
          task[t].op \in {"flow", "preview", "comment", "kind", "field"}
    /\ task[t].pc \in {"preview", "post"} => task[t].op \in {"preview", "comment"}
    /\ task[t].pc \in {"send", "mark", "clear"} => task[t].op = "send"
    /\ task[t].pc = "clear_data" => task[t].op \in {"send", "clear"}
    /\ task[t].pc \in {"flush", "menu"} => task[t].op \in {"save", "delete"}

\* An inserted row is that of its handler alone until it commits; a loaded one is there.
RowIsThere(t) ==
    /\ task[t].fresh => /\ HasRow(t)
                        /\ lock[task[t].kind] = t
                        /\ requisites[task[t].kind] = None
    /\ HasRow(t) /\ ~task[t].fresh => requisites[task[t].kind] # None

\* A ticket is marked only after its user has been sent the text of this handler.
MarkedIsAsked(t) ==
    /\ task[t].mark => HasRow(t) /\ task[t].op = "send"
    /\ At(t, "mark") \/ At(t, "clear") \/ task[t].mark => TextOf(t) \in inbox

Sound(t) == PcMatchesOp(t) /\ RowIsThere(t) /\ MarkedIsAsked(t)

IInv ==
    /\ TypeOK
    /\ AwaitingIsAsked
    /\ \A t \in Tasks : Sound(t)

-----------------------------------------------------------------------------
(* Records and their types.                                                 *)

LEMMA NoneFacts ==
    /\ None \notin Admins /\ None \notin Tickets /\ None \notin Kinds /\ None \notin Fields
    /\ None \notin Values /\ None \notin Amounts /\ None \notin Tasks
  BY RequisitesAssumption

LEMMA RowFacts ==
    /\ EmptyRow \in Row
    /\ None \notin Row
    /\ \A r \in Row : Details(r) \in [Shown -> Values \cup {None}]
    /\ \A r \in Row, f \in Fields, v \in Values \cup {None} : [r EXCEPT ![f] = v] \in Row
  <1>1. EmptyRow \in Row /\ \A r \in Row : Details(r) \in [Shown -> Values \cup {None}]
    BY RequisitesAssumption DEF EmptyRow, Row, Details
  <1>2. \A r \in Row, f \in Fields, v \in Values \cup {None} : [r EXCEPT ![f] = v] \in Row
    BY DEF Row
  <1>3. None \notin Row
    BY RequisitesAssumption DEF Row
  <1> QED
    BY <1>1, <1>2, <1>3

LEMMA TaskFacts ==
    ASSUME IInv, NEW t \in Tasks
    PROVE  /\ task[t] \in Task /\ task \in [Tasks -> Task]
           /\ task[t].row \in Row
           /\ Sound(t)
           /\ Active(t) => /\ task[t].by \in Admins
                           /\ data[task[t].by] \in Data
           /\ task[t].op \in DbOp /\ task[t].pc # "look_up" =>
                 /\ task[t].kind \in Kinds
                 /\ requisites[task[t].kind] \in Row \cup {None}
  BY DEF IInv, TypeOK, Sound, PcMatchesOp, Task

LEMMA DataFacts == NoData \in Data
  BY DEF NoData, Data

LEMMA IdleFacts ==
    /\ Idle \in Task
    /\ Idle.mark = FALSE /\ Idle.fresh = FALSE /\ Idle.pc = "idle" /\ Idle.op = "none"
  BY RowFacts, DataFacts DEF Idle, Task, Pc

LEMMA EndedFacts ==
    ASSUME NEW t
    PROVE  /\ Ended(t) \in Task
           /\ Ended(t).pc \in {"idle", "over"} /\ Ended(t).op = "none"
           /\ ~Ended(t).fresh /\ ~Ended(t).mark
  <1>1. /\ [Idle EXCEPT !.pc = "over"] \in Task
        /\ [Idle EXCEPT !.pc = "over"].pc = "over" /\ [Idle EXCEPT !.pc = "over"].op = "none"
        /\ ~[Idle EXCEPT !.pc = "over"].fresh /\ ~[Idle EXCEPT !.pc = "over"].mark
    BY IdleFacts DEF Task, Pc, Idle
  <1> QED
    BY <1>1, IdleFacts DEF Ended

LEMMA InitInv == Init => IInv
  <1> SUFFICES ASSUME Init PROVE IInv
    OBVIOUS
  <1>1. TypeOK
    BY IdleFacts, DataFacts DEF Init, TypeOK, State
  <1>2. AwaitingIsAsked
    BY DEF Init, AwaitingIsAsked
  <1>3. ASSUME NEW t \in Tasks PROVE Sound(t)
    <2>1. task[t] = Idle
      BY DEF Init
    <2> QED
      BY <2>1, IdleFacts DEF Sound, PcMatchesOp, RowIsThere, MarkedIsAsked, Active, HasRow, At,
         DbOp
  <1> QED
    BY <1>1, <1>2, <1>3 DEF IInv

-----------------------------------------------------------------------------
(* What a step of one handler must see to.                                  *)

\* For the others: rows stay, and what is locked by another is neither taken nor written.
LEMMA OthersStaySound ==
    ASSUME IInv, NEW t \in Tasks,
           \A u \in Tasks \ {t} : task'[u] = task[u],
           inbox \subseteq inbox',
           \A k \in Kinds : requisites[k] # None => requisites'[k] # None,
           \A k \in Kinds : lock[k] \in Tasks \ {t} =>
              lock'[k] = lock[k] /\ (requisites[k] = None => requisites'[k] = None)
    PROVE  \A u \in Tasks \ {t} : Sound(u)'
  <1> SUFFICES ASSUME NEW u \in Tasks \ {t} PROVE Sound(u)'
    OBVIOUS
  <1>1. Sound(u) /\ task'[u] = task[u]
    BY DEF IInv
  <1>2. PcMatchesOp(u)'
    BY <1>1 DEF Sound, PcMatchesOp, Active
  <1>3. RowIsThere(u)'
    <2>1. HasRow(u) => task[u].kind \in Kinds
      BY <1>1 DEF Sound, PcMatchesOp, HasRow
    <2> QED
      BY <1>1, <2>1 DEF Sound, RowIsThere, HasRow
  <1>4. MarkedIsAsked(u)'
    BY <1>1 DEF Sound, MarkedIsAsked, HasRow, At, TextOf
  <1> QED
    BY <1>2, <1>3, <1>4 DEF Sound

\* For the tables, as long as it commits nothing; what it has locked stays locked.
LEMMA QuietStepKeeps ==
    ASSUME IInv, NEW t \in Tasks, NEW new \in Task, task' = [task EXCEPT ![t] = new],
           UNCHANGED <<requisites, payments, awaiting>>,
           lock' \in [Kinds \cup Tickets -> Tasks \cup {None}],
           \A r \in Kinds \cup Tickets : lock[r] \in Tasks => lock'[r] = lock[r],
           state' \in [Admins -> State], data' \in [Admins -> Data],
           keyboards' \subseteq Tickets, inbox \subseteq inbox', inbox' \subseteq Text,
           Sound(t)'
    PROVE  IInv'
  <1>1. task' \in [Tasks -> Task] /\ \A u \in Tasks \ {t} : task'[u] = task[u]
    BY DEF IInv, TypeOK
  <1>2. TypeOK' /\ AwaitingIsAsked'
    BY <1>1 DEF IInv, TypeOK, AwaitingIsAsked
  <1>3. \A u \in Tasks \ {t} : Sound(u)'
    <2>1. \A k \in Kinds : lock[k] \in Tasks \ {t} => lock'[k] = lock[k]
      OBVIOUS
    <2> QED
      BY <1>1, <2>1, OthersStaySound
  <1> QED
    BY <1>2, <1>3 DEF IInv

\* A handler is sound that writes only the FSM, or has ended, or looks for its row, ...
LEMMA WithoutRow ==
    ASSUME NEW t \in Tasks, PcMatchesOp(t)', ~HasRow(t)', ~task'[t].fresh, ~task'[t].mark
    PROVE  Sound(t)'
  BY DEF Sound, PcMatchesOp, RowIsThere, MarkedIsAsked, At, HasRow, DbOp

\* ... and one that keeps its row.
LEMMA WithRow ==
    ASSUME IInv, NEW t \in Tasks, HasRow(t), PcMatchesOp(t)', HasRow(t)',
           task'[t].fresh = task[t].fresh, task'[t].kind = task[t].kind,
           task'[t].mark => task'[t].op = "send",
           At(t, "mark")' \/ At(t, "clear")' \/ task'[t].mark => TextOf(t)' \in inbox',
           UNCHANGED requisites, lock[task[t].kind] \in Tasks => lock'[task[t].kind] = lock[task[t].kind]
    PROVE  Sound(t)'
  <1>1. Sound(t)
    BY DEF IInv
  <1>2. RowIsThere(t)'
    BY <1>1 DEF Sound, RowIsThere
  <1> QED
    BY <1>2 DEF Sound, MarkedIsAsked

\* The state of one admin is set, the data of one admin are written.
LEMMA FsmWrites ==
    ASSUME IInv
    PROVE  /\ state \in [Admins -> State] /\ data \in [Admins -> Data]
           /\ \A a \in Admins, new \in State : SetState(a, new) => state' \in [Admins -> State]
           /\ \A a \in Admins, new \in Data :
                 data' = [data EXCEPT ![a] = new] => data' \in [Admins -> Data]
  BY DEF IInv, TypeOK, SetState

-----------------------------------------------------------------------------
(* Updates.                                                                 *)

\* A prompt sets a state and starts nothing.
LEMMA PromptKeeps ==
    ASSUME IInv, NEW a \in Admins, AddCommentPrompt(a) \/ PaymentSettingsMenu(a)
    PROVE  IInv'
  <1>1. UNCHANGED <<requisites, payments, awaiting, lock, data, keyboards, inbox, task>>
    BY DEF AddCommentPrompt, PaymentSettingsMenu, db, chats
  <1>2. state' \in [Admins -> State]
    BY FsmWrites DEF AddCommentPrompt, PaymentSettingsMenu, State
  <1>3. TypeOK' /\ AwaitingIsAsked'
    BY <1>1, <1>2 DEF IInv, TypeOK, AwaitingIsAsked
  <1>4. ASSUME NEW t \in Tasks PROVE Sound(t)'
    BY <1>1 DEF IInv, Sound, PcMatchesOp, RowIsThere, MarkedIsAsked, Active, HasRow, At, TextOf
  <1> QED
    BY <1>3, <1>4 DEF IInv

\* A handler starts: besides its own record only a state may change.
LEMMA UpdateKeeps ==
    ASSUME IInv, NEW t \in Tasks, NEW a \in Admins, Update(t, a)
    PROVE  IInv'
  <1> DEFINE Fine(new) ==
        /\ new \in Task /\ new.by \in Admins /\ ~new.fresh /\ ~new.mark
        /\ \/ new.pc = "get" /\ new.op \in {"flow", "comment", "kind", "field"}
           \/ new.pc = "clear_data" /\ new.op = "clear"
           \/ new.pc = "look_up" /\ new.op = "preview" /\ new.amount \in Amounts
           \/ new.pc = "look_up" /\ new.op = "save"
           \/ /\ new.pc = "load" /\ new.op = "send" /\ new.ticket \in Tickets
              /\ new.amount \in Amounts \cup {Zero} /\ new.kind \in Kinds
           \/ /\ new.pc = "load" /\ new.op = "delete" /\ new.kind \in Kinds
              /\ new.field \in Fields
           \/ new.pc = "load" /\ new.op = "look" /\ new.kind \in Kinds
  <1>1. /\ data[a] \in Data /\ Photo \in Fields
        /\ \A tk \in Tickets : KindOf[tk] \in Kinds
    BY RequisitesAssumption DEF IInv, TypeOK
  <1>2. \E new : Start(t, new) /\ Fine(new)
    <2>1. CASE CancelFlow(t, a)
      <3>1. Fine([Idle EXCEPT !.pc = "clear_data", !.op = "clear", !.by = a])
        BY RowFacts, DataFacts DEF Idle, Task, Pc, FsmOp
      <3> QED
        BY <2>1, <3>1 DEF CancelFlow
    <2>2. ASSUME NEW tk \in Tickets, StartRequisitesFlow(t, a, tk)
          PROVE  \E new : Start(t, new) /\ Fine(new)
      <3>1. Fine([Idle EXCEPT !.pc = "get", !.op = "flow", !.by = a, !.ticket = tk])
        BY RowFacts, DataFacts DEF Idle, Task, Pc, FsmOp
      <3> QED
        BY <2>2, <3>1 DEF StartRequisitesFlow
    <2>3. ASSUME NEW tk \in Tickets, SendRequisitesToUser(t, a, tk)
          PROVE  \E new : Start(t, new) /\ Fine(new)
      <3> DEFINE x == IF data[a].amount = None THEN Zero ELSE data[a].amount
                 c == data[a].comment
      <3>1. x \in Amounts \cup {Zero} /\ c \in Comments \cup {None}
        BY <1>1 DEF Data
      <3>2. Start(t, [Idle EXCEPT !.pc = "load", !.op = "send", !.by = a, !.ticket = tk,
                                  !.kind = KindOf[tk], !.comment = c, !.amount = x])
        BY <2>3 DEF SendRequisitesToUser
      <3> HIDE DEF x, c
      <3>3. Fine([Idle EXCEPT !.pc = "load", !.op = "send", !.by = a, !.ticket = tk,
                              !.kind = KindOf[tk], !.comment = c, !.amount = x])
        BY <1>1, <3>1, RowFacts, DataFacts DEF Idle, Task, Pc, DbOp
      <3> QED
        BY <3>2, <3>3
    <2>4. ASSUME NEW c \in Comments, SaveComment(t, a, c)
          PROVE  \E new : Start(t, new) /\ Fine(new)
      <3>1. Fine([Idle EXCEPT !.pc = "get", !.op = "comment", !.by = a, !.comment = c])
        BY RowFacts, DataFacts DEF Idle, Task, Pc, FsmOp
      <3> QED
        BY <2>4, <3>1 DEF SaveComment
    <2>5. ASSUME NEW x \in Amounts, EnterAmount(t, a, x)
          PROVE  \E new : Start(t, new) /\ Fine(new)
      <3>1. Fine([Idle EXCEPT !.pc = "look_up", !.op = "preview", !.by = a, !.amount = x])
        BY RowFacts, DataFacts DEF Idle, Task, Pc, DbOp
      <3> QED
        BY <2>5, <3>1 DEF EnterAmount
    <2>6. ASSUME NEW v \in Values, SaveTextField(t, a, v) \/ SaveRequisitesPhoto(t, a, v)
          PROVE  \E new : Start(t, new) /\ Fine(new)
      <3>1. /\ Fine([Idle EXCEPT !.pc = "look_up", !.op = "save", !.by = a, !.value = v])
            /\ Fine([Idle EXCEPT !.pc = "look_up", !.op = "save", !.by = a, !.value = v,
                                 !.field = Photo])
        BY <1>1, RowFacts, DataFacts DEF Idle, Task, Pc, DbOp
      <3> QED
        BY <2>6, <3>1 DEF SaveTextField, SaveRequisitesPhoto
    <2>7. ASSUME NEW k \in Kinds, ChooseKind(t, a, k) \/ DeletePhoto(t, a, k) \/ Look(t, a, k)
          PROVE  \E new : Start(t, new) /\ Fine(new)
      <3>1. /\ Fine([Idle EXCEPT !.pc = "get", !.op = "kind", !.by = a, !.kind = k])
            /\ Fine([Idle EXCEPT !.pc = "load", !.op = "delete", !.by = a, !.kind = k,
                                 !.field = Photo])
            /\ Fine([Idle EXCEPT !.pc = "load", !.op = "look", !.by = a, !.kind = k])
        BY <1>1, RowFacts, DataFacts DEF Idle, Task, Pc, FsmOp, DbOp
      <3> QED
        BY <2>7, <3>1 DEF ChooseKind, DeletePhoto, Look
    <2>8. ASSUME NEW k \in Kinds, NEW f \in Fields, PaymentFieldEdit(t, a, k, f)
          PROVE  \E new : Start(t, new) /\ Fine(new)
      <3>1. Fine([Idle EXCEPT !.pc = "get", !.op = "field", !.by = a, !.kind = k, !.field = f])
        BY RowFacts, DataFacts DEF Idle, Task, Pc, FsmOp
      <3> QED
        BY <2>8, <3>1 DEF PaymentFieldEdit
    <2> QED
      BY <2>1, <2>2, <2>3, <2>4, <2>5, <2>6, <2>7, <2>8 DEF Update
  <1>3. PICK new : Start(t, new) /\ Fine(new)
    BY <1>2
  <1>4. /\ UNCHANGED <<requisites, payments, awaiting, lock, data, keyboards, inbox>>
        /\ task' = [task EXCEPT ![t] = new] /\ task'[t] = new
    BY <1>3 DEF Start, db, chats, IInv, TypeOK
  <1>5. state' \in [Admins -> State]
    <2>1. {"entering_amount", "none", "awaiting_photo", "editing"} \subseteq State
      BY DEF State
    <2> QED
      BY <2>1, FsmWrites DEF Update, CancelFlow, StartRequisitesFlow, SendRequisitesToUser,
         SaveComment, EnterAmount, SaveTextField, SaveRequisitesPhoto, ChooseKind, DeletePhoto,
         Look, PaymentFieldEdit
  <1>6. Sound(t)'
    <2>1. PcMatchesOp(t)' /\ ~HasRow(t)'
      BY <1>3, <1>4 DEF PcMatchesOp, Active, HasRow, DbOp
    <2> QED
      BY <1>3, <1>4, <2>1, WithoutRow
  <1> QED
    BY <1>3, <1>4, <1>5, <1>6, QuietStepKeeps DEF IInv, TypeOK

-----------------------------------------------------------------------------
(* Steps of a handler at work.                                              *)

\* Of a handler that has its row, or needs none, when its pc moves on.
LEMMA MovingOn ==
    ASSUME IInv, NEW t \in Tasks, NEW new \in Task, task' = [task EXCEPT ![t] = new],
           Active(t), task[t].pc \notin {"look_up", "load", "insert"},
           new.pc \notin {"idle", "over", "look_up", "load", "insert"},
           /\ new.op = task[t].op /\ new.by = task[t].by /\ new.ticket = task[t].ticket
           /\ new.amount = task[t].amount /\ new.kind = task[t].kind
           /\ new.field = task[t].field /\ new.row = task[t].row /\ new.fresh = task[t].fresh,
           /\ new.pc = "commit" => task[t].op \in DbOp
           /\ new.pc \in {"get", "put"} =>
                 task[t].op \in {"flow", "preview", "comment", "kind", "field"}
           /\ new.pc \in {"preview", "post"} =>
                 task[t].op \in {"preview", "comment"} /\ task[t].ticket \in Tickets
           /\ new.pc \in {"send", "mark", "clear"} => task[t].op = "send"
           /\ new.pc = "clear_data" => task[t].op \in {"send", "clear"}
           /\ new.pc \in {"flush", "menu"} => task[t].op \in {"save", "delete"},
           new.mark => task[t].op = "send",
           new.pc \in {"mark", "clear"} \/ new.mark => TextOf(t) \in inbox',
           UNCHANGED <<requisites, payments, awaiting>>,
           lock' \in [Kinds \cup Tickets -> Tasks \cup {None}],
           \A r \in Kinds \cup Tickets : lock[r] \in Tasks => lock'[r] = lock[r],
           state' \in [Admins -> State], data' \in [Admins -> Data],
           keyboards' \subseteq Tickets, inbox \subseteq inbox', inbox' \subseteq Text
    PROVE  IInv'
  <1>1. task'[t] = new /\ Sound(t)
    BY TaskFacts
  <1>2. PcMatchesOp(t)'
    BY <1>1 DEF Sound, PcMatchesOp, Active
  <1>3. TextOf(t)' = TextOf(t)
    BY <1>1 DEF TextOf
  <1>4. Sound(t)'
    <2>1. CASE task[t].op \in DbOp
      <3>1. HasRow(t) /\ HasRow(t)' /\ task[t].kind \in Kinds
        BY <1>1, <2>1 DEF HasRow, Sound, PcMatchesOp
      <3>2. At(t, "mark")' \/ At(t, "clear")' \/ task'[t].mark => TextOf(t)' \in inbox'
        BY <1>1, <1>3 DEF At
      <3> QED
        BY <1>1, <1>2, <3>1, <3>2, WithRow
    <2>2. CASE task[t].op \notin DbOp
      <3>1. ~HasRow(t)' /\ ~task'[t].fresh /\ ~task'[t].mark
        BY <1>1, <2>2 DEF HasRow, Sound, RowIsThere, DbOp
      <3> QED
        BY <1>2, <3>1, WithoutRow
    <2> QED
      BY <2>1, <2>2
  <1> QED
    BY <1>4, QuietStepKeeps

\* A handler that has come to its end without a transaction to end.
LEMMA EndingQuietly ==
    ASSUME IInv, NEW t \in Tasks, task' = [task EXCEPT ![t] = Ended(t)],
           UNCHANGED <<requisites, payments, awaiting, lock, inbox>>,
           state' \in [Admins -> State], data' \in [Admins -> Data], keyboards' \subseteq Tickets
    PROVE  IInv'
  <1>1. Ended(t) \in Task /\ task'[t] = Ended(t)
    BY EndedFacts, TaskFacts
  <1>2. PcMatchesOp(t)' /\ ~HasRow(t)'
    BY <1>1, EndedFacts DEF PcMatchesOp, Active, HasRow, DbOp
  <1>3. Sound(t)'
    BY <1>1, <1>2, EndedFacts, WithoutRow
  <1> QED
    BY <1>1, <1>3, QuietStepKeeps DEF IInv, TypeOK

LEMMA TextType ==
    ASSUME IInv, NEW t \in Tasks, task[t].op = "send"
    PROVE  TextOf(t) \in Text /\ Booked(t) \in Payment
  <1>1. /\ task[t].ticket \in Tickets /\ task[t].amount \in Amounts \cup {Zero}
        /\ Details(task[t].row) \in [Shown -> Values \cup {None}]
        /\ task[t].comment \in Comments \cup {None} /\ task[t].by \in Admins
    BY TaskFacts, RowFacts DEF Sound, PcMatchesOp, Task
  <1> QED
    BY <1>1 DEF TextOf, Booked, Text, Payment

LEMMA LockFacts ==
    ASSUME IInv, NEW t \in Tasks, NEW r \in Kinds \cup Tickets, Lock(t, r)
    PROVE  /\ lock' \in [Kinds \cup Tickets -> Tasks \cup {None}]
           /\ lock'[r] = t
           /\ \A q \in Kinds \cup Tickets : lock[q] \in Tasks => lock'[q] = lock[q]
  BY NoneFacts DEF Lock, IInv, TypeOK

\* The data an update_data writes are data.
LEMMA UpdatedType ==
    ASSUME IInv, NEW t \in Tasks, At(t, "put")
    PROVE  Updated(t) \in Data
  <1>1. /\ task[t].op \in {"flow", "preview", "comment", "kind", "field"}
        /\ task[t].read \in Data /\ task[t].ticket \in Tickets \cup {None}
        /\ task[t].op = "preview" => task[t].amount \in Amounts
        /\ task[t].comment \in Comments \cup {None} /\ task[t].kind \in Kinds \cup {None}
        /\ task[t].field \in Fields \cup {None}
    BY TaskFacts DEF Sound, PcMatchesOp, At, Task
  <1>2. CASE task[t].op = "field"
    <2>1. Updated(t) = [task[t].read EXCEPT !.settings_kind = task[t].kind,
             !.settings_field = IF task[t].field = Photo THEN task[t].read.settings_field
                                ELSE task[t].field]
      BY <1>2 DEF Updated
    <2> QED
      BY <1>1, <2>1 DEF Data
  <1>3. CASE task[t].op # "field"
    BY <1>1, <1>3 DEF Updated, Data
  <1> QED
    BY <1>2, <1>3

\* The FSM calls of a handler, and the keyboard it posts.
LEMMA CallKeeps ==
    ASSUME IInv, NEW t \in Tasks,
           \/ GetData(t) \/ PutData(t) \/ SetPreview(t) \/ PostPreview(t) \/ ClearState(t)
           \/ ClearData(t) \/ BackToMenu(t)
    PROVE  IInv'
  <1> DEFINE Go(pc, m, d) == [task[t] EXCEPT !.pc = pc, !.mark = m, !.read = d]
  <1> DEFINE op == task[t].op
             mark == task[t].mark
             read == task[t].read
  <1>1. /\ Sound(t) /\ PcMatchesOp(t) /\ MarkedIsAsked(t) /\ task[t] \in Task
        /\ task \in [Tasks -> Task] /\ mark \in BOOLEAN /\ read \in Data
        /\ lock \in [Kinds \cup Tickets -> Tasks \cup {None}]
        /\ keyboards \subseteq Tickets /\ inbox \subseteq Text
    BY TaskFacts DEF Sound, Task, IInv, TypeOK
  <1>2. /\ Active(t) /\ task[t].by \in Admins /\ data[task[t].by] \in Data
        /\ UNCHANGED <<requisites, payments, awaiting, lock, inbox>>
    BY <1>1, TaskFacts DEF GetData, PutData, SetPreview, PostPreview, ClearState, ClearData,
       BackToMenu, At, Active, db, chats
  <1>3. mark => op = "send" /\ TextOf(t) \in inbox
    BY <1>1 DEF MarkedIsAsked
  <1>4. ASSUME NEW pc \in Pc, NEW d \in Data, task' = [task EXCEPT ![t] = Go(pc, mark, d)],
               pc \notin {"idle", "over", "look_up", "load", "insert", "mark", "send", "flush"},
               task[t].pc \notin {"look_up", "load", "insert"},
               pc \in {"commit"} => op \in DbOp,
               pc \in {"get", "put"} => op \in {"flow", "preview", "comment", "kind", "field"},
               pc \in {"preview", "post"} =>
                  op \in {"preview", "comment"} /\ task[t].ticket \in Tickets,
               pc \notin {"clear", "menu"},
               pc = "clear_data" => op \in {"send", "clear"},
               state' \in [Admins -> State], data' \in [Admins -> Data], keyboards' \subseteq Tickets
        PROVE  IInv'
    <2> DEFINE new == Go(pc, mark, d)
    <2>1. /\ new \in Task /\ new.pc = pc /\ new.mark = mark
          /\ new.op = op /\ new.by = task[t].by /\ new.ticket = task[t].ticket
          /\ new.amount = task[t].amount /\ new.kind = task[t].kind
          /\ new.field = task[t].field /\ new.row = task[t].row /\ new.fresh = task[t].fresh
      BY <1>1, <1>4 DEF Task
    <2>2. task' = [task EXCEPT ![t] = new]
      BY <1>4
    <2> HIDE DEF new
    <2> QED
      BY <1>1, <1>2, <1>3, <1>4, <2>1, <2>2, MovingOn
  <1>5. /\ \A pc : [task EXCEPT ![t].pc = pc] = [task EXCEPT ![t] = Go(pc, mark, read)]
        /\ \A pc, d : [task EXCEPT ![t].pc = pc, ![t].read = d] =
                      [task EXCEPT ![t] = Go(pc, mark, d)]
    <2>1. /\ \A pc : [task[t] EXCEPT !.pc = pc] = Go(pc, mark, read)
          /\ \A pc, d : [task[t] EXCEPT !.pc = pc, !.read = d] = Go(pc, mark, d)
      BY <1>1 DEF Task
    <2> QED
      BY <1>1, <2>1
  <1> HIDE DEF Go
  <1>6. CASE GetData(t)
    <2>1. /\ task[t].pc = "get" /\ UNCHANGED <<state, data, keyboards>>
          /\ task' = [task EXCEPT ![t] = Go("put", mark, data[task[t].by])]
      BY <1>5, <1>6 DEF GetData, At, fsm, chats
    <2> QED
      BY <1>1, <1>2, <1>4, <2>1, FsmWrites DEF PcMatchesOp, Pc
  <1>7. CASE PutData(t)
    <2>1. task[t].pc = "put" /\ UNCHANGED <<state, keyboards>> /\ data' \in [Admins -> Data]
      BY <1>2, <1>7, UpdatedType, FsmWrites DEF PutData, At, chats
    <2>2. CASE op = "preview"
      <3>1. task' = [task EXCEPT ![t] = Go("preview", mark, NoData)]
        <4>1. task' = [task EXCEPT ![t].pc = "preview", ![t].read = NoData]
          BY <1>7, <2>2 DEF PutData
        <4> QED
          BY <1>5, <4>1
      <3> QED
        BY <1>1, <1>4, <2>1, <2>2, <3>1, FsmWrites, DataFacts DEF PcMatchesOp, Pc
    <2>3. CASE op = "comment"
      <3> DEFINE new == Go("look_up", mark, NoData)
      <3>1. task' = [task EXCEPT ![t] = new]
        <4>1. task' = [task EXCEPT ![t].pc = "look_up", ![t].read = NoData]
          BY <1>7, <2>3 DEF PutData
        <4> QED
          BY <1>5, <4>1
      <3>2. /\ new \in Task /\ new.pc = "look_up" /\ new.op = "comment" /\ new.by = task[t].by
            /\ new.mark = mark /\ new.fresh = task[t].fresh
        <4>1. "look_up" \in Pc /\ NoData \in Data
          BY DataFacts DEF Pc
        <4> QED
          BY <1>1, <2>3, <4>1 DEF Go, Task
      <3> HIDE DEF new
      <3>3. task'[t] = new /\ ~mark /\ ~task[t].fresh
        BY <1>1, <1>3, <2>3, <3>1, <3>2 DEF Sound, RowIsThere, HasRow, DbOp
      <3>4. Sound(t)'
        <4>1. PcMatchesOp(t)' /\ ~HasRow(t)'
          BY <1>2, <3>2, <3>3 DEF PcMatchesOp, Active, HasRow, DbOp
        <4> QED
          BY <3>2, <3>3, <4>1, WithoutRow
      <3> QED
        BY <1>1, <1>2, <2>1, <3>1, <3>2, <3>4, FsmWrites, QuietStepKeeps
    <2>4. CASE op \notin {"preview", "comment"}
      <3>1. task' = [task EXCEPT ![t] = Ended(t)]
        BY <1>7, <2>4 DEF PutData
      <3> QED
        BY <1>1, <1>2, <2>1, <3>1, FsmWrites, EndingQuietly
    <2> QED
      BY <2>2, <2>3, <2>4
  <1>8. CASE SetPreview(t)
    <2>1. /\ task[t].pc = "preview" /\ UNCHANGED <<data, keyboards>>
          /\ task' = [task EXCEPT ![t] = Go("post", mark, read)]
      BY <1>5, <1>8 DEF SetPreview, Goto, At, chats
    <2>2. state' \in [Admins -> State]
      BY <1>2, <1>8, FsmWrites DEF SetPreview, State
    <2>3. op \in {"preview", "comment"} /\ task[t].ticket \in Tickets
      BY <1>1, <2>1 DEF PcMatchesOp
    <2> QED
      BY <1>1, <1>4, <2>1, <2>2, <2>3, FsmWrites DEF Pc
  <1>9. CASE PostPreview(t)
    <2>1. task[t].pc = "post" /\ UNCHANGED <<state, data>> /\ op \in {"preview", "comment"}
      BY <1>1, <1>9 DEF PostPreview, At, fsm, PcMatchesOp
    <2>2. keyboards' \subseteq Tickets
      BY <1>1, <1>9, <2>1 DEF PostPreview, PcMatchesOp
    <2>3. CASE op = "preview"
      <3>1. task' = [task EXCEPT ![t] = Go("commit", mark, read)]
        BY <1>5, <1>9, <2>3 DEF PostPreview
      <3> QED
        BY <1>1, <1>4, <2>1, <2>2, <2>3, <3>1, FsmWrites DEF Pc, DbOp
    <2>4. CASE op # "preview"
      <3>1. task' = [task EXCEPT ![t] = Ended(t)]
        BY <1>9, <2>4 DEF PostPreview
      <3> QED
        BY <1>2, <2>1, <2>2, <3>1, FsmWrites, EndingQuietly
    <2> QED
      BY <2>3, <2>4
  <1>10. CASE ClearState(t)
    <2>1. /\ task[t].pc = "clear" /\ UNCHANGED <<data, keyboards>>
          /\ task' = [task EXCEPT ![t] = Go("clear_data", mark, read)]
      BY <1>5, <1>10 DEF ClearState, Goto, At, chats
    <2>2. state' \in [Admins -> State]
      BY <1>2, <1>10, FsmWrites DEF ClearState, State
    <2> QED
      BY <1>1, <1>4, <2>1, <2>2, FsmWrites DEF PcMatchesOp, Pc
  <1>11. CASE ClearData(t)
    <2>1. task[t].pc = "clear_data" /\ UNCHANGED <<state, keyboards>> /\ data' \in [Admins -> Data]
      BY <1>2, <1>11, DataFacts, FsmWrites DEF ClearData, At, chats
    <2>2. CASE op = "send"
      <3>1. task' = [task EXCEPT ![t] = Go("commit", mark, read)]
        BY <1>5, <1>11, <2>2 DEF ClearData
      <3> QED
        BY <1>1, <1>4, <2>1, <2>2, <3>1, FsmWrites DEF Pc, DbOp
    <2>3. CASE op # "send"
      <3>1. task' = [task EXCEPT ![t] = Ended(t)]
        BY <1>11, <2>3 DEF ClearData
      <3> QED
        BY <1>1, <1>2, <2>1, <3>1, FsmWrites, EndingQuietly
    <2> QED
      BY <2>2, <2>3
  <1>12. CASE BackToMenu(t)
    <2>1. /\ task[t].pc = "menu" /\ UNCHANGED <<data, keyboards>>
          /\ task' = [task EXCEPT ![t] = Go("commit", mark, read)]
      BY <1>5, <1>12 DEF BackToMenu, Goto, At, chats
    <2>2. state' \in [Admins -> State]
      BY <1>2, <1>12, FsmWrites DEF BackToMenu, State
    <2> QED
      BY <1>1, <1>4, <2>1, <2>2, FsmWrites DEF PcMatchesOp, Pc, DbOp
  <1> QED
    BY <1>6, <1>7, <1>8, <1>9, <1>10, <1>11, <1>12

\* From the text to the mark, and an edit.
LEMMA WorkKeeps ==
    ASSUME IInv, NEW t \in Tasks,
           SendText(t) \/ Undelivered(t) \/ MarkAwaiting(t) \/ FlushEdit(t)
    PROVE  IInv'
  <1> DEFINE Go(pc, m) == [task[t] EXCEPT !.pc = pc, !.mark = m]
             mark == task[t].mark
  <1>1. /\ Sound(t) /\ PcMatchesOp(t) /\ MarkedIsAsked(t) /\ task[t] \in Task
        /\ task \in [Tasks -> Task] /\ mark \in BOOLEAN
        /\ lock \in [Kinds \cup Tickets -> Tasks \cup {None}]
        /\ keyboards \subseteq Tickets /\ inbox \subseteq Text
    BY TaskFacts DEF Sound, Task, IInv, TypeOK
  <1>2. /\ Active(t) /\ task[t].pc \in {"send", "mark", "flush"}
        /\ UNCHANGED <<requisites, payments, awaiting, state, data, keyboards>>
    BY DEF SendText, Undelivered, MarkAwaiting, FlushEdit, At, Active, db, fsm, chats
  <1>3. mark => task[t].op = "send" /\ TextOf(t) \in inbox
    BY <1>1 DEF MarkedIsAsked
  <1>4. \A pc : [task EXCEPT ![t].pc = pc] = [task EXCEPT ![t] = Go(pc, mark)]
    <2>1. \A pc : [task[t] EXCEPT !.pc = pc] = Go(pc, mark)
      BY <1>1 DEF Task
    <2> QED
      BY <1>1, <2>1
  <1>5. ASSUME NEW pc \in {"mark", "commit", "clear", "menu"}, NEW m \in BOOLEAN,
               task' = [task EXCEPT ![t] = Go(pc, m)],
               pc \in {"mark", "clear"} \/ m => task[t].op = "send" /\ TextOf(t) \in inbox',
               pc = "menu" => task[t].op \in {"save", "delete"},
               lock' \in [Kinds \cup Tickets -> Tasks \cup {None}],
               \A r \in Kinds \cup Tickets : lock[r] \in Tasks => lock'[r] = lock[r],
               inbox \subseteq inbox', inbox' \subseteq Text
        PROVE  IInv'
    <2> DEFINE new == Go(pc, m)
    <2>1. pc \in Pc /\ task[t].op \in DbOp
      BY <1>1, <1>2 DEF Pc, PcMatchesOp, DbOp
    <2>2. /\ new \in Task /\ new.pc = pc /\ new.mark = m
          /\ new.op = task[t].op /\ new.by = task[t].by /\ new.ticket = task[t].ticket
          /\ new.amount = task[t].amount /\ new.kind = task[t].kind
          /\ new.field = task[t].field /\ new.row = task[t].row /\ new.fresh = task[t].fresh
      BY <1>1, <1>5, <2>1 DEF Task
    <2>3. task' = [task EXCEPT ![t] = new]
      BY <1>5
    <2> HIDE DEF new
    <2> QED
      BY <1>1, <1>2, <1>5, <2>1, <2>2, <2>3, FsmWrites, MovingOn
  <1> HIDE DEF Go
  <1>6. CASE SendText(t)
    <2>1. task[t].op = "send" /\ TextOf(t) \in Text
      BY <1>1, <1>6, TextType DEF SendText, At, PcMatchesOp
    <2>2. task' = [task EXCEPT ![t] = Go("mark", mark)]
      BY <1>4, <1>6 DEF SendText
    <2> QED
      BY <1>1, <1>3, <1>5, <1>6, <2>1, <2>2 DEF SendText, db
  <1>7. CASE Undelivered(t)
    <2>1. task[t].op = "send" /\ TextOf(t) \in Text
      BY <1>1, <1>7, TextType DEF Undelivered, At, PcMatchesOp
    <2>2. task' = [task EXCEPT ![t] = Go("commit", mark)]
      BY <1>4, <1>7 DEF Undelivered
    <2> QED
      BY <1>1, <1>3, <1>5, <1>7, <2>1, <2>2 DEF Undelivered, db
  <1>8. CASE MarkAwaiting(t)
    <2>1. task[t].op = "send" /\ TextOf(t) \in inbox /\ task[t].ticket \in Tickets
      BY <1>1, <1>8 DEF MarkAwaiting, PcMatchesOp, MarkedIsAsked, At
    <2>2. /\ lock' \in [Kinds \cup Tickets -> Tasks \cup {None}]
          /\ \A r \in Kinds \cup Tickets : lock[r] \in Tasks => lock'[r] = lock[r]
      BY <1>8, <2>1, LockFacts DEF MarkAwaiting
    <2>3. task' = [task EXCEPT ![t] = Go("clear", TRUE)] /\ inbox' = inbox
      BY <1>1, <1>8 DEF MarkAwaiting, Go, chats
    <2> QED
      BY <1>1, <1>5, <2>1, <2>2, <2>3
  <1>9. CASE FlushEdit(t)
    <2>1. task[t].op \in {"save", "delete"} /\ task[t].kind \in Kinds /\ ~mark
      BY <1>1, <1>3, <1>9 DEF FlushEdit, PcMatchesOp, At, DbOp
    <2>2. /\ lock' \in [Kinds \cup Tickets -> Tasks \cup {None}]
          /\ \A r \in Kinds \cup Tickets : lock[r] \in Tasks => lock'[r] = lock[r]
      BY <1>1, <1>9, <2>1, LockFacts DEF FlushEdit
    <2> DEFINE pc == IF task[t].op = "delete" THEN "commit" ELSE "menu"
    <2>3. task' = [task EXCEPT ![t] = Go(pc, mark)] /\ inbox' = inbox
      BY <1>4, <1>9 DEF FlushEdit, chats
    <2>4. pc \in {"commit", "menu"}
      OBVIOUS
    <2> HIDE DEF pc
    <2> QED
      BY <1>1, <1>5, <2>1, <2>2, <2>3, <2>4
  <1> QED
    BY <1>6, <1>7, <1>8, <1>9

-----------------------------------------------------------------------------
(* Steps that find what a handler works on.                                 *)

\* A handler that has no row yet and takes a value from the data, or finds that it must
\* insert the row.
LEMMA BeforeRowKeeps ==
    ASSUME IInv, NEW t \in Tasks, NEW new \in Task, task' = [task EXCEPT ![t] = new],
           task[t].pc \in {"look_up", "load"},
           new.op = task[t].op, new.by = task[t].by, new.fresh = task[t].fresh,
           new.mark = task[t].mark, new.amount = task[t].amount,
           \/ new.pc = "preview" /\ new.op = "comment" /\ new.ticket \in Tickets
           \/ /\ new.pc \in {"load", "insert"} /\ new.op \in DbOp /\ new.kind \in Kinds
              /\ new.op \in {"preview", "send"} => new.ticket \in Tickets
              /\ new.op \in {"save", "delete"} => new.field \in Fields,
           UNCHANGED <<requisites, payments, awaiting, lock, state, data, keyboards, inbox>>
    PROVE  IInv'
  <1>1. task'[t] = new /\ Sound(t)
    BY TaskFacts
  <1>2. PcMatchesOp(t)' /\ ~HasRow(t)'
    BY <1>1 DEF Sound, PcMatchesOp, Active, HasRow, DbOp
  <1>3. ~new.fresh /\ ~new.mark
    BY <1>1 DEF Sound, RowIsThere, MarkedIsAsked, HasRow
  <1>4. Sound(t)'
    BY <1>1, <1>2, <1>3, WithoutRow
  <1> QED
    BY <1>4, QuietStepKeeps DEF IInv, TypeOK

LEMMA LookUpKeeps ==
    ASSUME IInv, NEW t \in Tasks, LookUpTicket(t) \/ LookUpField(t)
    PROVE  IInv'
  <1>1. /\ task[t] \in Task /\ task \in [Tasks -> Task] /\ Sound(t) /\ Active(t)
        /\ task[t].pc = "look_up"
    BY TaskFacts DEF LookUpTicket, LookUpField, At, Active
  <1>2. UNCHANGED <<requisites, payments, awaiting, lock, state, data, keyboards, inbox>>
    BY DEF LookUpTicket, LookUpField, db, fsm, chats
  <1> DEFINE d == data[task[t].by]
  <1>3. d \in Data
    BY <1>1, TaskFacts
  <1>4. "load" \in Pc /\ "preview" \in Pc
    BY DEF Pc
  <1>5. CASE LookUpTicket(t)
    <2>1. d.ticket \in Tickets /\ KindOf[d.ticket] \in Kinds
      BY <1>3, <1>5, RequisitesAssumption DEF LookUpTicket, Data
    <2>2. CASE task[t].op = "preview"
      <3> DEFINE new == [task[t] EXCEPT !.pc = "load", !.ticket = d.ticket,
                                        !.kind = KindOf[d.ticket]]
      <3>1. /\ new \in Task /\ new.pc = "load" /\ new.op = "preview" /\ new.by = task[t].by
            /\ new.ticket = d.ticket /\ new.kind = KindOf[d.ticket] /\ new.fresh = task[t].fresh
            /\ new.mark = task[t].mark /\ new.amount = task[t].amount
        BY <1>1, <1>4, <2>1, <2>2 DEF Task
      <3>2. task' = [task EXCEPT ![t] = new]
        BY <1>1, <1>5, <2>2 DEF LookUpTicket
      <3> HIDE DEF new
      <3> QED
        BY <1>1, <1>2, <2>1, <2>2, <3>1, <3>2, BeforeRowKeeps DEF DbOp
    <2>3. CASE task[t].op = "comment"
      <3> DEFINE new == [task[t] EXCEPT !.pc = "preview", !.ticket = d.ticket]
      <3>1. /\ new \in Task /\ new.pc = "preview" /\ new.op = "comment" /\ new.by = task[t].by
            /\ new.ticket = d.ticket /\ new.fresh = task[t].fresh
            /\ new.mark = task[t].mark /\ new.amount = task[t].amount
        BY <1>1, <1>4, <2>1, <2>3 DEF Task
      <3>2. task' = [task EXCEPT ![t] = new]
        BY <1>1, <1>5, <2>3 DEF LookUpTicket
      <3> HIDE DEF new
      <3> QED
        BY <1>1, <1>2, <2>1, <2>3, <3>1, <3>2, BeforeRowKeeps
    <2> QED
      BY <1>5, <2>2, <2>3 DEF LookUpTicket
  <1>6. CASE LookUpField(t)
    <2> DEFINE f == IF task[t].field = Photo THEN Photo ELSE d.settings_field
               new == [task[t] EXCEPT !.pc = "load", !.kind = d.settings_kind, !.field = f]
    <2>1. d.settings_kind \in Kinds /\ f \in Fields /\ task[t].op = "save"
      BY <1>3, <1>6, RequisitesAssumption DEF LookUpField, Data
    <2>2. task' = [task EXCEPT ![t] = new]
      BY <1>1, <1>6 DEF LookUpField
    <2> HIDE DEF f
    <2>3. /\ new \in Task /\ new.pc = "load" /\ new.op = "save" /\ new.by = task[t].by
          /\ new.kind = d.settings_kind /\ new.field = f /\ new.fresh = task[t].fresh
          /\ new.mark = task[t].mark /\ new.amount = task[t].amount
      BY <1>1, <1>4, <2>1 DEF Task
    <2> HIDE DEF new
    <2> QED
      BY <1>1, <1>2, <2>1, <2>2, <2>3, BeforeRowKeeps DEF DbOp
  <1> QED
    BY <1>5, <1>6

\* A handler that has got its row goes on to its work.
LEMMA WithNewRow ==
    ASSUME IInv, NEW t \in Tasks, NEW new \in Task, task' = [task EXCEPT ![t] = new],
           task[t].pc \in {"load", "insert"}, new.pc = After(task[t].op),
           new.op = task[t].op, new.by = task[t].by, new.ticket = task[t].ticket,
           new.amount = task[t].amount, new.kind = task[t].kind, new.field = task[t].field,
           new.mark = task[t].mark,
           IF new.fresh THEN requisites[new.kind] = None /\ lock'[new.kind] = t
                        ELSE requisites[new.kind] # None,
           lock' \in [Kinds \cup Tickets -> Tasks \cup {None}],
           \A r \in Kinds \cup Tickets : lock[r] \in Tasks => lock'[r] = lock[r],
           UNCHANGED <<requisites, payments, awaiting, state, data, keyboards, inbox>>
    PROVE  IInv'
  <1>1. task'[t] = new /\ Sound(t)
    BY TaskFacts
  <1>2. task[t].op \in {"preview", "send", "save", "delete", "look"}
    BY <1>1 DEF Sound, PcMatchesOp, DbOp
  <1>3. /\ new.pc \in {"get", "send", "flush", "commit"}
        /\ new.pc = "get" => task[t].op = "preview"
        /\ new.pc = "send" => task[t].op = "send"
        /\ new.pc = "flush" => task[t].op \in {"save", "delete"}
    BY <1>2 DEF After
  <1>4. PcMatchesOp(t)' /\ HasRow(t)'
    BY <1>1, <1>2, <1>3 DEF Sound, PcMatchesOp, Active, HasRow, DbOp
  <1>5. ~new.mark
    BY <1>1 DEF Sound, MarkedIsAsked, HasRow
  <1>6. Sound(t)'
    BY <1>1, <1>3, <1>4, <1>5 DEF Sound, RowIsThere, MarkedIsAsked, At
  <1> QED
    BY <1>6, QuietStepKeeps DEF IInv, TypeOK

LEMMA LoadKeeps ==
    ASSUME IInv, NEW t \in Tasks, LoadRequisites(t)
    PROVE  IInv'
  <1> DEFINE k == task[t].kind
  <1>1. /\ task[t] \in Task /\ task \in [Tasks -> Task] /\ Sound(t) /\ task[t].pc = "load"
        /\ task[t].op \in DbOp /\ k \in Kinds /\ requisites[k] \in Row \cup {None}
        /\ ~task[t].fresh
    BY TaskFacts DEF LoadRequisites, Sound, RowIsThere, HasRow, At, PcMatchesOp
  <1>2. /\ UNCHANGED <<requisites, payments, awaiting, lock, state, data, keyboards, inbox>>
        /\ lock \in [Kinds \cup Tickets -> Tasks \cup {None}]
    BY DEF LoadRequisites, db, fsm, chats, IInv, TypeOK
  <1>3. CASE requisites[k] = None
    <2> DEFINE new == [task[t] EXCEPT !.pc = "insert"]
    <2>1. task' = [task EXCEPT ![t] = new]
      BY <1>1, <1>3 DEF LoadRequisites
    <2>2. /\ new \in Task /\ new.pc = "insert" /\ new.op = task[t].op /\ new.by = task[t].by
          /\ new.ticket = task[t].ticket /\ new.amount = task[t].amount /\ new.kind = k
          /\ new.field = task[t].field /\ new.fresh = task[t].fresh /\ new.mark = task[t].mark
      BY <1>1 DEF Task, Pc
    <2> HIDE DEF new
    <2> QED
      BY <1>1, <1>2, <2>1, <2>2, BeforeRowKeeps DEF Sound, PcMatchesOp
  <1>4. CASE requisites[k] # None
    <2> DEFINE pc == After(task[t].op)
               new == [task[t] EXCEPT !.pc = pc, !.row = requisites[k]]
    <2>1. task' = [task EXCEPT ![t] = new]
      BY <1>1, <1>4 DEF LoadRequisites
    <2>2. pc \in Pc /\ requisites[k] \in Row
      BY <1>1, <1>4 DEF After, DbOp, Pc
    <2> HIDE DEF pc
    <2>3. /\ new \in Task /\ new.pc = pc /\ new.op = task[t].op /\ new.by = task[t].by
          /\ new.ticket = task[t].ticket /\ new.amount = task[t].amount /\ new.kind = k
          /\ new.field = task[t].field /\ ~new.fresh /\ new.mark = task[t].mark
      BY <1>1, <2>2 DEF Task
    <2> HIDE DEF new
    <2> QED
      BY <1>1, <1>2, <1>4, <2>1, <2>3, WithNewRow DEF pc
  <1> QED
    BY <1>3, <1>4

LEMMA InsertKeeps ==
    ASSUME IInv, NEW t \in Tasks, InsertRequisites(t)
    PROVE  IInv'
  <1> DEFINE k == task[t].kind
             pc == After(task[t].op)
             new == [task[t] EXCEPT !.pc = pc, !.fresh = TRUE]
  <1>1. /\ task[t] \in Task /\ task \in [Tasks -> Task] /\ task[t].pc = "insert"
        /\ task[t].op \in DbOp /\ k \in Kinds /\ requisites[k] = None
        /\ UNCHANGED <<requisites, payments, awaiting, state, data, keyboards, inbox>>
    BY TaskFacts DEF InsertRequisites, Sound, PcMatchesOp, At, fsm, chats
  <1>2. /\ lock' \in [Kinds \cup Tickets -> Tasks \cup {None}]
        /\ lock'[k] = t
        /\ \A q \in Kinds \cup Tickets : lock[q] \in Tasks => lock'[q] = lock[q]
    BY <1>1, LockFacts DEF InsertRequisites
  <1>3. task' = [task EXCEPT ![t] = new]
    BY <1>1 DEF InsertRequisites
  <1>4. pc \in Pc
    BY <1>1 DEF After, DbOp, Pc
  <1> HIDE DEF pc
  <1>5. /\ new \in Task /\ new.pc = pc /\ new.op = task[t].op /\ new.by = task[t].by
        /\ new.ticket = task[t].ticket /\ new.amount = task[t].amount /\ new.kind = k
        /\ new.field = task[t].field /\ new.fresh /\ new.mark = task[t].mark
    <2>1. new \in Task
      BY <1>1, <1>4 DEF Task
    <2> QED
      BY <1>1, <2>1 DEF Task
  <1> HIDE DEF new
  <1> QED
    BY <1>1, <1>2, <1>3, <1>5, WithNewRow DEF pc

-----------------------------------------------------------------------------
(* The end of a handler.                                                    *)

\* A handler that has ended holds nothing, and those that go on keep what they hold.
LEMMA EndKeeps ==
    ASSUME IInv, NEW t \in Tasks,
           task' = [task EXCEPT ![t] = Ended(t)],
           lock' = Released(t),
           UNCHANGED <<fsm, chats>>,
           requisites' \in [Kinds -> Row \cup {None}],
           payments' \subseteq Payment, awaiting' \subseteq Tickets, AwaitingIsAsked',
           \A k \in Kinds : requisites[k] # None => requisites'[k] # None,
           \A k \in Kinds : lock[k] \in Tasks \ {t} /\ requisites[k] = None => requisites'[k] = None
    PROVE  IInv'
  <1>1. /\ task' \in [Tasks -> Task] /\ task'[t] = Ended(t)
        /\ \A u \in Tasks \ {t} : task'[u] = task[u]
    BY EndedFacts, TaskFacts
  <1>2. /\ lock' \in [Kinds \cup Tickets -> Tasks \cup {None}]
        /\ \A k \in Kinds : lock[k] \in Tasks \ {t} => lock'[k] = lock[k]
    BY DEF Released, IInv, TypeOK
  <1>3. TypeOK' /\ inbox \subseteq inbox'
    BY <1>1, <1>2 DEF IInv, TypeOK, fsm, chats
  <1>4. Sound(t)'
    <2>1. PcMatchesOp(t)' /\ ~HasRow(t)'
      BY <1>1, EndedFacts DEF PcMatchesOp, Active, HasRow, DbOp
    <2> QED
      BY <1>1, <2>1, EndedFacts, WithoutRow
  <1>5. \A u \in Tasks \ {t} : Sound(u)'
    BY <1>1, <1>2, <1>3, OthersStaySound
  <1> QED
    BY <1>3, <1>4, <1>5 DEF IInv

\* What a commit makes of the row: it is there, and only the edited field differs.
LEMMA CommittedRow ==
    ASSUME IInv, NEW t \in Tasks, At(t, "commit")
    PROVE  /\ task[t].kind \in Kinds
           /\ UpdatedRow(t) \in Row
           /\ task[t].fresh <=> requisites[task[t].kind] = None
           /\ task[t].fresh => lock[task[t].kind] = t
           /\ \A f \in Fields :
                 requisites[task[t].kind] # None /\ UpdatedRow(t)[f] # requisites[task[t].kind][f]
                 => /\ task[t].op \in {"save", "delete"} /\ f = task[t].field
                    /\ UpdatedRow(t)[f] = task[t].value
  <1> DEFINE k == task[t].kind
             old == IF task[t].fresh THEN task[t].row ELSE requisites[k]
  <1>1. /\ k \in Kinds /\ task[t].row \in Row /\ requisites[k] \in Row \cup {None} /\ Sound(t)
        /\ task[t].value \in Values \cup {None} /\ HasRow(t)
    BY TaskFacts DEF Sound, PcMatchesOp, HasRow, At, Task
  <1>2. task[t].op \in {"save", "delete"} => task[t].field \in Fields
    BY <1>1 DEF Sound, PcMatchesOp, HasRow
  <1>3. (task[t].fresh <=> requisites[k] = None) /\ (task[t].fresh => lock[k] = t)
    BY <1>1 DEF Sound, RowIsThere
  <1>4. old \in Row /\ (requisites[k] # None => old = requisites[k])
    BY <1>1, <1>3
  <1>5. UpdatedRow(t) = IF Changes(t) THEN [old EXCEPT ![task[t].field] = task[t].value] ELSE old
    BY DEF UpdatedRow
  <1>6. Changes(t) => task[t].op \in {"save", "delete"}
    BY DEF Changes
  <1> HIDE DEF old
  <1>7. UpdatedRow(t) \in Row
    BY <1>1, <1>2, <1>4, <1>5, <1>6, RowFacts
  <1>8. ASSUME NEW f \in Fields, requisites[k] # None, UpdatedRow(t)[f] # requisites[k][f]
        PROVE  task[t].op \in {"save", "delete"} /\ f = task[t].field /\ UpdatedRow(t)[f] = task[t].value
    BY <1>2, <1>4, <1>5, <1>6, <1>8 DEF Row
  <1> QED
    BY <1>1, <1>3, <1>7, <1>8

LEMMA CommitKeeps ==
    ASSUME IInv, NEW t \in Tasks, Commit(t)
    PROVE  IInv'
  <1> DEFINE k == task[t].kind
  <1>1. /\ k \in Kinds /\ UpdatedRow(t) \in Row /\ (task[t].fresh <=> requisites[k] = None)
        /\ task[t].fresh => lock[k] = t
    BY CommittedRow DEF Commit
  <1>2. requisites \in [Kinds -> Row \cup {None}] /\ payments \subseteq Payment /\ awaiting \subseteq Tickets
    BY DEF IInv, TypeOK
  <1>3. requisites' = [requisites EXCEPT ![k] = UpdatedRow(t)]
    BY DEF Commit
  <1>4. requisites' \in [Kinds -> Row \cup {None}]
    BY <1>1, <1>2, <1>3
  <1>5. \A j \in Kinds : requisites[j] # None => requisites'[j] # None
    BY <1>1, <1>2, <1>3, RowFacts
  <1>6. \A j \in Kinds : lock[j] \in Tasks \ {t} /\ requisites[j] = None => requisites'[j] = None
    BY <1>1, <1>2, <1>3
  <1>7. payments' \subseteq Payment /\ payments \subseteq payments'
    BY <1>2, TextType DEF Commit
  <1>8. Sound(t)
    BY DEF IInv
  <1>9. task[t].mark => task[t].op = "send" /\ task[t].ticket \in Tickets /\ TextOf(t) \in inbox
    BY <1>8 DEF Sound, MarkedIsAsked, PcMatchesOp
  <1>10. awaiting' \subseteq Tickets
    BY <1>2, <1>9 DEF Commit
  <1>11. AwaitingIsAsked'
    <2> SUFFICES ASSUME NEW tk \in awaiting'
                 PROVE  \E p \in payments' : /\ p.ticket = tk
                           /\ [ticket |-> tk, amount |-> p.amount, details |-> p.details] \in inbox'
      BY DEF AwaitingIsAsked
    <2>1. inbox' = inbox
      BY DEF Commit, chats
    <2>2. CASE tk \in awaiting
      BY <1>7, <2>1, <2>2 DEF IInv, AwaitingIsAsked
    <2>3. CASE tk \notin awaiting
      <3>1. task[t].mark /\ tk = task[t].ticket
        BY <2>3 DEF Commit
      <3>2. Booked(t) \in payments'
        BY <1>9, <3>1 DEF Commit
      <3>3. /\ Booked(t).ticket = tk
            /\ [ticket |-> tk, amount |-> Booked(t).amount, details |-> Booked(t).details] = TextOf(t)
        BY <3>1 DEF Booked, TextOf
      <3> QED
        BY <1>9, <2>1, <3>1, <3>2, <3>3
    <2> QED
      BY <2>2, <2>3
  <1> QED
    BY <1>4, <1>5, <1>6, <1>7, <1>10, <1>11, EndKeeps DEF Commit

LEMMA AbortKeeps ==
    ASSUME IInv, NEW t \in Tasks, Abort(t)
    PROVE  IInv'
  <1>1. AwaitingIsAsked'
    BY DEF Abort, IInv, AwaitingIsAsked, chats
  <1>2. requisites' \in [Kinds -> Row \cup {None}] /\ payments' \subseteq Payment /\ awaiting' \subseteq Tickets
    BY DEF Abort, IInv, TypeOK
  <1> QED
    BY <1>1, <1>2, EndKeeps DEF Abort

LEMMA NextInv == IInv /\ [Next]_vars => IInv'
  <1> SUFFICES ASSUME IInv, [Next]_vars PROVE IInv'
    OBVIOUS
  <1>1. ASSUME NEW a \in Admins, AddCommentPrompt(a) \/ PaymentSettingsMenu(a) PROVE IInv'
    BY <1>1, PromptKeeps
  <1>2. ASSUME NEW t \in Tasks, NEW a \in Admins, Update(t, a) PROVE IInv'
    BY <1>2, UpdateKeeps
  <1>3. ASSUME NEW t \in Tasks, TaskStep(t) PROVE IInv'
    BY <1>3, LookUpKeeps, LoadKeeps, InsertKeeps, CallKeeps, WorkKeeps, CommitKeeps, AbortKeeps
       DEF TaskStep
  <1>4. CASE UNCHANGED vars
    <2>1. UNCHANGED <<requisites, payments, awaiting, lock, state, data, keyboards, inbox, task>>
      BY <1>4 DEF vars, db, fsm, chats
    <2>2. TypeOK' /\ AwaitingIsAsked'
      BY <2>1 DEF IInv, TypeOK, AwaitingIsAsked
    <2>3. ASSUME NEW t \in Tasks PROVE Sound(t)'
      BY <2>1 DEF IInv, Sound, PcMatchesOp, RowIsThere, MarkedIsAsked, Active, HasRow, At, TextOf
    <2> QED
      BY <2>2, <2>3 DEF IInv
  <1> QED
    BY <1>1, <1>2, <1>3, <1>4 DEF Next

-----------------------------------------------------------------------------
(* Theorems.                                                                *)

\* In every reachable state handlers and their rows are sound.
THEOREM Invariance == Spec => []IInv
  BY InitInv, NextInv, PTL DEF Spec

\* Requisites, payments, locks, the FSM, the chats and the handlers are well typed.
THEOREM TypeCorrect == Spec => []TypeOK
  <1>1. IInv => TypeOK
    BY DEF IInv
  <1> QED
    BY <1>1, Invariance, PTL

\* Whoever awaits a payment was asked for it: the text that was sent and the payment that
\* was booked say the same, because both come from the instance the handler has loaded.
THEOREM AwaitedWasAsked == Spec => []AwaitingIsAsked
  <1>1. IInv => AwaitingIsAsked
    BY DEF IInv
  <1> QED
    BY <1>1, Invariance, PTL

\* However edits overlap, each one changes its own field and no row is lost.
THEOREM EditsAreMerged == Spec => EditsOneField
  <1> DEFINE A == \A k \in Kinds : requisites[k] # None =>
                    /\ requisites'[k] # None
                    /\ \A f \in Fields : requisites'[k][f] # requisites[k][f] =>
                          \E t \in Tasks : /\ task[t].op \in {"save", "delete"}
                                           /\ task[t].kind = k /\ task[t].field = f
                                           /\ requisites'[k][f] = task[t].value
  <1>1. IInv /\ [Next]_vars => [A]_vars
    <2> SUFFICES ASSUME IInv, Next PROVE A
      OBVIOUS
    <2>1. ASSUME NEW t \in Tasks, Commit(t) PROVE A
      <3> SUFFICES ASSUME NEW k \in Kinds, requisites[k] # None
                   PROVE  /\ requisites'[k] # None
                          /\ \A f \in Fields : requisites'[k][f] # requisites[k][f] =>
                                /\ task[t].op \in {"save", "delete"}
                                /\ task[t].kind = k /\ task[t].field = f
                                /\ requisites'[k][f] = task[t].value
        OBVIOUS
      <3>1. /\ At(t, "commit") /\ requisites' = [requisites EXCEPT ![task[t].kind] = UpdatedRow(t)]
            /\ requisites \in [Kinds -> Row \cup {None}]
        BY <2>1 DEF Commit, IInv, TypeOK
      <3>2. CASE k = task[t].kind
        BY <3>1, <3>2, CommittedRow, RowFacts
      <3>3. CASE k # task[t].kind
        BY <3>1, <3>3
      <3> QED
        BY <3>2, <3>3
    <2>2. CASE UNCHANGED requisites
      BY <2>2
    <2>3. ASSUME NEW a \in Admins, AddCommentPrompt(a) \/ PaymentSettingsMenu(a)
          PROVE  UNCHANGED requisites
      BY <2>3 DEF AddCommentPrompt, PaymentSettingsMenu, db
    <2>4. ASSUME NEW t \in Tasks, NEW a \in Admins, Update(t, a) PROVE UNCHANGED requisites
      BY <2>4 DEF Update, CancelFlow, StartRequisitesFlow, SendRequisitesToUser, SaveComment,
         EnterAmount, SaveTextField, SaveRequisitesPhoto, ChooseKind, DeletePhoto, Look,
         PaymentFieldEdit, Start, db
    <2>5. ASSUME NEW t \in Tasks, TaskStep(t) PROVE UNCHANGED requisites \/ Commit(t)
      BY <2>5 DEF TaskStep, LookUpTicket, LookUpField, GetData, PutData, SetPreview,
         PostPreview, ClearState, ClearData, BackToMenu, LoadRequisites, InsertRequisites,
         SendText, Undelivered, MarkAwaiting, FlushEdit, Abort, db
    <2> QED
      BY <2>1, <2>2, <2>3, <2>4, <2>5 DEF Next
  <1> QED
    BY <1>1, Invariance, PTL DEF Spec, EditsOneField

=============================================================================
