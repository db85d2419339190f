-------------------------- MODULE FsmStorageProofs --------------------------
(***************************************************************************)
(* For any number of handlers and members, any size of the pool and any    *)
(* number of calls, the FSM storage is well typed and implements FsmStore: *)
(* a call of two statements acts like one of a single moment.  The moment  *)
(* of a call that writes is its write, where it changes one column of the  *)
(* row as it is then, however old what it has read; that of any other call *)
(* is its read.                                                            *)
(***************************************************************************)
EXTENDS FsmStorage, TLAPS

\* A handler that makes a call knows for whom and what; one that will write has not asked
\* for a reading.
CallIsKnown ==
    \A t \in Tasks :
        /\ task[t].pc # "idle" => task[t].member \in Members
        /\ task[t].req # None <=> task[t].pc \in {"connect", "read", "write", "return"}
        /\ task[t].pc = "write" => task[t].req.op # "get"

IInv == TypeOK /\ CallIsKnown

Cells == [m \in Members |-> Content(row[m])]

-----------------------------------------------------------------------------
(* Requests and rows.                                                       *)

LEMMA RequestForm ==
    ASSUME NEW r \in Request
    PROVE  /\ r \in Store!Request
           /\ r.op \in {"get", "set_state", "set_data"}
           /\ r.op = "get" <=> r = Get
           /\ r.state \in States \cup {None}
           /\ r.data \in SUBSET Items
  <1>1. \/ r = Get
        \/ \E x \in States \cup {None} : r = SetState(x)
        \/ \E d \in SUBSET Items : r = SetData(d)
    BY DEF Request
  <1> QED
    BY <1>1 DEF Get, SetState, SetData, Store!Request

LEMMA ContentForm ==
    ASSUME NEW r \in Row \cup {None}
    PROVE  Content(r) \in Row
  BY DEF Content, Empty, Row

\* The effect on a row is the effect on its cell.
LEMMA WrittenForm ==
    ASSUME NEW c \in Row, NEW r \in Request, r.op # "get"
    PROVE  /\ Written(c, r) \in Row
           /\ Written(c, r) = Store!Effect(c, r)
           /\ Content(Written(c, r)) = Written(c, r)
  <1>1. Written(c, r) \in Row /\ Written(c, r) = Store!Effect(c, r)
    BY RequestForm DEF Written, Row, Store!Effect
  <1> QED
    BY <1>1, NoneAssumption DEF Content

\* What is not written would change nothing.
LEMMA NothingToWrite ==
    ASSUME NEW r \in Row \cup {None}, NEW q \in Request, ~Writes(r, q)
    PROVE  Store!Effect(Content(r), q) = Content(r)
  <1>1. Content(r) \in Row /\ (r # None => Content(r) = r)
    BY ContentForm DEF Content
  <1> QED
    BY <1>1, RequestForm DEF Writes, Store!Effect, Row

-----------------------------------------------------------------------------
(* The invariant.                                                           *)

LEMMA InitInv == Init => IInv
  BY StorageAssumption, NoneAssumption DEF Init, IInv, TypeOK, CallIsKnown, Idle, Task

\* A step of one handler keeps the invariant if what it makes of the handler is sound.
LEMMA TaskStepKeeps ==
    ASSUME IInv, NEW t \in Tasks,
           row' \in [Members -> Row \cup {None}],
           task' \in [Tasks -> Task],
           \A u \in Tasks \ {t} : task'[u] = task[u],
           task'[t].pc # "idle" => task'[t].member \in Members,
           task'[t].req # None <=> task'[t].pc \in {"connect", "read", "write", "return"},
           task'[t].pc = "write" => task'[t].req.op # "get"
    PROVE  IInv'
  BY DEF IInv, TypeOK, CallIsKnown

LEMMA IdleKeeps ==
    ASSUME IInv, NEW t \in Tasks, UNCHANGED row, task' = [task EXCEPT ![t] = Idle]
    PROVE  IInv'
  <1>1. Idle \in Task /\ Idle.pc = "idle" /\ Idle.req = None
    BY StorageAssumption DEF Idle, Task
  <1> QED
    BY <1>1, TaskStepKeeps DEF IInv, TypeOK

LEMMA BeginKeeps ==
    ASSUME IInv, NEW t \in Tasks, NEW m \in Members, Begin(t, m)
    PROVE  IInv'
  <1>1. [Idle EXCEPT !.pc = "ready", !.member = m, !.left = MaxCalls] \in Task
    <2>1. MaxCalls \in 0..MaxCalls
      BY StorageAssumption
    <2> QED
      BY <2>1 DEF Idle, Task
  <1>2. /\ task'[t].pc = "ready" /\ task'[t].member = m /\ task'[t].req = None
        /\ task' \in [Tasks -> Task] /\ \A u \in Tasks \ {t} : task'[u] = task[u]
    BY <1>1 DEF Begin, Idle, IInv, TypeOK
  <1> QED
    BY <1>2, TaskStepKeeps DEF Begin, IInv, TypeOK

LEMMA QueryKeeps ==
    ASSUME IInv, NEW t \in Tasks, Query(t)
    PROVE  IInv'
  BY TaskStepKeeps DEF Query, Ready, At, IInv, TypeOK, CallIsKnown, Task

LEMMA CallKeeps ==
    ASSUME IInv, NEW t \in Tasks, NEW r \in Request, NEW i \in Items \cup {None}, Call(t, r, i)
    PROVE  IInv'
  <1>1. r # None
    BY NoneAssumption
  <1>2. task[t].left - 1 \in 0..MaxCalls
    BY StorageAssumption DEF Call, IInv, TypeOK, Task
  <1> QED
    BY <1>1, <1>2, TaskStepKeeps DEF Call, Ready, At, IInv, TypeOK, CallIsKnown, Task

LEMMA MergeDataKeeps ==
    ASSUME IInv, NEW t \in Tasks, MergeData(t)
    PROVE  IInv'
  <1> DEFINE r == SetData(Content(task[t].seen).data \cup {task[t].merge})
  <1>1. r \in Request
    <2>1. Content(task[t].seen).data \cup {task[t].merge} \in SUBSET Items
      BY ContentForm DEF MergeData, IInv, TypeOK, Task, Row
    <2> QED
      BY <2>1 DEF Request
  <1>2. r # None
    BY <1>1, NoneAssumption
  <1> HIDE DEF r
  <1>3. task' = [task EXCEPT ![t].pc = "connect", ![t].req = r, ![t].merge = None, ![t].seen = None]
    BY DEF MergeData, r
  <1>4. task[t].pc = "ready" /\ task[t].member \in Members /\ task[t] \in Task /\ UNCHANGED row
    BY DEF MergeData, At, IInv, TypeOK, CallIsKnown
  <1>5. /\ task'[t].pc = "connect" /\ task'[t].req = r /\ task'[t].member = task[t].member
        /\ task'[t] \in Task
    BY <1>1, <1>3, <1>4 DEF IInv, TypeOK, Task
  <1>6. task' \in [Tasks -> Task] /\ \A u \in Tasks \ {t} : task'[u] = task[u]
    BY <1>3, <1>5 DEF IInv, TypeOK
  <1> QED
    BY <1>2, <1>4, <1>5, <1>6, TaskStepKeeps DEF IInv, TypeOK

LEMMA ConnectKeeps ==
    ASSUME IInv, NEW t \in Tasks, Connect(t)
    PROVE  IInv'
  BY TaskStepKeeps DEF Connect, At, IInv, TypeOK, CallIsKnown, Task

LEMMA ReadRowKeeps ==
    ASSUME IInv, NEW t \in Tasks, ReadRow(t)
    PROVE  IInv'
  <1>1. /\ task[t].req \in Request /\ task[t].member \in Members
        /\ row[task[t].member] \in Row \cup {None}
    BY DEF ReadRow, At, IInv, TypeOK, CallIsKnown, Task
  <1>2. Writes(row[task[t].member], task[t].req) => task[t].req.op # "get"
    BY DEF Writes
  <1>3. /\ task'[t].pc \in {"write", "return"}
        /\ task'[t].pc = "write" => Writes(row[task[t].member], task[t].req)
        /\ task'[t].req = task[t].req /\ task'[t].member = task[t].member
        /\ task'[t] \in Task
    BY <1>1 DEF ReadRow, At, IInv, TypeOK, Task
  <1>4. /\ task' \in [Tasks -> Task] /\ \A u \in Tasks \ {t} : task'[u] = task[u]
        /\ UNCHANGED row /\ task[t].req # None
    BY <1>3 DEF ReadRow, At, IInv, TypeOK, CallIsKnown
  <1> QED
    BY <1>1, <1>2, <1>3, <1>4, TaskStepKeeps DEF IInv, TypeOK

LEMMA WriteRowKeeps ==
    ASSUME IInv, NEW t \in Tasks, WriteRow(t)
    PROVE  IInv'
  <1>1. /\ task[t].req \in Request /\ task[t].req.op # "get" /\ task[t].member \in Members
        /\ row[task[t].member] \in Row \cup {None}
    BY DEF WriteRow, At, IInv, TypeOK, CallIsKnown, Task
  <1>2. Written(Content(row[task[t].member]), task[t].req) \in Row
    BY <1>1, ContentForm, WrittenForm
  <1> QED
    BY <1>1, <1>2, TaskStepKeeps DEF WriteRow, At, IInv, TypeOK, CallIsKnown, Task

LEMMA ReturnKeeps ==
    ASSUME IInv, NEW t \in Tasks, Return(t)
    PROVE  IInv'
  BY TaskStepKeeps DEF Return, At, IInv, TypeOK, CallIsKnown, Task

LEMMA NextInv == IInv /\ [Next]_vars => IInv'
  <1> SUFFICES ASSUME IInv, [Next]_vars PROVE IInv'
    OBVIOUS
  <1>1. CASE UNCHANGED vars
    BY <1>1 DEF vars, IInv, TypeOK, CallIsKnown
  <1>2. ASSUME NEW t \in Tasks, Fail(t) PROVE IInv'
    BY <1>2, IdleKeeps DEF Fail
  <1>3. ASSUME NEW t \in Tasks, NEW m \in Members, Begin(t, m) PROVE IInv'
    BY <1>3, BeginKeeps
  <1>4. ASSUME NEW t \in Tasks, Step(t) PROVE IInv'
    <2>1. CASE PoolTimeout(t) \/ InsertCollides(t) \/ Finish(t)
      BY <2>1, IdleKeeps DEF PoolTimeout, InsertCollides, Finish
    <2>2. ASSUME NEW r \in Request, NEW i \in Items \cup {None}, Call(t, r, i) PROVE IInv'
      BY <2>2, CallKeeps
    <2>3. /\ Get \in Request /\ SetData({}) \in Request
          /\ \A s \in States \cup {None} : SetState(s) \in Request
      BY DEF Request
    <2> QED
      BY <1>4, <2>1, <2>2, <2>3, QueryKeeps, MergeDataKeeps, ConnectKeeps, ReadRowKeeps,
         WriteRowKeeps, ReturnKeeps DEF Step
  <1> QED
    BY <1>1, <1>2, <1>3, <1>4 DEF Next

\* A handler that makes a call knows it, in every reachable state.
THEOREM Invariance == Spec => []IInv
  BY InitInv, NextInv, PTL DEF Spec

\* Rows and handlers of the FSM storage are well typed.
THEOREM TypeCorrect == Spec => []TypeOK
  <1>1. IInv => TypeOK
    BY DEF IInv
  <1> QED
    BY <1>1, Invariance, PTL

-----------------------------------------------------------------------------
(* The refinement.                                                          *)

LEMMA StoreInit == Init => Store!Init
  <1> SUFFICES ASSUME Init PROVE Store!Init
    OBVIOUS
  <1>1. Cells = [m \in Members |-> Store!Empty]
    BY DEF Init, Cells, Content, Empty, Store!Empty
  <1>2. \A t \in Tasks : CallOf(t) = Store!NoCall
    BY DEF Init, Idle, CallOf, Store!NoCall
  <1> QED
    BY <1>1, <1>2 DEF Store!Init, Cells

\* What a handler does between its calls, or while its call goes on.
LEMMA Stutter ==
    ASSUME UNCHANGED row, \A t \in Tasks : CallOf(t)' = CallOf(t)
    PROVE  UNCHANGED Store!vars
  BY DEF Store!vars

\* The call of a handler depends on nothing but that handler.
LEMMA OthersStay ==
    ASSUME NEW t \in Tasks, \A u \in Tasks \ {t} : task'[u] = task[u]
    PROVE  \A u \in Tasks \ {t} : CallOf(u)' = CallOf(u)
  BY DEF CallOf, At

LEMMA LeaveMaps ==
    ASSUME NEW t \in Tasks, UNCHANGED row, \A u \in Tasks \ {t} : task'[u] = task[u],
           task'[t].req = None
    PROVE  Store!Next \/ UNCHANGED Store!vars
  <1>1. CallOf(t)' = Store!NoCall /\ \A u \in Tasks \ {t} : CallOf(u)' = CallOf(u)
    BY OthersStay DEF CallOf, Store!NoCall
  <1>2. CASE CallOf(t) = Store!NoCall
    BY <1>1, <1>2, Stutter
  <1>3. CASE CallOf(t) # Store!NoCall
    <2>1. [u \in Tasks |-> CallOf(u)'] = [[u \in Tasks |-> CallOf(u)] EXCEPT ![t] = Store!NoCall]
      BY <1>1
    <2>2. [m \in Members |-> Content(row'[m])] = [m \in Members |-> Content(row[m])]
      OBVIOUS
    <2>3. Store!Leave(t)
      BY <1>3, <2>1, <2>2 DEF Store!Leave
    <2> QED
      BY <2>3 DEF Store!Next
  <1> QED
    BY <1>2, <1>3

LEMMA AskMaps ==
    ASSUME IInv, NEW t \in Tasks, NEW r \in Request, UNCHANGED row,
           \A u \in Tasks \ {t} : task'[u] = task[u],
           task[t].req = None, task[t].member \in Members,
           task'[t].pc = "connect", task'[t].req = r, task'[t].member = task[t].member
    PROVE  Store!Next
  <1>1. CallOf(t) = Store!NoCall /\ \A u \in Tasks \ {t} : CallOf(u)' = CallOf(u)
    BY OthersStay DEF CallOf, Store!NoCall
  <1>2. CallOf(t)' = [pc |-> "asked", member |-> task[t].member, req |-> r, got |-> None]
    BY NoneAssumption DEF CallOf, At
  <1>3. Store!Ask(t, task[t].member, r)
    BY <1>1, <1>2 DEF Store!Ask
  <1> QED
    BY <1>3, RequestForm DEF Store!Next

LEMMA EffectMaps ==
    ASSUME IInv, NEW t \in Tasks, NEW m \in Members,
           task[t].member = m, task[t].req \in Request, task[t].pc \in {"read", "write"},
           \A u \in Tasks \ {t} : task'[u] = task[u],
           task'[t].pc = "return", task'[t].req = task[t].req, task'[t].member = m,
           task[t].req = Get => task'[t].seen = row[m],
           \A n \in Members \ {m} : row'[n] = row[n],
           Content(row'[m]) = Store!Effect(Content(row[m]), task[t].req)
    PROVE  Store!Next
  <1>1. \A u \in Tasks \ {t} : CallOf(u)' = CallOf(u)
    BY OthersStay
  <1>2. CallOf(t) = [pc |-> "asked", member |-> m, req |-> task[t].req, got |-> None]
    BY NoneAssumption DEF CallOf, At
  <1>3. CallOf(t)' = [pc |-> "done", member |-> m, req |-> task[t].req,
                      got |-> IF task[t].req.op = "get" THEN Content(row[m]) ELSE None]
    <2>1. task[t].req.op = "get" <=> task[t].req = Get
      BY RequestForm
    <2> QED
      BY <2>1, NoneAssumption DEF CallOf, At
  <1>4. [n \in Members |-> Content(row'[n])]
           = [[n \in Members |-> Content(row[n])] EXCEPT
                 ![m] = Store!Effect(Content(row[m]), task[t].req)]
    OBVIOUS
  <1> DEFINE call == [u \in Tasks |-> CallOf(u)]
             cell == [n \in Members |-> Content(row[n])]
  <1>5. call[t] = CallOf(t) /\ cell[m] = Content(row[m])
    OBVIOUS
  <1>6. [u \in Tasks |-> CallOf(u)'] = [call EXCEPT ![t] = CallOf(t)']
    BY <1>1
  <1>7. call[t].pc = "asked" /\ call[t].member = m /\ call[t].req = task[t].req
    BY <1>2, <1>5
  <1>8. Store!TakeEffect(t)
    BY <1>3, <1>4, <1>5, <1>6, <1>7 DEF Store!TakeEffect
  <1> QED
    BY <1>8 DEF Store!Next

LEMMA StepMaps ==
    ASSUME IInv, NEW t \in Tasks, Step(t)
    PROVE  Store!Next \/ UNCHANGED Store!vars
  <1>1. /\ task[t] \in Task /\ task \in [Tasks -> Task]
        /\ row \in [Members -> Row \cup {None}]
    BY DEF IInv, TypeOK
  <1>2. task[t].req # None => task[t].req \in Request /\ task[t].member \in Members
    BY <1>1 DEF IInv, CallIsKnown, Task
  <1>3. CASE PoolTimeout(t) \/ InsertCollides(t) \/ Finish(t)
    <2>1. /\ UNCHANGED row /\ \A u \in Tasks \ {t} : task'[u] = task[u]
          /\ task'[t].req = None
      BY <1>1, <1>3 DEF PoolTimeout, InsertCollides, Finish, Idle
    <2> QED
      BY <2>1, LeaveMaps
  <1>4. CASE Return(t)
    <2>1. /\ UNCHANGED row /\ \A u \in Tasks \ {t} : task'[u] = task[u]
          /\ task'[t].req = None
      BY <1>1, <1>4 DEF Return, Task
    <2> QED
      BY <2>1, LeaveMaps
  <1>5. CASE Query(t)
    <2>1. /\ UNCHANGED row /\ \A u \in Tasks \ {t} : task'[u] = task[u]
          /\ task'[t].req = None
      BY <1>1, <1>5 DEF Query, Ready, At, Task, IInv, CallIsKnown
    <2> QED
      BY <2>1, LeaveMaps
  <1>6. ASSUME NEW r \in Request, NEW i \in Items \cup {None}, Call(t, r, i)
        PROVE  Store!Next
    <2>1. /\ UNCHANGED row /\ \A u \in Tasks \ {t} : task'[u] = task[u]
          /\ task[t].req = None /\ task[t].member \in Members
          /\ task'[t].pc = "connect" /\ task'[t].req = r /\ task'[t].member = task[t].member
      BY <1>1, <1>6 DEF Call, Ready, At, Task, IInv, CallIsKnown
    <2> QED
      BY <2>1, AskMaps
  <1>7. CASE MergeData(t)
    <2> DEFINE r == SetData(Content(task[t].seen).data \cup {task[t].merge})
    <2>1. r \in Request
      <3>1. Content(task[t].seen).data \cup {task[t].merge} \in SUBSET Items
        BY <1>1, <1>7, ContentForm DEF MergeData, Task, Row
      <3> QED
        BY <3>1 DEF Request
    <2>2. task' = [task EXCEPT ![t].pc = "connect", ![t].req = r, ![t].merge = None, ![t].seen = None]
      BY <1>7 DEF MergeData
    <2>3. /\ UNCHANGED row /\ task[t].req = None /\ task[t].member \in Members
      BY <1>7 DEF MergeData, At, IInv, CallIsKnown
    <2> HIDE DEF r
    <2>4. /\ \A u \in Tasks \ {t} : task'[u] = task[u]
          /\ task'[t].pc = "connect" /\ task'[t].req = r /\ task'[t].member = task[t].member
      BY <1>1, <2>2 DEF Task
    <2> QED
      BY <2>1, <2>3, <2>4, AskMaps
  <1>8. CASE Connect(t)
    <2>1. UNCHANGED row /\ \A u \in Tasks \ {t} : task'[u] = task[u]
      BY <1>1, <1>8 DEF Connect
    <2>2. /\ task'[t].req = task[t].req /\ task'[t].member = task[t].member
          /\ ~At(t, "return") /\ ~At(t, "return")'
      BY <1>1, <1>8 DEF Connect, At, Task
    <2>3. CallOf(t)' = CallOf(t)
      BY <2>2 DEF CallOf
    <2> QED
      BY <2>1, <2>3, OthersStay, Stutter
  <1>9. CASE ReadRow(t)
    <2> DEFINE m == task[t].member
    <2>1. /\ UNCHANGED row /\ \A u \in Tasks \ {t} : task'[u] = task[u]
          /\ task[t].pc = "read" /\ task[t].req # None
          /\ task'[t].req = task[t].req /\ task'[t].member = m /\ task'[t].seen = row[m]
          /\ task'[t].pc = IF Writes(row[m], task[t].req) THEN "write" ELSE "return"
      BY <1>1, <1>9 DEF ReadRow, At, Task, IInv, CallIsKnown
    <2>2. CASE Writes(row[m], task[t].req)
      <3>1. CallOf(t)' = CallOf(t)
        BY <2>1, <2>2 DEF CallOf, At
      <3> QED
        BY <2>1, <3>1, OthersStay, Stutter
    <2>3. CASE ~Writes(row[m], task[t].req)
      <3>1. Store!Effect(Content(row[m]), task[t].req) = Content(row[m])
        BY <1>1, <1>2, <2>1, <2>3, NothingToWrite
      <3> QED
        BY <1>2, <2>1, <2>3, <3>1, EffectMaps
    <2> QED
      BY <2>2, <2>3
  <1>10. CASE WriteRow(t)
    <2> DEFINE m == task[t].member
    <2>1. /\ \A u \in Tasks \ {t} : task'[u] = task[u]
          /\ task[t].pc = "write" /\ task[t].req # None /\ task[t].req.op # "get"
          /\ task'[t].req = task[t].req /\ task'[t].member = m /\ task'[t].pc = "return"
      BY <1>1, <1>10 DEF WriteRow, At, Task, IInv, CallIsKnown
    <2>2. /\ \A n \in Members \ {m} : row'[n] = row[n]
          /\ row'[m] = Written(Content(row[m]), task[t].req)
      BY <1>1, <1>2, <1>10, <2>1 DEF WriteRow
    <2>3. Content(row'[m]) = Store!Effect(Content(row[m]), task[t].req)
      BY <1>1, <1>2, <2>1, <2>2, ContentForm, WrittenForm
    <2>4. task[t].req # Get
      BY <2>1 DEF Get
    <2> QED
      BY <1>2, <2>1, <2>2, <2>3, <2>4, EffectMaps
  <1>11. /\ Get \in Request /\ SetData({}) \in Request
         /\ \A s \in States \cup {None} : SetState(s) \in Request
    BY DEF Request
  <1> QED
    BY <1>3, <1>4, <1>5, <1>6, <1>7, <1>8, <1>9, <1>10, <1>11 DEF Step

LEMMA StoreNext == IInv /\ [Next]_vars => [Store!Next]_(Store!vars)
  <1> SUFFICES ASSUME IInv, [Next]_vars
               PROVE  Store!Next \/ UNCHANGED Store!vars
    OBVIOUS
  <1>1. CASE UNCHANGED vars
    BY <1>1, Stutter DEF vars, CallOf, At
  <1>2. ASSUME NEW t \in Tasks, Fail(t) PROVE Store!Next \/ UNCHANGED Store!vars
    <2>1. /\ UNCHANGED row /\ \A u \in Tasks \ {t} : task'[u] = task[u]
          /\ task'[t].req = None
      BY <1>2 DEF Fail, Idle, IInv, TypeOK
    <2> QED
      BY <2>1, LeaveMaps
  <1>3. ASSUME NEW t \in Tasks, NEW m \in Members, Begin(t, m)
        PROVE  Store!Next \/ UNCHANGED Store!vars
    <2>1. /\ UNCHANGED row /\ \A u \in Tasks \ {t} : task'[u] = task[u]
          /\ task'[t].req = None
      BY <1>3 DEF Begin, Idle, IInv, TypeOK
    <2> QED
      BY <2>1, LeaveMaps
  <1> QED
    BY <1>1, <1>2, <1>3, StepMaps DEF Next

\* Calls of the FSM storage act like atomic ones: one moment, one column, or no effect.
THEOREM StorageImplementsStore == Spec => ImplementsStore
  <1>1. Init => Store!Init
    BY StoreInit
  <1>2. IInv /\ [Next]_vars => [Store!Next]_(Store!vars)
    BY StoreNext
  <1> QED
    BY <1>1, <1>2, Invariance, PTL DEF Spec, ImplementsStore, Store!Spec

=============================================================================
