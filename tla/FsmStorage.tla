----------------------------- MODULE FsmStorage -----------------------------
(***************************************************************************)
(* PostgresStorage and the connection pool.  Every call of the FSM storage *)
(* is a transaction of its own, on a connection of its own: it reads the   *)
(* row of a chat member and, in a second statement, inserts it or writes   *)
(* the one column it is about.  Meanwhile the handler may hold another     *)
(* connection, that of its session, and handlers of one member overlap.    *)
(***************************************************************************)
EXTENDS Naturals, FiniteSets

CONSTANTS
    Tasks,     \* handlers that may run at the same time
    Members,   \* chat members, one StorageKey each
    States,    \* states of the flows
    Items,     \* entries of the data
    PoolSize,  \* pool_size + max_overflow
    MaxCalls,  \* bound: calls a handler makes (update_data counts as one)
    None       \* no row, no state, no value

ASSUME StorageAssumption ==
    /\ PoolSize \in Nat
    /\ MaxCalls \in Nat
    /\ None \notin Members \cup States \cup Items

VARIABLES
    row,   \* committed rows of fsm_storage, None before there is one
    task   \* the handlers, each with the call it is making

vars == <<row, task>>

-----------------------------------------------------------------------------
Row == [state: States \cup {None}, data: SUBSET Items]

\* A row inserted by one column has the other empty; no row reads like an empty one.
Empty == [state |-> None, data |-> {}]
Content(r) == IF r = None THEN Empty ELSE r

Get == [op |-> "get", state |-> None, data |-> {}]
SetState(s) == [op |-> "set_state", state |-> s, data |-> {}]
SetData(d) == [op |-> "set_data", state |-> None, data |-> d]

Request == {Get} \cup {SetState(s) : s \in States \cup {None}} \cup {SetData(d) : d \in SUBSET Items}

ASSUME NoneAssumption == None \notin Row /\ None \notin Request

\* own: the handler's session holds a connection; merge: the item that update_data adds;
\* seen: the instance a call has loaded.
Task == [pc: {"idle", "ready", "query", "connect", "read", "write", "return"},
         member: Members \cup {None}, own: BOOLEAN, left: 0..MaxCalls,
         req: Request \cup {None}, merge: Items \cup {None}, seen: Row \cup {None}]

Idle == [pc |-> "idle", member |-> None, own |-> FALSE, left |-> 0,
         req |-> None, merge |-> None, seen |-> None]

TypeOK ==
    /\ row \in [Members -> Row \cup {None}]
    /\ task \in [Tasks -> Task]

Init ==
    /\ row = [m \in Members |-> None]
    /\ task = [t \in Tasks |-> Idle]

At(t, pc) == task[t].pc = pc

\* Connections that are taken: by sessions of handlers and by calls.
InUse == Cardinality({t \in Tasks : task[t].own})
       + Cardinality({t \in Tasks : task[t].pc \in {"read", "write", "return"}})

-----------------------------------------------------------------------------
\* An update comes in; the session has no connection before its first query.
Begin(t, m) ==
    /\ At(t, "idle")
    /\ task' = [task EXCEPT ![t] = [Idle EXCEPT !.pc = "ready", !.member = m, !.left = MaxCalls]]
    /\ UNCHANGED row

Ready(t) == At(t, "ready") /\ task[t].merge = None

Query(t) ==
    /\ Ready(t)
    /\ ~task[t].own
    /\ task' = [task EXCEPT ![t].pc = "query"]
    /\ UNCHANGED row

\* The handler calls the storage. The data is only ever cleared as a whole or updated,
\* and update_data is get_data followed by set_data.
Call(t, r, i) ==
    /\ Ready(t)
    /\ task[t].left > 0
    /\ task' = [task EXCEPT ![t].pc = "connect", ![t].left = @ - 1, ![t].req = r, ![t].merge = i]
    /\ UNCHANGED row

MergeData(t) ==
    /\ At(t, "ready")
    /\ task[t].merge # None
    /\ LET data == Content(task[t].seen).data IN
       task' = [task EXCEPT ![t].pc = "connect", ![t].req = SetData(data \cup {task[t].merge}),
                            ![t].merge = None, ![t].seen = None]
    /\ UNCHANGED row

Connect(t) ==
    /\ InUse < PoolSize
    /\ \/ At(t, "query") /\ task' = [task EXCEPT ![t].pc = "ready", ![t].own = TRUE]
       \/ At(t, "connect") /\ task' = [task EXCEPT ![t].pc = "read"]
    /\ UNCHANGED row

\* Mutant: without pool_timeout a handler waits for as long as it takes.
PoolNeverTimesOut(t) == FALSE

\* pool_timeout: no connection in time, the handler raises and gives back its own.
PoolTimeout(t) ==
    /\ InUse >= PoolSize
    /\ task[t].pc \in {"query", "connect"}
    /\ task' = [task EXCEPT ![t] = Idle]
    /\ UNCHANGED row

\* set_state(None) needs no row; a column that has its value already is not written.
Writes(r, req) ==
    CASE req.op = "get" -> FALSE
      [] req.op = "set_state" -> Content(r).state # req.state
      [] req.op = "set_data" -> r = None \/ r.data # req.data

ReadRow(t) ==
    /\ At(t, "read")
    /\ LET r == row[task[t].member] IN
       task' = [task EXCEPT ![t].seen = r,
                            ![t].pc = IF Writes(r, task[t].req) THEN "write" ELSE "return"]
    /\ UNCHANGED row

\* What the call makes of a row.
Written(r, req) ==
    IF req.op = "set_state" THEN [r EXCEPT !.state = req.state] ELSE [r EXCEPT !.data = req.data]

\* Mutant: the instance is written back with all its columns.
WriteWholeRow(t) ==
    /\ At(t, "write")
    /\ row' = [row EXCEPT ![task[t].member] = Written(Content(task[t].seen), task[t].req)]
    /\ task' = [task EXCEPT ![t].pc = "return"]

\* INSERT if the row was not there, else an UPDATE of the changed column; and the commit.
WriteRow(t) ==
    LET m == task[t].member IN
    /\ At(t, "write")
    /\ task[t].seen = None => row[m] = None
    /\ row' = [row EXCEPT ![m] = Written(Content(@), task[t].req)]
    /\ task' = [task EXCEPT ![t].pc = "return"]

\* Another call has inserted the row since it was looked for: IntegrityError.
InsertCollides(t) ==
    /\ At(t, "write")
    /\ task[t].seen = None
    /\ row[task[t].member] # None
    /\ task' = [task EXCEPT ![t] = Idle]
    /\ UNCHANGED row

\* Mutant: the result of a call is taken for the next request.
ReturnKeepsSeen(t) ==
    /\ At(t, "return")
    /\ task' = [task EXCEPT ![t].pc = "ready", ![t].req = task[t].seen]
    /\ UNCHANGED row

Return(t) ==
    /\ At(t, "return")
    /\ task' = [task EXCEPT ![t].pc = "ready", ![t].req = None,
                            ![t].seen = IF task[t].merge = None THEN None ELSE @]
    /\ UNCHANGED row

Finish(t) ==
    /\ Ready(t)
    /\ task' = [task EXCEPT ![t] = Idle]
    /\ UNCHANGED row

\* Any await may raise, and a restart ends all handlers; committed rows stay.
Fail(t) ==
    /\ ~At(t, "idle")
    /\ task' = [task EXCEPT ![t] = Idle]
    /\ UNCHANGED row

Step(t) ==
    \/ Query(t)
    \/ \E s \in States \cup {None} : Call(t, SetState(s), None)
    \/ Call(t, SetData({}), None)
    \/ \E i \in Items \cup {None} : Call(t, Get, i)
    \/ MergeData(t) \/ Connect(t) \/ PoolTimeout(t)
    \/ ReadRow(t) \/ WriteRow(t) \/ InsertCollides(t) \/ Return(t) \/ Finish(t)

Next == \E t \in Tasks : Step(t) \/ Fail(t) \/ \E m \in Members : Begin(t, m)

Spec == Init /\ [][Next]_vars

\* The event loop goes on with a handler that can go on.
FairSpec == Spec /\ \A t \in Tasks : WF_vars(Step(t))

-----------------------------------------------------------------------------
(* Properties.                                                              *)

\* The call of a handler, as FsmStore sees it.
CallOf(t) ==
    IF task[t].req = None
    THEN [pc |-> "none", member |-> None, req |-> None, got |-> None]
    ELSE [pc |-> IF At(t, "return") THEN "done" ELSE "asked",
          member |-> task[t].member, req |-> task[t].req,
          got |-> IF At(t, "return") /\ task[t].req = Get THEN Content(task[t].seen) ELSE None]

\* What every other handler takes for granted: a call of the storage is atomic, touches
\* only its column, and has no effect if it collides; reads see committed cells.
Store == INSTANCE FsmStore WITH
    cell <- [m \in Members |-> Content(row[m])],
    call <- [t \in Tasks |-> CallOf(t)]

ImplementsStore == Store!Spec

\* Handlers that hold a connection and wait for another do not wait for ever, not even
\* when all connections are held by handlers that wait.
HandlersEnd == \A t \in Tasks : ~At(t, "idle") ~> At(t, "idle")

=============================================================================
