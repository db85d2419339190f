------------------------------ MODULE FsmStore ------------------------------
(***************************************************************************)
(* What the handlers assume of the FSM storage: every chat member has one  *)
(* cell with a state and data, and a call takes effect on it at one moment *)
(* between its beginning and its end, and only on what it is about, or it  *)
(* never does.                                                             *)
(***************************************************************************)
CONSTANTS
    Tasks,    \* handlers, each of which makes one call at a time
    Members,  \* chat members, one StorageKey each
    States,   \* states of the flows
    Items,    \* entries of the data
    None      \* no state, no value

VARIABLES
    cell,  \* state and data of each member
    call   \* the call each handler is making

vars == <<cell, call>>

Cell == [state: States \cup {None}, data: SUBSET Items]
Empty == [state |-> None, data |-> {}]

\* get stands for get_state and get_data; state and data are what a set_ call writes.
Request == [op: {"set_state"}, state: States \cup {None}, data: {{}}]
    \cup   [op: {"set_data"}, state: {None}, data: SUBSET Items]
    \cup   [op: {"get"}, state: {None}, data: {{}}]

Effect(c, r) ==
    CASE r.op = "set_state" -> [c EXCEPT !.state = r.state]
      [] r.op = "set_data" -> [c EXCEPT !.data = r.data]
      [] r.op = "get" -> c

NoCall == [pc |-> "none", member |-> None, req |-> None, got |-> None]

Init ==
    /\ cell = [m \in Members |-> Empty]
    /\ call = [t \in Tasks |-> NoCall]

-----------------------------------------------------------------------------
Ask(t, m, r) ==
    /\ call[t] = NoCall
    /\ call' = [call EXCEPT ![t] = [pc |-> "asked", member |-> m, req |-> r, got |-> None]]
    /\ UNCHANGED cell

TakeEffect(t) ==
    LET m == call[t].member
        r == call[t].req
    IN
    /\ call[t].pc = "asked"
    /\ cell' = [cell EXCEPT ![m] = Effect(cell[m], r)]
    /\ call' = [call EXCEPT ![t] = [pc |-> "done", member |-> m, req |-> r,
                                    got |-> IF r.op = "get" THEN cell[m] ELSE None]]

\* The call returns, or its handler fails.
Leave(t) ==
    /\ call[t] # NoCall
    /\ call' = [call EXCEPT ![t] = NoCall]
    /\ UNCHANGED cell

Next ==
    \E t \in Tasks :
        \/ \E m \in Members, r \in Request : Ask(t, m, r)
        \/ TakeEffect(t)
        \/ Leave(t)

Spec == Init /\ [][Next]_vars

=============================================================================
