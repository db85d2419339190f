------------------------ MODULE TicketNumbersProofs ------------------------
(***************************************************************************)
(* For any number of handlers and any bound, TicketNumbers implements      *)
(* Numbering.  The argument: between its SELECT (or INSERT) and its commit *)
(* a handler holds the one lock, so the counter it read is still the       *)
(* number of the last committed ticket when it commits the next one.       *)
(***************************************************************************)
EXTENDS TicketNumbers, TLAPS

\* The counter row and the tickets are committed together.
CounterIsLast ==
    counter = IF tickets = << >> THEN None ELSE Len(tickets)

\* A handler that has read the counter holds the lock and knows the last number.
HolderKnowsLast ==
    \A t \in Tasks :
        /\ pc[t] \in {"increment", "insert_ticket", "commit"} => lock = t
        /\ pc[t] = "increment" => value[t] = Len(tickets)
        /\ pc[t] \in {"insert_ticket", "commit"} => value[t] = Len(tickets) + 1

IInv == TypeOK /\ CounterIsLast /\ HolderKnowsLast

-----------------------------------------------------------------------------
LEMMA InitEstablishes == Init => IInv
  BY DEF Init, IInv, TypeOK, CounterIsLast, HolderKnowsLast, Pc

LEMMA NextKeeps == IInv /\ [Next]_vars => IInv'
  <1> SUFFICES ASSUME IInv, [Next]_vars PROVE IInv'
    OBVIOUS
  <1> USE NumbersAssumption DEF IInv, TypeOK, CounterIsLast, HolderKnowsLast, Pc
  <1>1. ASSUME NEW t \in Tasks, CreateTicket(t) PROVE IInv'
    BY <1>1 DEF CreateTicket
  <1>2. ASSUME NEW t \in Tasks, SelectCounter(t) PROVE IInv'
    BY <1>2 DEF SelectCounter
  <1>3. ASSUME NEW t \in Tasks, SelectNothing(t) PROVE IInv'
    BY <1>3 DEF SelectNothing
  <1>4. ASSUME NEW t \in Tasks, InsertCounter(t) PROVE IInv'
    BY <1>4 DEF InsertCounter
  <1>5. ASSUME NEW t \in Tasks, InsertCollides(t) PROVE IInv'
    BY <1>5 DEF InsertCollides
  <1>6. ASSUME NEW t \in Tasks, Increment(t) PROVE IInv'
    BY <1>6 DEF Increment
  <1>7. ASSUME NEW t \in Tasks, InsertTicket(t) PROVE IInv'
    BY <1>7 DEF InsertTicket
  <1>8. ASSUME NEW t \in Tasks, Commit(t) PROVE IInv'
    <2>1. /\ tickets' = Append(tickets, value[t]) /\ tickets' \in Seq(Nat)
          /\ tickets' # << >> /\ Len(tickets') = value[t] /\ counter' = value[t]
      BY <1>8 DEF Commit
    <2>2. \A u \in Tasks : pc'[u] \in {"increment", "insert_ticket", "commit"} => FALSE
      BY <1>8 DEF Commit
    <2> QED
      BY <1>8, <2>1, <2>2 DEF Commit
  <1>9. ASSUME NEW t \in Tasks, Abort(t) PROVE IInv'
    BY <1>9 DEF Abort
  <1>10. CASE UNCHANGED vars
    BY <1>10 DEF vars
  <1> QED
    BY <1>1, <1>2, <1>3, <1>4, <1>5, <1>6, <1>7, <1>8, <1>9, <1>10 DEF Next, Step

\* The counter row always holds the number of the last ticket, and a handler
\* between its read and its commit is alone.
THEOREM Invariance == Spec => []IInv
  <1>1. Init => IInv
    BY InitEstablishes
  <1>2. IInv /\ [Next]_vars => IInv'
    BY NextKeeps
  <1> QED
    BY <1>1, <1>2, PTL DEF Spec

\* Every step of the handlers issues the next number or changes no ticket.
LEMMA StepIssues ==
    ASSUME IInv, [Next]_vars
    PROVE  [Abstract!Issue]_tickets
  <1>1. ASSUME NEW t \in Tasks, Commit(t) PROVE Abstract!Issue
    BY <1>1 DEF IInv, HolderKnowsLast, Commit, Abstract!Issue
  <1> QED
    BY <1>1 DEF Next, Step, vars, CreateTicket, SelectCounter, SelectNothing,
       InsertCounter, InsertCollides, Increment, InsertTicket, Abort

\* create_ticket implements consecutive numbering: whatever calls overlap, fail or
\* are rolled back, the tickets that exist are numbered 1, 2, 3, ... in order.
THEOREM Implements == Spec => ImplementsNumbering
  <1>1. Init => Abstract!Init
    BY DEF Init, Abstract!Init
  <1>2. IInv /\ [Next]_vars => [Abstract!Issue]_tickets
    BY StepIssues
  <1> QED
    BY <1>1, <1>2, Invariance, PTL DEF Spec, ImplementsNumbering, Abstract!Spec

\* Every variable keeps its type.
THEOREM TypeCorrect == Spec => []TypeOK
  <1>1. IInv => TypeOK
    BY DEF IInv
  <1> QED
    BY <1>1, Invariance, PTL

-----------------------------------------------------------------------------
(* What consecutive numbering gives the readers of a ticket's number.       *)

Consecutive == tickets \in Seq(Nat) /\ \A i \in 1 .. Len(tickets) : tickets[i] = i

\* The i-th ticket has number i: no number is used twice or left out.
THEOREM NumbersAreConsecutive == Spec => []Consecutive
  <1>1. Init => Consecutive
    BY DEF Init, Consecutive
  <1>2. Consecutive /\ [Abstract!Issue]_tickets => Consecutive'
    BY DEF Consecutive, Abstract!Issue
  <1>3. IInv /\ [Next]_vars => [Abstract!Issue]_tickets
    BY StepIssues
  <1> QED
    BY <1>1, <1>2, <1>3, Invariance, PTL DEF Spec

=============================================================================
