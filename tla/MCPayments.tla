----------------------------- MODULE MCPayments -----------------------------
(* Instances of Payments for TLC. *)
EXTENDS Payments, TLC

CONSTANTS t1, t2, a1, a2, k1, x1, x2

OnTicketOne == [p \in PaymentIds |-> k1]
AskedFor == [p \in PaymentIds |-> x1]

\* Bound: the user either has blocked the bot or has not, as long as a run lasts. A state that
\* awaits an answer without the number of its payment is left out too: the answer raises,
\* so that nothing comes of it that does not come of no state at all.
Bound ==
    /\ notified \cap unreachable = {}
    /\ \A a \in Admins :
          /\ adminFsm[a].state = "awaiting_reason" => adminFsm[a].cancel_payment_id # None
          /\ adminFsm[a].state = "editing_amount" => adminFsm[a].payment_id # None

Symmetric == Permutations(Tasks) \cup Permutations(Admins)
=============================================================================
