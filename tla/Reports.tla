------------------------------ MODULE Reports ------------------------------
(***************************************************************************)
(* Finance, statistics and combined reports, the export and the card of a  *)
(* user.  A report is a filter over payments and tickets: its numbers are  *)
(* functions of the rows that it counts, so a report is modelled by the    *)
(* sets of rows.  It computes its period first and then reads, one query   *)
(* after the other, while tickets are opened and payments are confirmed,   *)
(* cancelled and rejected: these are as in Payments, with one payment for  *)
(* each ticket, and their times are stamped before they are committed.     *)
(***************************************************************************)
EXTENDS Naturals, FiniteSets

CONSTANTS
    Tickets,    \* tickets, each with one payment
    Users,      \* users
    UserOf,     \* the user of each ticket
    Tasks,      \* report handlers, each run once
    DayLength,  \* moments of a day, the first of which is midnight
    Week,       \* days of a week
    Month,      \* days of a month
    MaxTime,    \* bound: the clock stops here
    MaxTimes,   \* bound: no payment is confirmed more often
    None        \* no time

ASSUME ReportsAssumption ==
    /\ UserOf \in [Tickets -> Users]
    /\ DayLength \in Nat \ {0} /\ Week \in Nat \ {0} /\ Month \in Nat \ {0} /\ MaxTime \in Nat
    /\ MaxTimes \in Nat
    /\ None \notin Nat

VARIABLES
    now,      \* the clock; day 0 is a Monday and the first of a month
    ticket,   \* created_at of each ticket, and when it was committed
    payment,  \* committed rows of payments
    stamp,    \* confirmed_at in a confirmation that is running
    times,    \* how often each payment was confirmed
    fsm,      \* the admin's HistoryLookup state and data
    report    \* the report handlers, with what they have counted

vars == <<now, ticket, payment, stamp, times, fsm, report>>

-----------------------------------------------------------------------------
Time == 0..MaxTime
Period == {"today", "week", "month", "all"}
Kinds == {"finance", "stats", "report"}

PaymentRow == [status: {"pending", "confirmed", "rejected", "cancelled"}, counted: BOOLEAN,
               confirmed_at: Time \cup {None}]

Fsm == [state: {"none", "awaiting_period_start", "awaiting_period_end"},
        report_kind: Kinds \cup {None}, period_start: Time \cup {None}]

EmptyFsm == [state |-> "none", report_kind |-> None, period_start |-> None]

\* lists: it counts tickets, too.
Report == [pc: {"idle", "tickets", "payments", "sent"}, lists: BOOLEAN,
           period: {"today", "longer", "custom", "none"}, start: Nat, end: Nat,
           tickets: SUBSET Tickets, payments: SUBSET Tickets]

TypeOK ==
    /\ now \in Time
    /\ ticket \in [Tickets -> [at: Time \cup {None}, committed: Time \cup {None}]]
    /\ payment \in [Tickets -> PaymentRow]
    /\ stamp \in [Tickets -> Time \cup {None}]
    /\ times \in [Tickets -> Nat]
    /\ fsm \in Fsm
    /\ report \in [Tasks -> Report]

Init ==
    /\ now = 0
    /\ ticket = [k \in Tickets |-> [at |-> None, committed |-> None]]
    /\ payment = [k \in Tickets |-> [status |-> "pending", counted |-> FALSE, confirmed_at |-> None]]
    /\ stamp = [k \in Tickets |-> None]
    /\ times = [k \in Tickets |-> 0]
    /\ fsm = EmptyFsm
    /\ report = [t \in Tasks |-> [pc |-> "idle", lists |-> FALSE, period |-> "none", start |-> 0,
                                  end |-> 0, tickets |-> {}, payments |-> {}]]

-----------------------------------------------------------------------------
(* Tickets and payments.                                                    *)

\* created_at is the time at which the transaction began.
CreateTicket(k) ==
    /\ ticket[k].at = None
    /\ ticket' = [ticket EXCEPT ![k].at = now]
    /\ UNCHANGED <<now, payment, stamp, times, fsm, report>>

CommitTicket(k) ==
    /\ ticket[k].at # None
    /\ ticket[k].committed = None
    /\ ticket' = [ticket EXCEPT ![k].committed = now]
    /\ UNCHANGED <<now, payment, stamp, times, fsm, report>>

\* The guard of confirm_payment may test a stale instance: any status is possible. The
\* user has paid in between, which takes more than a moment.
ConfirmPayment(k) ==
    /\ ticket[k].committed # None
    /\ ticket[k].committed < now
    /\ stamp[k] = None
    /\ times[k] < MaxTimes
    /\ stamp' = [stamp EXCEPT ![k] = now]
    /\ UNCHANGED <<now, ticket, payment, times, fsm, report>>

\* The handler of a confirmation commits or fails, seconds later.
EndConfirm(k) ==
    /\ stamp[k] # None
    /\ stamp' = [stamp EXCEPT ![k] = None]
    /\ \/ /\ payment' = [payment EXCEPT ![k] = [status |-> "confirmed", counted |-> TRUE,
                                                confirmed_at |-> stamp[k]]]
          /\ times' = [times EXCEPT ![k] = @ + 1]
       \/ UNCHANGED <<payment, times>>
    /\ UNCHANGED <<now, ticket, fsm, report>>

\* The row of a payment is locked from before the stamp to the commit: a cancellation or
\* a rejection comes before or after.
CancelConfirmedPayment(k) ==
    /\ stamp[k] = None
    /\ payment[k].status = "confirmed"
    /\ payment' = [payment EXCEPT ![k].status = "cancelled", ![k].counted = FALSE]
    /\ UNCHANGED <<now, ticket, stamp, times, fsm, report>>

\* A rejection does not look at what it rejects.
RejectReceipt(k) ==
    /\ stamp[k] = None
    /\ ticket[k].committed # None
    /\ payment' = [payment EXCEPT ![k].status = "rejected"]
    /\ UNCHANGED <<now, ticket, stamp, times, fsm, report>>

-----------------------------------------------------------------------------
(* Periods.                                                                 *)

Day(t) == t \div DayLength
Midnight(d) == d * DayLength

\* Mutant: a day, a week or a month back, to the moment.
PeriodStartRolling(p) ==
    LET back(n) == IF now < n THEN 0 ELSE now - n IN
    CASE p = "today" -> back(DayLength)
      [] p = "week" -> back(Midnight(Week))
      [] p = "month" -> back(Midnight(Month))
      [] p = "all" -> 0

\* Mutant: the week before.
PeriodStartLastWeek(p) ==
    CASE p = "today" -> Midnight(Day(now))
      [] p = "week" -> Midnight(Day(now) - Week)
      [] p = "month" -> Midnight(Day(now) - (Day(now) % Month))
      [] p = "all" -> 0

\* period_bounds; the end is now.
PeriodStart(p) ==
    CASE p = "today" -> Midnight(Day(now))
      [] p = "week" -> Midnight(Day(now) - (Day(now) % Week))
      [] p = "month" -> Midnight(Day(now) - (Day(now) % Month))
      [] p = "all" -> 0

\* Which queries a report makes, one after the other: of tickets, of payments.
Begun(t, lists, period, start, end) ==
    /\ report[t].pc = "idle"
    /\ report' = [report EXCEPT ![t] = [pc |-> IF lists THEN "tickets" ELSE "payments",
          lists |-> lists, period |-> period, start |-> start, end |-> end,
          tickets |-> {}, payments |-> {}]]
    /\ UNCHANGED <<now, ticket, payment, stamp, times>>

\* A command or a button with the name of a period.
Named(t, lists, p) ==
    /\ Begun(t, lists, IF p = "today" THEN "today" ELSE "longer", PeriodStart(p), now)
    /\ UNCHANGED fsm

FinanceReport(t, p) == Named(t, FALSE, p)
DoExport(t, p) == Named(t, FALSE, p)
TicketStats(t, p) == Named(t, TRUE, p)
CombinedReport(t, p) == Named(t, TRUE, p)

\* The button of a custom period. The FSM calls of a handler are one step here: where the
\* state lacks its data, as in Requisites, no report begins, or one of finances does.
AskPeriod(kind) ==
    /\ fsm' = [fsm EXCEPT !.state = "awaiting_period_start", !.report_kind = kind]
    /\ UNCHANGED <<now, ticket, payment, stamp, times, report>>

\* A date is its midnight, in the past or in the future.
PeriodStartInput(d) ==
    /\ fsm.state = "awaiting_period_start"
    /\ fsm' = [fsm EXCEPT !.state = "awaiting_period_end", !.period_start = Midnight(d)]
    /\ UNCHANGED <<now, ticket, payment, stamp, times, report>>

\* The end is the midnight with which the last day begins, though the report names that
\* day as its last.
PeriodEndInput(t, d) ==
    /\ fsm.state = "awaiting_period_end"
    /\ Begun(t, fsm.report_kind # "finance", "custom", fsm.period_start, Midnight(d))
    /\ fsm' = EmptyFsm

\* /cancel
CancelFlow ==
    /\ fsm' = EmptyFsm
    /\ UNCHANGED <<now, ticket, payment, stamp, times, report>>

-----------------------------------------------------------------------------
(* Queries.                                                                 *)

InPeriod(at, start, end) == start <= at /\ at <= end

Revenue == {k \in Tickets : payment[k].status = "confirmed" /\ payment[k].counted}

\* Mutant: the end of the period is left out.
PaymentsUnbounded(start, end) == {k \in Revenue : start <= payment[k].confirmed_at}

\* The payments of build_finance_report, build_ticket_stats and do_export.
PaymentsOf(start, end) == {k \in Revenue : InPeriod(payment[k].confirmed_at, start, end)}

\* Mutant: the card believes the flag alone.
CardFlagOnly(u) == {k \in Tickets : UserOf[k] = u /\ payment[k].counted}

\* /user: the payments of a user, without a period.
Card(u) == {k \in Revenue : UserOf[k] = u}

ReadTickets(t) ==
    /\ report[t].pc = "tickets"
    /\ report' = [report EXCEPT ![t].pc = "payments",
          ![t].tickets = {k \in Tickets : /\ ticket[k].committed # None
                              /\ InPeriod(ticket[k].at, report[t].start, report[t].end)}]
    /\ UNCHANGED <<now, ticket, payment, stamp, times, fsm>>

\* The last query that counts, and the report is sent: the statistics that a combined
\* report is made from have read payments too, but it does not show them.
ReadPayments(t) ==
    /\ report[t].pc = "payments"
    /\ report' = [report EXCEPT ![t].pc = "sent",
                                ![t].payments = PaymentsOf(report[t].start, report[t].end)]
    /\ UNCHANGED <<now, ticket, payment, stamp, times, fsm>>

Tick ==
    /\ now < MaxTime
    /\ now' = now + 1
    /\ UNCHANGED <<ticket, payment, stamp, times, fsm, report>>

Next ==
    \/ \E k \in Tickets :
        \/ CreateTicket(k) \/ CommitTicket(k)
        \/ ConfirmPayment(k) \/ EndConfirm(k) \/ CancelConfirmedPayment(k) \/ RejectReceipt(k)
    \/ \E kind \in Kinds : AskPeriod(kind)
    \/ \E d \in 0..Day(MaxTime) : PeriodStartInput(d)
    \/ CancelFlow
    \/ \E t \in Tasks :
        \/ \E p \in Period :
            FinanceReport(t, p) \/ DoExport(t, p) \/ TicketStats(t, p) \/ CombinedReport(t, p)
        \/ \E d \in 0..Day(MaxTime) : PeriodEndInput(t, d)
        \/ ReadTickets(t) \/ ReadPayments(t)
    \/ Tick

Spec == Init /\ [][Next]_vars

-----------------------------------------------------------------------------
(* Properties.                                                              *)

Sent == {t \in Tasks : report[t].pc = "sent"}

\* Statistics read tickets and payments in two queries, yet a payment they count has its
\* ticket among those they count, if it was opened in the period: the end of a named
\* period is taken before either query.
PaidTicketIsCounted ==
    \A t \in Sent : report[t].lists /\ report[t].period # "custom" =>
        \A k \in report[t].payments : ticket[k].at >= report[t].start => k \in report[t].tickets

\* One confirmation is counted in the reports of one day only: reports for today that
\* were taken on different days count a payment once for each time it was confirmed.
OneDayPerConfirmation ==
    \A k \in Tickets :
        LET counting == {t \in Sent : report[t].period = "today" /\ k \in report[t].payments} IN
        Cardinality({Day(report[t].end) : t \in counting}) <= times[k]

\* The cards of all users add up to the finance report of the whole period: both want
\* the status and the flag, and no confirmation lies in the future.
CardsMatchFinance ==
    UNION {Card(u) : u \in Users} = PaymentsOf(0, now)

=============================================================================
