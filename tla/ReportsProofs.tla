---------------------------- MODULE ReportsProofs ----------------------------
(***************************************************************************)
(* Theorems about Reports, for any number of tickets, users and reports    *)
(* and for days, weeks and months of any length.                           *)
(*                                                                         *)
(* Two orders carry them.  Of times: a ticket is opened, then committed,   *)
(* then its payment is confirmed, and nothing lies in the future.  Of      *)
(* queries: the end of a named period is fixed before the tickets are      *)
(* read, and they are read before the payments.                            *)
(***************************************************************************)
EXTENDS Reports, FiniteSetTheorems, TLAPS

\* A ticket is opened before it is committed, and its payment is confirmed after that.
TimesAreOrdered(k) ==
    /\ ticket[k].at # None => ticket[k].at <= now
    /\ ticket[k].committed # None =>
          ticket[k].at # None /\ ticket[k].at <= ticket[k].committed /\ ticket[k].committed <= now
    /\ \A m \in {stamp[k], payment[k].confirmed_at} \ {None} :
          ticket[k].committed # None /\ ticket[k].committed < m /\ m <= now
    /\ payment[k].status = "confirmed" => payment[k].confirmed_at # None

\* What a report knows of its period.
PeriodIsKnown(t) ==
    /\ report[t].pc # "idle" /\ report[t].period # "custom" => report[t].end <= now
    /\ report[t].period = "today" => report[t].start = Midnight(Day(report[t].end))

\* Whatever was committed before the end of a named period is among the tickets it has read.
TicketsAreRead(t) ==
    report[t].lists /\ report[t].period # "custom" /\ report[t].pc \in {"payments", "sent"} =>
        \A k \in Tickets :
            ticket[k].committed # None /\ report[t].start <= ticket[k].at
            /\ ticket[k].committed < report[t].end => k \in report[t].tickets

\* A payment that is counted belongs to a ticket that was committed before the end.
PaymentsAreOld(t) ==
    \A k \in report[t].payments : ticket[k].committed # None /\ ticket[k].committed < report[t].end

\* The days whose reports count the payment.
DaysOf(k) ==
    {Day(report[t].end) :
        t \in {t \in Sent : report[t].period = "today" /\ k \in report[t].payments}}

\* Each confirmation is good for one day: also the one that no report has counted yet.
DaysAreConfirmed(k) ==
    /\ IsFiniteSet(DaysOf(k))
    /\ Cardinality(DaysOf(k)) <= times[k]
    /\ k \in Revenue =>
          Cardinality(DaysOf(k) \cup {Day(payment[k].confirmed_at)}) <= times[k]

Flow == fsm.state = "awaiting_period_end" => fsm.period_start # None

IInv ==
    /\ TypeOK
    /\ Flow
    /\ \A k \in Tickets : TimesAreOrdered(k) /\ DaysAreConfirmed(k)
    /\ \A t \in Tasks : PeriodIsKnown(t) /\ TicketsAreRead(t) /\ PaymentsAreOld(t)

-----------------------------------------------------------------------------
(* Days.                                                                    *)

LEMMA Constants ==
    DayLength \in Nat \ {0} /\ Week \in Nat \ {0} /\ Month \in Nat \ {0} /\ MaxTime \in Nat /\ None \notin Nat
  BY ReportsAssumption

\* Midnights and days correspond to each other in order.
LEMMA MidnightBefore ==
    ASSUME NEW a \in Nat, NEW d \in Nat
    PROVE  Midnight(d) <= a <=> d <= Day(a)
  <1>1. ASSUME NEW L \in Nat \ {0} PROVE d * L <= a <=> d <= a \div L
    OBVIOUS
  <1> QED
    BY <1>1, Constants DEF Midnight, Day

LEMMA DayType ==
    ASSUME NEW a \in Nat
    PROVE  Day(a) \in Nat
  <1>1. ASSUME NEW L \in Nat \ {0} PROVE a \div L \in Nat
    OBVIOUS
  <1> QED
    BY <1>1, Constants DEF Day

LEMMA MidnightFacts ==
    ASSUME NEW d \in Nat
    PROVE  /\ Midnight(d) \in Nat
           /\ Day(Midnight(d)) = d
  <1>1. ASSUME NEW L \in Nat \ {0} PROVE d * L \in Nat /\ (d * L) \div L = d
    OBVIOUS
  <1> QED
    BY <1>1, Constants DEF Midnight, Day

\* What lies between the last midnight before a moment and that moment is on its day.
LEMMA SameDay ==
    ASSUME NEW a \in Nat, NEW b \in Nat, Midnight(Day(b)) <= a, a <= b
    PROVE  Day(a) = Day(b)
  <1>1. Day(a) \in Nat /\ Day(b) \in Nat
    BY DayType
  <1>2. Day(b) <= Day(a)
    BY <1>1, MidnightBefore
  <1>3. Midnight(Day(a)) <= a /\ Midnight(Day(a)) \in Nat
    BY <1>1, MidnightBefore, MidnightFacts
  <1>4. Midnight(Day(a)) <= b
    BY <1>3
  <1>5. Day(a) <= Day(b)
    BY <1>1, <1>4, MidnightBefore
  <1> QED
    BY <1>1, <1>2, <1>5

\* A named period begins at a midnight, "today" at the last one.
LEMMA StartType ==
    ASSUME NEW p \in Period, now \in Nat
    PROVE  PeriodStart(p) \in Nat /\ (p = "today" => PeriodStart(p) = Midnight(Day(now)))
  <1>1. ASSUME NEW a \in Nat, NEW L \in Nat \ {0} PROVE a - (a % L) \in Nat
    <2>1. a % L \in Nat /\ a % L <= a
      OBVIOUS
    <2> QED
      BY <2>1
  <1>2. Day(now) - (Day(now) % Week) \in Nat /\ Day(now) - (Day(now) % Month) \in Nat /\ Day(now) \in Nat
    BY <1>1, DayType, Constants
  <1>3. /\ Midnight(Day(now)) \in Nat
        /\ Midnight(Day(now) - (Day(now) % Week)) \in Nat
        /\ Midnight(Day(now) - (Day(now) % Month)) \in Nat
    BY <1>2, MidnightFacts
  <1> QED
    BY <1>3 DEF PeriodStart, Period

-----------------------------------------------------------------------------
(* The invariant, at first and in steps that leave part of it alone.        *)

LEMMA TypeFacts ==
    ASSUME IInv
    PROVE  /\ now \in Nat
           /\ \A k \in Tickets : /\ times[k] \in Nat
                                 /\ ticket[k].at \in Nat \cup {None} /\ ticket[k].committed \in Nat \cup {None}
                                 /\ stamp[k] \in Nat \cup {None}
                                 /\ payment[k].confirmed_at \in Nat \cup {None}
           /\ \A t \in Tasks : report[t].start \in Nat /\ report[t].end \in Nat
  BY Constants DEF IInv, TypeOK, Time, PaymentRow, Report

LEMMA InitInv == Init => IInv
  <1> SUFFICES ASSUME Init PROVE IInv
    OBVIOUS
  <1>1. TypeOK
    BY Constants DEF Init, TypeOK, Time, PaymentRow, Fsm, EmptyFsm, Report
  <1>2. Flow
    BY DEF Init, Flow, EmptyFsm
  <1>3. ASSUME NEW k \in Tickets PROVE TimesAreOrdered(k)
    BY <1>3 DEF Init, TimesAreOrdered
  <1>4. ASSUME NEW k \in Tickets PROVE DaysAreConfirmed(k)
    <2>1. DaysOf(k) = {}
      BY DEF Init, DaysOf, Sent
    <2>2. k \notin Revenue /\ times[k] = 0
      BY DEF Init, Revenue
    <2> QED
      BY <2>1, <2>2, FS_EmptySet DEF DaysAreConfirmed
  <1>5. ASSUME NEW t \in Tasks PROVE PeriodIsKnown(t) /\ TicketsAreRead(t) /\ PaymentsAreOld(t)
    BY <1>5 DEF Init, PeriodIsKnown, TicketsAreRead, PaymentsAreOld
  <1> QED
    BY <1>1, <1>2, <1>3, <1>4, <1>5 DEF IInv

\* Reports that do not move keep what they know: a ticket that is committed later does not
\* belong to a period that has ended.
LEMMA ReportsStay ==
    ASSUME IInv, UNCHANGED report, now' \in Nat, now <= now',
           \A k \in Tickets : ticket[k].committed # None => ticket'[k] = ticket[k],
           \A k \in Tickets : ticket'[k].committed \in {ticket[k].committed, now}
    PROVE  \A t \in Tasks : PeriodIsKnown(t)' /\ TicketsAreRead(t)' /\ PaymentsAreOld(t)'
  <1> SUFFICES ASSUME NEW t \in Tasks
               PROVE  PeriodIsKnown(t)' /\ TicketsAreRead(t)' /\ PaymentsAreOld(t)'
    OBVIOUS
  <1>1. PeriodIsKnown(t) /\ TicketsAreRead(t) /\ PaymentsAreOld(t) /\ now \in Nat /\ report[t].end \in Nat
    BY TypeFacts DEF IInv
  <1>2. PeriodIsKnown(t)'
    BY <1>1 DEF PeriodIsKnown
  <1>3. TicketsAreRead(t)'
    <2> SUFFICES ASSUME report[t].lists, report[t].period # "custom", report[t].pc \in {"payments", "sent"},
                        NEW k \in Tickets, ticket'[k].committed # None, report[t].start <= ticket'[k].at,
                        ticket'[k].committed < report[t].end
                 PROVE  k \in report[t].tickets
      BY DEF TicketsAreRead
    <2>1. report[t].end <= now
      BY <1>1 DEF PeriodIsKnown
    <2>2. ticket[k].committed # None
      BY <1>1, <2>1
    <2> QED
      BY <1>1, <2>2 DEF TicketsAreRead
  <1>4. PaymentsAreOld(t)'
    <2>1. report[t].payments \subseteq Tickets
      BY DEF IInv, TypeOK, Report
    <2> QED
      BY <1>1, <2>1 DEF PaymentsAreOld
  <1> QED
    BY <1>2, <1>3, <1>4

\* The days of a payment stay confirmed while its reports stay, unless it is confirmed anew.
LEMMA DaysStay ==
    ASSUME IInv, NEW k \in Tickets, DaysOf(k)' = DaysOf(k), times'[k] = times[k],
           k \in Revenue' => k \in Revenue /\ payment'[k].confirmed_at = payment[k].confirmed_at
    PROVE  DaysAreConfirmed(k)'
  BY DEF IInv, DaysAreConfirmed

LEMMA SameReportsSameDays ==
    ASSUME UNCHANGED report
    PROVE  \A k \in Tickets : DaysOf(k)' = DaysOf(k)
  BY DEF DaysOf, Sent

-----------------------------------------------------------------------------
(* Steps of tickets and payments.                                           *)

\* A step of one ticket, which leaves the clock, the flow and the reports alone.
LEMMA TicketStepKeeps ==
    ASSUME IInv, NEW k \in Tickets, UNCHANGED <<now, fsm, report>>,
           \A j \in Tickets \ {k} : /\ ticket'[j] = ticket[j] /\ payment'[j] = payment[j]
                                    /\ stamp'[j] = stamp[j] /\ times'[j] = times[j],
           TypeOK', TimesAreOrdered(k)', DaysAreConfirmed(k)',
           ticket[k].committed # None => ticket'[k] = ticket[k],
           ticket'[k].committed \in {ticket[k].committed, now}
    PROVE  IInv'
  <1>1. ASSUME NEW j \in Tickets \ {k} PROVE TimesAreOrdered(j)'
    BY DEF IInv, TimesAreOrdered
  <1>2. ASSUME NEW j \in Tickets \ {k} PROVE DaysAreConfirmed(j)'
    <2>1. j \in Revenue' => j \in Revenue /\ payment'[j].confirmed_at = payment[j].confirmed_at
      BY DEF Revenue
    <2> QED
      BY <2>1, SameReportsSameDays, DaysStay
  <1>3. \A t \in Tasks : PeriodIsKnown(t)' /\ TicketsAreRead(t)' /\ PaymentsAreOld(t)'
    BY TypeFacts, ReportsStay
  <1> QED
    BY <1>1, <1>2, <1>3 DEF IInv, Flow

LEMMA SameRevenueKeeps ==
    ASSUME IInv, NEW k \in Tickets, UNCHANGED <<report, payment, times>>
    PROVE  DaysAreConfirmed(k)'
  <1>1. k \in Revenue' => k \in Revenue /\ payment'[k].confirmed_at = payment[k].confirmed_at
    BY DEF Revenue
  <1> QED
    BY <1>1, SameReportsSameDays, DaysStay

LEMMA CreateTicketKeeps ==
    ASSUME IInv, NEW k \in Tickets, CreateTicket(k)
    PROVE  IInv'
  <1>1. ticket' = [ticket EXCEPT ![k].at = now] /\ ticket[k].at = None /\ now \in Time
    BY DEF CreateTicket, IInv, TypeOK
  <1>2. TimesAreOrdered(k) /\ ticket[k].committed = None
    BY <1>1 DEF IInv, TimesAreOrdered
  <1>3. TypeOK'
    BY <1>1 DEF CreateTicket, IInv, TypeOK
  <1>4. ticket'[k].at = now /\ ticket'[k].committed = None
    BY <1>1, <1>2 DEF IInv, TypeOK
  <1>5. TimesAreOrdered(k)'
    BY <1>2, <1>4, TypeFacts DEF CreateTicket, TimesAreOrdered
  <1>6. DaysAreConfirmed(k)'
    BY SameRevenueKeeps DEF CreateTicket
  <1> QED
    BY <1>2, <1>3, <1>4, <1>5, <1>6, TicketStepKeeps DEF CreateTicket

LEMMA CommitTicketKeeps ==
    ASSUME IInv, NEW k \in Tickets, CommitTicket(k)
    PROVE  IInv'
  <1>1. /\ ticket' = [ticket EXCEPT ![k].committed = now] /\ now \in Time /\ now \in Nat
        /\ ticket[k].at # None /\ ticket[k].committed = None
    BY TypeFacts DEF CommitTicket, IInv, TypeOK
  <1>2. TimesAreOrdered(k)
    BY DEF IInv
  <1>3. TypeOK'
    BY <1>1 DEF CommitTicket, IInv, TypeOK
  <1>4. ticket'[k].at = ticket[k].at /\ ticket'[k].committed = now
    BY <1>1 DEF IInv, TypeOK
  <1>5. TimesAreOrdered(k)'
    BY <1>1, <1>2, <1>4 DEF CommitTicket, TimesAreOrdered
  <1>6. DaysAreConfirmed(k)'
    BY SameRevenueKeeps DEF CommitTicket
  <1> QED
    BY <1>1, <1>3, <1>4, <1>5, <1>6, TicketStepKeeps DEF CommitTicket

LEMMA ConfirmPaymentKeeps ==
    ASSUME IInv, NEW k \in Tickets, ConfirmPayment(k)
    PROVE  IInv'
  <1>1. /\ stamp' = [stamp EXCEPT ![k] = now] /\ now \in Time /\ now \in Nat /\ now # None
        /\ ticket[k].committed # None /\ ticket[k].committed < now
    BY TypeFacts, Constants DEF ConfirmPayment, IInv, TypeOK
  <1>2. TypeOK' /\ stamp'[k] = now
    BY <1>1 DEF ConfirmPayment, IInv, TypeOK
  <1>3. TimesAreOrdered(k)'
    BY <1>1, <1>2 DEF ConfirmPayment, IInv, TimesAreOrdered
  <1>4. DaysAreConfirmed(k)'
    BY SameRevenueKeeps DEF ConfirmPayment
  <1> QED
    BY <1>1, <1>2, <1>3, <1>4, TicketStepKeeps DEF ConfirmPayment, IInv, TypeOK

\* A confirmation that commits adds one to the days, at most, and one to the times.
LEMMA EndConfirmKeeps ==
    ASSUME IInv, NEW k \in Tickets, EndConfirm(k)
    PROVE  IInv'
  <1>1. /\ stamp' = [stamp EXCEPT ![k] = None] /\ stamp[k] # None /\ stamp[k] \in Time
        /\ UNCHANGED <<now, ticket, fsm, report>> /\ TimesAreOrdered(k) /\ stamp'[k] = None
    BY DEF EndConfirm, IInv, TypeOK
  <1> DEFINE row == [status |-> "confirmed", counted |-> TRUE, confirmed_at |-> stamp[k]]
  <1>2. CASE payment' = [payment EXCEPT ![k] = row] /\ times' = [times EXCEPT ![k] = @ + 1]
    <2>1. row \in PaymentRow
      BY <1>1 DEF PaymentRow
    <2>2. payment'[k] = row /\ times'[k] = times[k] + 1 /\ times[k] \in Nat
      BY <1>2, TypeFacts DEF IInv, TypeOK
    <2>3. TypeOK'
      BY <1>1, <1>2, <2>1 DEF IInv, TypeOK
    <2>4. TimesAreOrdered(k)'
      BY <1>1, <2>2 DEF TimesAreOrdered
    <2>5. DaysAreConfirmed(k)'
      <3>1. DaysOf(k)' = DaysOf(k)
        BY <1>1, SameReportsSameDays
      <3>2. IsFiniteSet(DaysOf(k)) /\ Cardinality(DaysOf(k)) <= times[k] /\ Cardinality(DaysOf(k)) \in Nat
        BY FS_CardinalityType DEF IInv, DaysAreConfirmed
      <3>3. Cardinality(DaysOf(k) \cup {Day(stamp[k])}) \in {Cardinality(DaysOf(k)), Cardinality(DaysOf(k)) + 1}
        BY <3>2, FS_AddElement
      <3> QED
        BY <2>2, <3>1, <3>2, <3>3 DEF DaysAreConfirmed
    <2> QED
      BY <1>1, <1>2, <2>3, <2>4, <2>5, TicketStepKeeps DEF IInv, TypeOK
  <1>3. CASE UNCHANGED <<payment, times>>
    <2>1. TypeOK'
      BY <1>1, <1>3 DEF IInv, TypeOK
    <2>2. TimesAreOrdered(k)'
      BY <1>1, <1>3 DEF TimesAreOrdered
    <2>3. DaysAreConfirmed(k)'
      BY <1>1, <1>3, SameRevenueKeeps
    <2> QED
      BY <1>1, <1>3, <2>1, <2>2, <2>3, TicketStepKeeps DEF IInv, TypeOK
  <1> QED
    BY <1>2, <1>3 DEF EndConfirm

\* A payment that is cancelled or rejected is none of the revenue.
LEMMA TakenBackKeeps ==
    ASSUME IInv, NEW k \in Tickets, CancelConfirmedPayment(k) \/ RejectReceipt(k)
    PROVE  IInv'
  <1>1. UNCHANGED <<now, ticket, stamp, times, fsm, report>>
    BY DEF CancelConfirmedPayment, RejectReceipt
  <1>2. \E row \in PaymentRow : /\ payment' = [payment EXCEPT ![k] = row]
                                /\ row.status # "confirmed" /\ row.confirmed_at = payment[k].confirmed_at
    <2>1. CASE CancelConfirmedPayment(k)
      <3> DEFINE row == [payment[k] EXCEPT !.status = "cancelled", !.counted = FALSE]
      <3>1. row \in PaymentRow /\ row.status # "confirmed" /\ row.confirmed_at = payment[k].confirmed_at
        BY DEF IInv, TypeOK, PaymentRow
      <3>2. payment' = [payment EXCEPT ![k] = row]
        BY <2>1 DEF CancelConfirmedPayment
      <3> QED
        BY <3>1, <3>2
    <2>2. CASE RejectReceipt(k)
      <3> DEFINE row == [payment[k] EXCEPT !.status = "rejected"]
      <3>1. row \in PaymentRow /\ row.status # "confirmed" /\ row.confirmed_at = payment[k].confirmed_at
        BY DEF IInv, TypeOK, PaymentRow
      <3>2. payment' = [payment EXCEPT ![k] = row]
        BY <2>2 DEF RejectReceipt
      <3> QED
        BY <3>1, <3>2
    <2> QED
      BY <2>1, <2>2
  <1>3. /\ payment'[k].status # "confirmed" /\ payment'[k].confirmed_at = payment[k].confirmed_at
        /\ payment' \in [Tickets -> PaymentRow]
        /\ \A j \in Tickets \ {k} : payment'[j] = payment[j]
    BY <1>2 DEF IInv, TypeOK
  <1>4. TypeOK'
    BY <1>1, <1>3 DEF IInv, TypeOK
  <1>5. TimesAreOrdered(k)'
    BY <1>1, <1>3 DEF IInv, TimesAreOrdered
  <1>6. k \notin Revenue'
    BY <1>3 DEF Revenue
  <1>7. DaysAreConfirmed(k)'
    BY <1>1, <1>6, SameReportsSameDays, DaysStay
  <1> QED
    BY <1>1, <1>3, <1>4, <1>5, <1>7, TicketStepKeeps

-----------------------------------------------------------------------------
(* Steps of the flow and of reports.                                        *)

\* A step that only moves reports or the flow, and counts nothing.
LEMMA ReportStepKeeps ==
    ASSUME IInv, UNCHANGED <<now, ticket, payment, stamp, times>>, TypeOK', Flow',
           \A t \in Tasks : PeriodIsKnown(t)' /\ TicketsAreRead(t)' /\ PaymentsAreOld(t)',
           \A k \in Tickets : DaysOf(k)' = DaysOf(k)
    PROVE  IInv'
  <1>1. \A k \in Tickets : TimesAreOrdered(k)'
    BY DEF IInv, TimesAreOrdered
  <1>2. \A k \in Tickets : DaysAreConfirmed(k)'
    <2>1. \A k \in Tickets : k \in Revenue' => k \in Revenue /\ payment'[k].confirmed_at = payment[k].confirmed_at
      BY DEF Revenue
    <2> QED
      BY <2>1, DaysStay
  <1> QED
    BY <1>1, <1>2 DEF IInv

LEMMA DateFacts ==
    ASSUME NEW d \in 0..Day(MaxTime)
    PROVE  d \in Nat /\ Midnight(d) \in Time /\ Midnight(d) \in Nat /\ Midnight(d) # None
  <1>1. d \in Nat /\ d <= Day(MaxTime)
    BY Constants, DayType
  <1>2. Midnight(d) <= MaxTime /\ Midnight(d) \in Nat
    BY <1>1, Constants, MidnightBefore, MidnightFacts
  <1> QED
    BY <1>1, <1>2, Constants, MidnightFacts DEF Time

LEMMA FlowStepKeeps ==
    ASSUME IInv,
           \/ \E kind \in Kinds : AskPeriod(kind)
           \/ \E d \in 0..Day(MaxTime) : PeriodStartInput(d)
           \/ CancelFlow
    PROVE  IInv'
  <1>1. UNCHANGED <<now, ticket, payment, stamp, times, report>>
    BY DEF AskPeriod, PeriodStartInput, CancelFlow
  <1>2. fsm' \in Fsm /\ Flow'
    <2>1. fsm \in Fsm
      BY DEF IInv, TypeOK
    <2>2. ASSUME NEW kind \in Kinds, AskPeriod(kind) PROVE fsm' \in Fsm /\ Flow'
      BY <2>1, <2>2 DEF AskPeriod, Fsm, Flow
    <2>3. ASSUME NEW d \in 0..Day(MaxTime), PeriodStartInput(d) PROVE fsm' \in Fsm /\ Flow'
      BY <2>1, <2>3, DateFacts DEF PeriodStartInput, Fsm, Flow
    <2>4. CASE CancelFlow
      BY <2>4 DEF CancelFlow, Fsm, Flow, EmptyFsm
    <2> QED
      BY <2>2, <2>3, <2>4
  <1>3. TypeOK'
    BY <1>1, <1>2 DEF IInv, TypeOK
  <1>4. \A t \in Tasks : PeriodIsKnown(t)' /\ TicketsAreRead(t)' /\ PaymentsAreOld(t)'
    BY <1>1, TypeFacts, ReportsStay
  <1> QED
    BY <1>1, <1>2, <1>3, <1>4, SameReportsSameDays, ReportStepKeeps

\* A report begins; it has counted nothing yet.
LEMMA BegunKeeps ==
    ASSUME IInv, NEW t \in Tasks, NEW lists \in BOOLEAN, NEW period \in {"today", "longer", "custom"},
           NEW start \in Nat, NEW end \in Nat, Begun(t, lists, period, start, end),
           fsm' \in Fsm, Flow',
           period # "custom" => end <= now,
           period = "today" => start = Midnight(Day(end))
    PROVE  IInv'
  <1> DEFINE new == [pc |-> IF lists THEN "tickets" ELSE "payments", lists |-> lists, period |-> period,
                     start |-> start, end |-> end, tickets |-> {}, payments |-> {}]
  <1>1. /\ UNCHANGED <<now, ticket, payment, stamp, times>>
        /\ report' = [report EXCEPT ![t] = new] /\ report[t].pc = "idle"
        /\ report \in [Tasks -> Report]
    BY DEF Begun, IInv, TypeOK
  <1>2. new \in Report
    BY DEF Report
  <1>3. report'[t] = new /\ \A u \in Tasks \ {t} : report'[u] = report[u]
    BY <1>1
  <1>4. TypeOK'
    BY <1>1, <1>2 DEF IInv, TypeOK
  <1>5. ASSUME NEW u \in Tasks \ {t} PROVE PeriodIsKnown(u)' /\ TicketsAreRead(u)' /\ PaymentsAreOld(u)'
    BY <1>1, <1>3 DEF IInv, PeriodIsKnown, TicketsAreRead, PaymentsAreOld
  <1>6. PeriodIsKnown(t)' /\ PaymentsAreOld(t)'
    BY <1>1, <1>3 DEF PeriodIsKnown, PaymentsAreOld
  <1>7. TicketsAreRead(t)'
    BY <1>1, <1>3 DEF TicketsAreRead
  <1>8. \A k \in Tickets : DaysOf(k)' = DaysOf(k)
    <2>1. \A u \in Tasks : report[u].pc = "sent" \/ report'[u].pc = "sent" => report'[u] = report[u]
      BY <1>1, <1>3
    <2>2. Sent' = Sent /\ \A u \in Sent : report'[u] = report[u]
      BY <2>1 DEF Sent
    <2> QED
      BY <2>2 DEF DaysOf
  <1> QED
    BY <1>1, <1>4, <1>5, <1>6, <1>7, <1>8, ReportStepKeeps

LEMMA NamedKeeps ==
    ASSUME IInv, NEW t \in Tasks, NEW lists \in BOOLEAN, NEW p \in Period, Named(t, lists, p)
    PROVE  IInv'
  <1> DEFINE period == IF p = "today" THEN "today" ELSE "longer"
  <1>1. now \in Nat /\ PeriodStart(p) \in Nat /\ (p = "today" => PeriodStart(p) = Midnight(Day(now)))
    BY TypeFacts, StartType
  <1>2. fsm' \in Fsm /\ Flow' /\ Begun(t, lists, period, PeriodStart(p), now)
    BY DEF Named, IInv, TypeOK, Flow
  <1>3. period \in {"today", "longer", "custom"} /\ period # "custom" /\ (period = "today" => p = "today")
    OBVIOUS
  <1> HIDE DEF period
  <1> QED
    BY <1>1, <1>2, <1>3, BegunKeeps

LEMMA PeriodEndInputKeeps ==
    ASSUME IInv, NEW t \in Tasks, NEW d \in 0..Day(MaxTime), PeriodEndInput(t, d)
    PROVE  IInv'
  <1>1. fsm.period_start \in Nat
    BY Constants DEF PeriodEndInput, IInv, TypeOK, Flow, Fsm, Time
  <1>2. Begun(t, fsm.report_kind # "finance", "custom", fsm.period_start, Midnight(d))
    BY DEF PeriodEndInput
  <1>3. fsm' \in Fsm /\ Flow'
    BY DEF PeriodEndInput, EmptyFsm, Fsm, Flow
  <1>4. Midnight(d) \in Nat /\ (fsm.report_kind # "finance") \in BOOLEAN
    BY DateFacts
  <1> QED
    BY <1>1, <1>2, <1>3, <1>4, BegunKeeps

LEMMA ReadTicketsKeeps ==
    ASSUME IInv, NEW t \in Tasks, ReadTickets(t)
    PROVE  IInv'
  <1> DEFINE found == {k \in Tickets : /\ ticket[k].committed # None
                                       /\ InPeriod(ticket[k].at, report[t].start, report[t].end)}
  <1>1. /\ UNCHANGED <<now, ticket, payment, stamp, times, fsm>> /\ report[t].pc = "tickets"
        /\ report' = [report EXCEPT ![t].pc = "payments", ![t].tickets = found]
        /\ report \in [Tasks -> Report]
    BY DEF ReadTickets, IInv, TypeOK
  <1>2. /\ report'[t] = [report[t] EXCEPT !.pc = "payments", !.tickets = found]
        /\ report'[t] \in Report
        /\ \A u \in Tasks \ {t} : report'[u] = report[u]
    <2>1. found \in SUBSET Tickets
      OBVIOUS
    <2> HIDE DEF found
    <2> QED
      BY <1>1, <2>1 DEF Report
  <1>3. /\ report'[t].pc = "payments" /\ report'[t].tickets = found
        /\ report'[t].lists = report[t].lists /\ report'[t].period = report[t].period
        /\ report'[t].start = report[t].start /\ report'[t].end = report[t].end
        /\ report'[t].payments = report[t].payments
    BY <1>1, <1>2 DEF Report
  <1>4. TypeOK' /\ Flow'
    BY <1>1, <1>2 DEF IInv, TypeOK, Flow
  <1>5. ASSUME NEW u \in Tasks \ {t} PROVE PeriodIsKnown(u)' /\ TicketsAreRead(u)' /\ PaymentsAreOld(u)'
    BY <1>1, <1>2 DEF IInv, PeriodIsKnown, TicketsAreRead, PaymentsAreOld
  <1>6. PeriodIsKnown(t)' /\ PaymentsAreOld(t)'
    BY <1>1, <1>3 DEF IInv, PeriodIsKnown, PaymentsAreOld
  <1>7. TicketsAreRead(t)'
    <2> SUFFICES ASSUME NEW k \in Tickets, ticket[k].committed # None, report[t].start <= ticket[k].at,
                        ticket[k].committed < report[t].end
                 PROVE  k \in found
      BY <1>1, <1>3 DEF TicketsAreRead
    <2>1. TimesAreOrdered(k) /\ ticket[k].at \in Nat \cup {None} /\ ticket[k].committed \in Nat \cup {None}
          /\ report[t].end \in Nat
      BY TypeFacts DEF IInv
    <2> QED
      BY <2>1 DEF TimesAreOrdered, InPeriod
  <1>8. \A k \in Tickets : DaysOf(k)' = DaysOf(k)
    <2>1. \A u \in Tasks : report[u].pc = "sent" \/ report'[u].pc = "sent" => report'[u] = report[u]
      BY <1>1, <1>2, <1>3
    <2>2. Sent' = Sent /\ \A u \in Sent : report'[u] = report[u]
      BY <2>1 DEF Sent
    <2> QED
      BY <2>2 DEF DaysOf
  <1> QED
    BY <1>1, <1>4, <1>5, <1>6, <1>7, <1>8, ReportStepKeeps

\* A report for today that counts a payment counts it on the day of its confirmation.
LEMMA DaysGrow ==
    ASSUME IInv, NEW t \in Tasks, ReadPayments(t), NEW k \in Tickets
    PROVE  /\ k \notin Revenue => DaysOf(k)' \subseteq DaysOf(k)
           /\ k \in Revenue => DaysOf(k)' \subseteq DaysOf(k) \cup {Day(payment[k].confirmed_at)}
  <1>1. /\ report \in [Tasks -> Report] /\ report[t].pc = "payments"
        /\ report' = [report EXCEPT ![t].pc = "sent",
                                    ![t].payments = PaymentsOf(report[t].start, report[t].end)]
    BY DEF ReadPayments, IInv, TypeOK
  <1>2. /\ report'[t].payments = PaymentsOf(report[t].start, report[t].end)
        /\ report'[t].period = report[t].period /\ report'[t].end = report[t].end
        /\ \A u \in Tasks \ {t} : report'[u] = report[u]
    BY <1>1 DEF Report
  <1> SUFFICES ASSUME NEW u \in Tasks, report'[u].pc = "sent", report'[u].period = "today",
                      k \in report'[u].payments
               PROVE  \/ Day(report'[u].end) \in DaysOf(k)
                      \/ k \in Revenue /\ Day(report'[u].end) = Day(payment[k].confirmed_at)
    BY DEF DaysOf, Sent
  <1>3. CASE u # t
    BY <1>2, <1>3 DEF DaysOf, Sent
  <1>4. CASE u = t
    <2>1. k \in Revenue /\ InPeriod(payment[k].confirmed_at, report[t].start, report[t].end)
      BY <1>2, <1>4 DEF PaymentsOf
    <2>2. report[t].start = Midnight(Day(report[t].end))
      BY <1>2, <1>4 DEF IInv, PeriodIsKnown
    <2>3. TimesAreOrdered(k) /\ payment[k].confirmed_at \in Nat \cup {None} /\ report[t].end \in Nat
      BY TypeFacts DEF IInv
    <2>4. payment[k].confirmed_at \in Nat
      BY <2>1, <2>3 DEF Revenue, TimesAreOrdered
    <2> QED
      BY <1>2, <1>4, <2>1, <2>2, <2>3, <2>4, SameDay DEF InPeriod
  <1> QED
    BY <1>3, <1>4

LEMMA ReadPaymentsKeeps ==
    ASSUME IInv, NEW t \in Tasks, ReadPayments(t)
    PROVE  IInv'
  <1> DEFINE found == PaymentsOf(report[t].start, report[t].end)
  <1>1. /\ UNCHANGED <<now, ticket, payment, stamp, times, fsm>> /\ report[t].pc = "payments"
        /\ report' = [report EXCEPT ![t].pc = "sent", ![t].payments = found]
        /\ report \in [Tasks -> Report]
    BY DEF ReadPayments, IInv, TypeOK
  <1>2. /\ report'[t] \in Report
        /\ \A u \in Tasks \ {t} : report'[u] = report[u]
    <2>1. found \in SUBSET Tickets
      BY DEF PaymentsOf, Revenue
    <2> HIDE DEF found
    <2> QED
      BY <1>1, <2>1 DEF Report
  <1>3. /\ report'[t].pc = "sent" /\ report'[t].payments = found
        /\ report'[t].lists = report[t].lists /\ report'[t].period = report[t].period
        /\ report'[t].start = report[t].start /\ report'[t].end = report[t].end
        /\ report'[t].tickets = report[t].tickets
    BY <1>1 DEF Report
  <1>4. TypeOK' /\ Flow'
    BY <1>1, <1>2 DEF IInv, TypeOK, Flow
  <1>5. ASSUME NEW u \in Tasks \ {t} PROVE PeriodIsKnown(u)' /\ TicketsAreRead(u)' /\ PaymentsAreOld(u)'
    BY <1>1, <1>2 DEF IInv, PeriodIsKnown, TicketsAreRead, PaymentsAreOld
  <1>6. PeriodIsKnown(t)' /\ TicketsAreRead(t)'
    BY <1>1, <1>3 DEF IInv, PeriodIsKnown, TicketsAreRead
  <1>7. PaymentsAreOld(t)'
    <2> SUFFICES ASSUME NEW k \in found
                 PROVE  ticket[k].committed # None /\ ticket[k].committed < report[t].end
      BY <1>1, <1>3 DEF PaymentsAreOld
    <2>1. k \in Revenue /\ k \in Tickets /\ payment[k].confirmed_at <= report[t].end
      BY DEF PaymentsOf, Revenue, InPeriod
    <2>2. /\ TimesAreOrdered(k) /\ payment[k].confirmed_at \in Nat \cup {None} /\ report[t].end \in Nat
          /\ ticket[k].committed \in Nat \cup {None}
      BY <2>1, TypeFacts DEF IInv
    <2>3. payment[k].confirmed_at # None
      BY <2>1, <2>2 DEF Revenue, TimesAreOrdered
    <2> QED
      BY <2>1, <2>2, <2>3 DEF TimesAreOrdered
  <1>8. ASSUME NEW k \in Tickets PROVE TimesAreOrdered(k)'
    BY <1>1 DEF IInv, TimesAreOrdered
  <1>9. ASSUME NEW k \in Tickets PROVE DaysAreConfirmed(k)'
    <2> DEFINE old == DaysOf(k)
               day == Day(payment[k].confirmed_at)
    <2>1. IsFiniteSet(old) /\ Cardinality(old) <= times[k] /\ times[k] \in Nat
      BY TypeFacts DEF IInv, DaysAreConfirmed
    <2>2. /\ k \notin Revenue => old' \subseteq old
          /\ k \in Revenue => old' \subseteq old \cup {day}
      BY DaysGrow
    <2>3. Revenue' = Revenue /\ payment' = payment /\ times' = times
      BY <1>1 DEF Revenue
    <2>4. CASE k \notin Revenue
      <3>1. IsFiniteSet(old') /\ Cardinality(old') <= Cardinality(old)
        BY <2>1, <2>2, <2>4, FS_Subset
      <3>2. Cardinality(old') \in Nat /\ Cardinality(old) \in Nat
        BY <2>1, <3>1, FS_CardinalityType
      <3>3. Cardinality(old') <= times'[k]
        BY <2>1, <2>3, <3>1, <3>2
      <3> QED
        BY <2>3, <2>4, <3>1, <3>3 DEF DaysAreConfirmed
    <2>5. CASE k \in Revenue
      <3>1. Cardinality(old \cup {day}) <= times[k] /\ IsFiniteSet(old \cup {day})
        BY <2>1, <2>5, FS_AddElement DEF IInv, DaysAreConfirmed
      <3>2. old' \in SUBSET (old \cup {day}) /\ old' \cup {day} \in SUBSET (old \cup {day})
        BY <2>2, <2>5
      <3>3. /\ IsFiniteSet(old') /\ Cardinality(old') <= Cardinality(old \cup {day})
            /\ IsFiniteSet(old' \cup {day}) /\ Cardinality(old' \cup {day}) <= Cardinality(old \cup {day})
        BY <3>1, <3>2, FS_Subset
      <3>4. /\ Cardinality(old') \in Nat /\ Cardinality(old' \cup {day}) \in Nat
            /\ Cardinality(old \cup {day}) \in Nat
        BY <3>1, <3>3, FS_CardinalityType
      <3>5. Cardinality(old') <= times'[k] /\ Cardinality(old' \cup {day}) <= times'[k]
        BY <2>1, <2>3, <3>1, <3>3, <3>4
      <3>6. Day(payment'[k].confirmed_at) = day
        BY <2>3
      <3> QED
        BY <3>3, <3>5, <3>6 DEF DaysAreConfirmed
    <2> QED
      BY <2>4, <2>5
  <1> QED
    BY <1>4, <1>5, <1>6, <1>7, <1>8, <1>9 DEF IInv

LEMMA TickKeeps == IInv /\ Tick => IInv'
  <1> SUFFICES ASSUME IInv, Tick PROVE IInv'
    OBVIOUS
  <1>1. /\ now' = now + 1 /\ now \in Nat /\ now < MaxTime
        /\ UNCHANGED <<ticket, payment, stamp, times, fsm, report>>
    BY TypeFacts DEF Tick
  <1>2. now' \in Time /\ now' \in Nat /\ now <= now'
    BY <1>1, Constants DEF Time
  <1>3. TypeOK' /\ Flow'
    BY <1>1, <1>2 DEF IInv, TypeOK, Flow
  <1>4. ASSUME NEW k \in Tickets PROVE TimesAreOrdered(k)'
    <2>1. TimesAreOrdered(k)
      BY DEF IInv
    <2> QED
      BY <1>1, <2>1, TypeFacts DEF TimesAreOrdered
  <1>5. ASSUME NEW k \in Tickets PROVE DaysAreConfirmed(k)'
    BY <1>1, SameRevenueKeeps
  <1>6. \A t \in Tasks : PeriodIsKnown(t)' /\ TicketsAreRead(t)' /\ PaymentsAreOld(t)'
    BY <1>1, <1>2, ReportsStay
  <1> QED
    BY <1>3, <1>4, <1>5, <1>6 DEF IInv

LEMMA NextInv == IInv /\ [Next]_vars => IInv'
  <1> SUFFICES ASSUME IInv, [Next]_vars PROVE IInv'
    OBVIOUS
  <1>1. ASSUME NEW k \in Tickets,
               CreateTicket(k) \/ CommitTicket(k) \/ ConfirmPayment(k) \/ EndConfirm(k)
               \/ CancelConfirmedPayment(k) \/ RejectReceipt(k)
        PROVE  IInv'
    BY <1>1, CreateTicketKeeps, CommitTicketKeeps, ConfirmPaymentKeeps, EndConfirmKeeps, TakenBackKeeps
  <1>2. ASSUME NEW t \in Tasks, NEW p \in Period,
               FinanceReport(t, p) \/ DoExport(t, p) \/ TicketStats(t, p) \/ CombinedReport(t, p)
        PROVE  IInv'
    BY <1>2, NamedKeeps DEF FinanceReport, DoExport, TicketStats, CombinedReport
  <1>3. ASSUME NEW t \in Tasks,
               (\E d \in 0..Day(MaxTime) : PeriodEndInput(t, d)) \/ ReadTickets(t) \/ ReadPayments(t)
        PROVE  IInv'
    BY <1>3, PeriodEndInputKeeps, ReadTicketsKeeps, ReadPaymentsKeeps
  <1>4. CASE \/ \E kind \in Kinds : AskPeriod(kind)
             \/ \E d \in 0..Day(MaxTime) : PeriodStartInput(d)
             \/ CancelFlow
    BY <1>4, FlowStepKeeps
  <1>5. CASE Tick
    BY <1>5, TickKeeps
  <1>6. CASE UNCHANGED vars
    <2>1. UNCHANGED <<now, ticket, payment, stamp, times, fsm, report>>
      BY <1>6 DEF vars
    <2>2. TypeOK' /\ Flow'
      BY <2>1 DEF IInv, TypeOK, Flow
    <2>3. \A t \in Tasks : PeriodIsKnown(t)' /\ TicketsAreRead(t)' /\ PaymentsAreOld(t)'
      BY <2>1, TypeFacts, ReportsStay
    <2> QED
      BY <2>1, <2>2, <2>3, SameReportsSameDays, ReportStepKeeps
  <1> QED
    BY <1>1, <1>2, <1>3, <1>4, <1>5, <1>6 DEF Next

-----------------------------------------------------------------------------
(* Theorems.                                                                *)

\* In every reachable state times are in order and reports know what they have read.
THEOREM Invariance == Spec => []IInv
  BY InitInv, NextInv, PTL DEF Spec

\* The clock, tickets, payments, the flow and the reports are well typed.
THEOREM TypeCorrect == Spec => []TypeOK
  <1>1. IInv => TypeOK
    BY DEF IInv
  <1> QED
    BY <1>1, Invariance, PTL

\* Statistics never count a payment of the period without its ticket, although tickets and
\* payments are read in two queries between which both are committed.
THEOREM TicketsOfPaymentsAreCounted == Spec => []PaidTicketIsCounted
  <1>1. IInv => PaidTicketIsCounted
    <2> SUFFICES ASSUME IInv, NEW t \in Sent, report[t].lists, report[t].period # "custom",
                        NEW k \in report[t].payments, ticket[k].at >= report[t].start
                 PROVE  k \in report[t].tickets
      BY DEF PaidTicketIsCounted
    <2>1. t \in Tasks /\ report[t].pc = "sent"
      BY DEF Sent
    <2>2. k \in Tickets
      BY <2>1 DEF IInv, TypeOK, Report
    <2>3. ticket[k].committed # None /\ ticket[k].committed < report[t].end
      BY <2>1 DEF IInv, PaymentsAreOld
    <2>4. ticket[k].at \in Nat /\ report[t].start \in Nat
      BY <2>1, <2>2, <2>3, TypeFacts DEF IInv, TimesAreOrdered
    <2> QED
      BY <2>1, <2>2, <2>3, <2>4 DEF IInv, TicketsAreRead
  <1> QED
    BY <1>1, Invariance, PTL

\* Daily reports count each confirmation on one day, that on which it was made.
THEOREM CountedOnOneDay == Spec => []OneDayPerConfirmation
  <1>1. IInv => OneDayPerConfirmation
    BY DEF IInv, DaysAreConfirmed, DaysOf, OneDayPerConfirmation
  <1> QED
    BY <1>1, Invariance, PTL

\* The cards of all users make up the report of the whole period.
THEOREM CardsAddUp == Spec => []CardsMatchFinance
  <1>1. IInv => CardsMatchFinance
    <2> SUFFICES ASSUME IInv PROVE CardsMatchFinance
      OBVIOUS
    <2>1. UNION {Card(u) : u \in Users} = Revenue
      <3>1. \A k \in Revenue : UserOf[k] \in Users /\ k \in Card(UserOf[k])
        BY ReportsAssumption DEF Revenue, Card
      <3>2. \A u \in Users : Card(u) \subseteq Revenue
        BY DEF Card
      <3> QED
        BY <3>1, <3>2
    <2>2. ASSUME NEW k \in Revenue PROVE InPeriod(payment[k].confirmed_at, 0, now)
      <3>1. /\ k \in Tickets /\ TimesAreOrdered(k) /\ payment[k].confirmed_at \in Nat \cup {None}
            /\ payment[k].status = "confirmed" /\ now \in Nat
        BY TypeFacts DEF Revenue, IInv
      <3> QED
        BY <3>1 DEF TimesAreOrdered, InPeriod
    <2>3. PaymentsOf(0, now) = Revenue
      BY <2>2 DEF PaymentsOf
    <2> QED
      BY <2>1, <2>3 DEF CardsMatchFinance
  <1> QED
    BY <1>1, Invariance, PTL

=============================================================================
