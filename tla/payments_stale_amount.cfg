SPECIFICATION Spec
CONSTANTS
    t1 = t1
    t2 = t2
    a1 = a1
    a2 = a2
    k1 = k1
    x1 = x1
    x2 = x2
    None = None
    Tasks = {t1}
    Admins = {a1}
    PaymentIds = {1, 2}
    TicketIds = {k1}
    TicketOf <- OnTicketOne
    Amounts = {x1, x2}
    Requested <- AskedFor
    TypedAmounts = {x2}
SYMMETRY Symmetric
INVARIANTS
    AmountWasReviewed
