SPECIFICATION Spec
CONSTANTS
    t1 = t1
    t2 = t2
    a1 = a1
    a2 = a2
    k1 = k1
    x1 = x1
    x2 = x2
    None = None
    Tasks = {t1, t2}
    Admins = {a1}
    PaymentIds = {1}
    TicketIds = {k1}
    TicketOf <- OnTicketOne
    Amounts = {x1}
    Requested <- AskedFor
    TypedAmounts = {x1}
SYMMETRY Symmetric
CONSTRAINT Bound
INVARIANTS
    TypeOK
    StatusMatchesRevenue
    CountedUserNotified
    WaitsEnd
PROPERTIES
    CountedFallsOnlyByCancel
    OnlyConfirmedIsCancelled
