SPECIFICATION Spec
CONSTANTS
    k1 = k1
    r1 = r1
    r2 = r2
    u1 = u1
    None = None
    Tickets = {k1}
    Users = {u1}
    UserOf <- OfOneUser
    Tasks = {r1, r2}
    DayLength = 2
    Week = 2
    Month = 3
    MaxTime = 2
    MaxTimes = 2
SYMMETRY Symmetric
INVARIANTS
    TypeOK
    PaidTicketIsCounted
    OneDayPerConfirmation
    CardsMatchFinance
