SPECIFICATION FairSpec
CONSTANTS
    t1 = t1
    t2 = t2
    Loop = Loop
    None = None
    Tasks = {t1}
    MaxTickets = 2
    Timeout = 1
    Choices = {"paid", "closed"}
INVARIANTS
    TypeOK
PROPERTIES
    ClosedStaysClosed
    AbandonedTicketCloses
