SPECIFICATION FairSpec
CONSTANTS
    t1 = t1
    t2 = t2
    t3 = t3
    Tasks = {t1, t2, t3}
    MaxNumber = 3
    None = None
INVARIANTS
    TypeOK
PROPERTIES
    ImplementsNumbering
    CallsEnd
CHECK_DEADLOCK FALSE
