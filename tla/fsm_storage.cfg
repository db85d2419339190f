SPECIFICATION FairSpec
CONSTANTS
    t1 = t1
    t2 = t2
    m1 = m1
    s1 = s1
    i1 = i1
    None = None
    Tasks = {t1, t2}
    Members = {m1}
    States = {s1}
    Items = {i1}
    PoolSize = 2
    MaxCalls = 2
INVARIANTS
    TypeOK
PROPERTIES
    ImplementsStore
    HandlersEnd
