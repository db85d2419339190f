SPECIFICATION Spec
CONSTANTS
    k1 = k1
    bank = bank
    photo = photo
    t1 = t1
    t2 = t2
    None = None
    Zero = Zero
    Admins = {a1}
    Tickets = {tk1}
    Kinds = {k1}
    KindOf <- AllOfOneKind
    Fields = {bank, photo}
    Photo = photo
    Shown = {bank}
    Values = {v1, v2}
    Amounts = {x1}
    Comments = {c1}
    Tasks = {t1, t2}
SYMMETRY Symmetric
INVARIANTS
    TypeOK
    AwaitingIsAsked
PROPERTIES
    EditsOneField
