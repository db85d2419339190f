SPECIFICATION GuardSpec
CONSTANTS
    m1 = m1
    m2 = m2
    m3 = m3
    x1 = x1
    x2 = x2
    Nil = Nil
    Messages = {m1, m2, m3}
    Texts = {x1, x2}
    Limit = 1
    Window = 2
    DupWindow = 2
    DupRoom = 1
    MaxTime = 4
SYMMETRY Symmetric
INVARIANTS
    GuardTypeOK
    ThrottledForAReason
    BurstIsBounded
    RepeatIsFlagged
