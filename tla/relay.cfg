SPECIFICATION Spec
CONSTANTS
    u1 = u1
    u2 = u2
    m1 = m1
    m2 = m2
    a1 = a1
    r1 = r1
    e1 = e1
    None = None
    Users = {u1, u2}
    Messages = {m1, m2}
    Author <- FromTwoUsers
    Admins = {a1}
    Replies = {r1}
    Reactions = {e1}
    Attempts = 2
INVARIANTS
    TypeOK
    ReactionsMirrorCopies
PROPERTIES
    ImplementsChannel
