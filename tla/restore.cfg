SPECIFICATION Spec
CONSTANTS
    p1 = p1
    p2 = p2
    NoSchema = NoSchema
    Part = Part
    Amended = Amended
    None = None
    Presses = {p1, p2}
    MaxVersion = 1
SYMMETRY Symmetric
INVARIANTS
    TypeOK
PROPERTIES
    RestoredIsThere
