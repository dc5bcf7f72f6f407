SPECIFICATION Spec
CONSTANTS
    NativeId = {n1, n2}
    ExternalId = {e1}
    MintedId = {w1}
    Person = {p1, p2}
    Request = {r1, r2}
    One = p1
    Neighbour = n2
    None = None
SYMMETRY Symmetry
CHECK_DEADLOCK FALSE
INVARIANTS
    GapIsVisible
    
