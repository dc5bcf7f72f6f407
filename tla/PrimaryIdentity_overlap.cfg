SPECIFICATION Spec
CONSTANTS
    NativeId = {n1, n2}
    ExternalId = {e1}
    MintedId = {w1}
    Person = {p1, p2}
    Request = {r1, r2}
    Resident = {p1}
    Foreign = {}
    Serialized = FALSE
    None = None
SYMMETRY Symmetry
CHECK_DEADLOCK FALSE
INVARIANTS
    TypeOK
    StrangersNeverShare
    
    
PROPERTIES
    MappedRowKeepsItsPerson
    
    SuccessIsTrue
