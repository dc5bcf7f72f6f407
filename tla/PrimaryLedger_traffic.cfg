SPECIFICATION Spec
CONSTANTS
    User = {u1}
    Group = {}
    Request = {x1}
    Run = {q1, q2}
    Serialized = FALSE
    Quiesced = FALSE
    Before = Before
    Stale = Stale
    None = None
SYMMETRY Symmetry
CHECK_DEADLOCK FALSE
INVARIANTS
    TypeOK
    OneReplay
    UnresolvedReplayKeepsClaims
PROPERTIES
    FreshRowsStand
    
