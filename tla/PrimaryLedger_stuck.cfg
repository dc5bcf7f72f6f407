SPECIFICATION Spec
CONSTANTS
    User = {u1}
    Group = {}
    Request = {x1}
    Run = {q1, q2}
    Serialized = TRUE
    Quiesced = TRUE
    Before = Before
    Stale = Stale
    None = None
SYMMETRY Symmetry
CHECK_DEADLOCK FALSE
PROPERTIES
    CleanReplayRetires
