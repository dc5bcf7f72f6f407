SPECIFICATION Spec
CONSTANTS
    None = None
    Users = {u1, u2}
    Groups = {g}
    Req = {q1, q2}
    Filler = filler
    Sites = {"own app", "shared app", "tombstones"}
    PageSize = 1
    FlushSize = 2
    MaxActors = 2
    MaxSpent = 3
SYMMETRY Symmetry
CHECK_DEADLOCK FALSE
INVARIANTS MirrorsConverge PanelShowsNoDrift MapsOnlyItsOwn
PROPERTY GapsCloseForCause
