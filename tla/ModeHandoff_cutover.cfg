SPECIFICATION Spec
CONSTANTS
    None = None
    Handler = {h1, h2}
    Bundled = TRUE
    Rungs = {"workos-primary", "workos-only"}
    TTL = 2
    Timeout = 1
    MaxTime = 3
    MaxWrites = 2
    MaxMoves = 2
    MaxFaults = 1
SYMMETRY Symmetry
CHECK_DEADLOCK FALSE
INVARIANTS CutoverLosesNothing
PROPERTIES DropIsConfirmed ApplyIsRecent
