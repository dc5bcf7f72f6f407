SPECIFICATION Spec
CONSTANTS
    None = None
    Handler = {h1}
    Bundled = TRUE
    Rungs = {"workos-primary", "workos-only"}
    TTL = 2
    Timeout = 1
    MaxTime = 4
    MaxWrites = 2
    MaxMoves = 2
    MaxFaults = 0
CHECK_DEADLOCK FALSE
INVARIANT RollbackIsBenign
