SPECIFICATION Spec
CONSTANTS
    None = None
    Source = {mock, workos}
    Keyless = mock
    DefaultTarget = mock
    Loop = {l1, l2}
    Limit = 2
    MaxAttempts = 2
    MaxEvents = 2
    MaxEmitted = 2
    MaxKeys = 1
    MaxPanel = 1
    MaxCrashes = 1
CHECK_DEADLOCK FALSE
INVARIANTS NoGap GivenUpOnlyWhenSpent
PROPERTIES FeedOrder EveryEventSettles
