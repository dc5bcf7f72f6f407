SPECIFICATION Spec
CONSTANTS
    None = None
    p1 = p1  p2 = p2  g1 = g1  gk = gk  k1 = k1  k2 = k2  n1 = n1
    Person = {p1, p2}
    Group = {g1}
    Key = {k1, k2}
    GroupKeyOf <- OneGroup
    KeysOf <- TwoKeys
    NameOf <- OneName
    Handler = {h1}
    Scheme = {"dsync", "legacy"}
    LiveFromStart = FALSE
    MaxEvents = 4
    MaxEarly = 3
    MaxFaults = 1
CHECK_DEADLOCK FALSE
INVARIANTS UserConverges EdgesConverge
PROPERTIES  SupersededNeverWrites
