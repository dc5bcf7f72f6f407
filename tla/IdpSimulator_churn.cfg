SPECIFICATION Spec
CONSTANTS
    None = None
    Users = {u1, u2}
    Groups = {g1, g2}
    Names = {n1, n2}
    Caller = {c1, c2}
    MinUsers = 1
    MaxUsers = 2
    MaxCalls = 4
    MaxFaults = 1
SYMMETRY Symmetry
CHECK_DEADLOCK FALSE
INVARIANTS TwinsAgree TimerObeys 
