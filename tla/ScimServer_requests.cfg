SPECIFICATION Spec
CONSTANTS
    None = None
    Users = {u1, u2}
    Groups = {g1, g2}
    UserNames = {n1, n2}
    GroupNames = {m1}
    Req = {q1, q2}
    Roles = {"put-upsert", "post-create"}
    MaxRequests = 2
SYMMETRY Symmetry
CHECK_DEADLOCK FALSE
  
PROPERTIES MeetsTheContract RefusalWritesNothing
