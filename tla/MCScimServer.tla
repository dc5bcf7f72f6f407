----------------------------- MODULE MCScimServer -----------------------------
(* ScimServer for TLC: groups, names and requests are interchangeable; users    *)
(* are not, for the order a list of members is taken in.                      *)
EXTENDS ScimServer
Symmetry == Permutations(Groups) \cup Permutations(Req) \cup Permutations(UserNames)
=============================================================================
