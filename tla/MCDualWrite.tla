---------------------------- MODULE MCDualWrite -----------------------------
(* DualWrite for TLC: users are interchangeable, and so are requests.        *)
EXTENDS DualWrite, TLC
Symmetry == Permutations(Users) \cup Permutations(Req)
=============================================================================
