---------------------------- MODULE MCIdpSimulator ----------------------------
(* IdpSimulator for TLC: local ids, names and callers are interchangeable.    *)
EXTENDS IdpSimulator, TLC
Symmetry == Permutations(Users) \cup Permutations(Groups) \cup Permutations(Names) \cup Permutations(Caller)
=============================================================================
