-------------------------- MODULE MCPrimaryIdentity --------------------------
(* PrimaryIdentity for TLC: requests are interchangeable. *)
EXTENDS PrimaryIdentity, TLC

Symmetry == Permutations(Request)
=============================================================================
