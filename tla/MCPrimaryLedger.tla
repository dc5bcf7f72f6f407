--------------------------- MODULE MCPrimaryLedger ---------------------------
(* PrimaryLedger for TLC: requests and runs are interchangeable. *)
EXTENDS PrimaryLedger, TLC

Symmetry == Permutations(Request) \cup Permutations(Run)
=============================================================================
