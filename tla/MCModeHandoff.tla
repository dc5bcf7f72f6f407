---------------------------- MODULE MCModeHandoff ----------------------------
(* ModeHandoff for TLC: deliveries are interchangeable.                      *)
EXTENDS ModeHandoff, TLC
Symmetry == Permutations(Handler)
=============================================================================
