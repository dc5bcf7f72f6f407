---------------------------- MODULE MCDsyncListener ---------------------------
(* DsyncListener for TLC.  Every person and group has its own model value; the *)
(* functions between them are fixed here.                                      *)
EXTENDS DsyncListener, TLC

CONSTANTS p1, p2, g1, k1, k2, n1, gk

OneGroup == g1 :> gk
\* p1 may change its idp_id, keeping its name; p2 has a name of p1's and, once
\* p1 has left it, the idp_id as well.
TwoKeys == p1 :> {k1, k2} @@ p2 :> {k2}
OneName == k1 :> n1 @@ k2 :> n1
=============================================================================
