--------------------------- MODULE MCEventsPoller ---------------------------
(* EventsPoller for TLC: loops are interchangeable, but liveness is checked,  *)
(* so no symmetry is declared.                                                *)
EXTENDS EventsPoller
=============================================================================
