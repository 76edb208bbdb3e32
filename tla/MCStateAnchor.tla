--------------------------- MODULE MCStateAnchor ---------------------------
(* Two rotations by the agent beside one of the command line and one of    *)
(* the dashboard.                                                          *)
EXTENDS StateAnchor
=============================================================================
