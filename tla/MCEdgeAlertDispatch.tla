------------------------- MODULE MCEdgeAlertDispatch -------------------------
(* Small instances of scheduled alert delivery. *)
EXTENDS EdgeAlertDispatch
=============================================================================
