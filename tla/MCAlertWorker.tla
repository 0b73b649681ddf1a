---------------------------- MODULE MCAlertWorker ----------------------------
(* AlertWorker for TLC.  No symmetry: its runs check under fairness. *)
EXTENDS AlertWorker
=============================================================================
