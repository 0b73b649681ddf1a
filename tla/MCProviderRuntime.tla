-------------------------- MODULE MCProviderRuntime --------------------------
(* ProviderRuntime for TLC.  No symmetry: its run checks under fairness. *)
EXTENDS ProviderRuntime
=============================================================================
