-------------------------- MODULE MCPostgresCircuit --------------------------
(* PostgresCircuit for TLC.  No symmetry: its run checks under fairness. *)
EXTENDS PostgresCircuit
=============================================================================
