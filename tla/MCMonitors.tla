----------------------------- MODULE MCMonitors -----------------------------
(* Monitors for TLC: checks are interchangeable, and so are entities. *)
EXTENDS Monitors, TLC

Symmetry == Permutations(Checks) \cup Permutations(Entities)
=============================================================================
