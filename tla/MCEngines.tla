----------------------------- MODULE MCEngines -----------------------------
(* Engines for TLC: every request of every engine is an initial state, so the
   only bound is how far the chain goes while one engine runs. *)
EXTENDS Engines
=============================================================================
