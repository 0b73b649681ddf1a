---------------------------- MODULE CircuitBreaker ----------------------------
(***************************************************************************)
(* A provider circuit as one atomic object: what MemoryControlPlane is     *)
(* under its lock, and what a control plane shared by replicas should look *)
(* like to them.                                                           *)
(***************************************************************************)
EXTENDS Integers

CONSTANTS Threshold, Cooldown, MaxLag, Cap

VARIABLES failures,  \* consecutive failures
          opened,    \* opened_until is set
          left       \* ticks until opened_until, below 0 once it has passed

bvars == <<failures, opened, left>>

BInit == failures = 0 /\ opened = FALSE /\ left = 0

Cleared == failures' = 0 /\ opened' = FALSE /\ left' = 0

BSuccess == Cleared

\* `lag` is the age of the clock reading the caller passes as `now`.
BFailure ==
  /\ failures' = IF failures < Cap THEN failures + 1 ELSE failures
  /\ IF failures + 1 >= Threshold
       THEN opened' = TRUE /\ \E lag \in 0 .. MaxLag : left' = Cooldown - lag
       ELSE UNCHANGED <<opened, left>>

\* A look at a circuit whose cooldown has passed resets it.
BExpire == opened /\ left <= 0 /\ Cleared

BTick == opened /\ left > -MaxLag /\ left' = left - 1 /\ UNCHANGED <<failures, opened>>

BNext == BSuccess \/ BFailure \/ BExpire \/ BTick

BSpec == BInit /\ [][BNext]_bvars
=============================================================================
