--------------------------- MODULE PostgresCircuit ---------------------------
(***************************************************************************)
(* The circuit of one (scope, provider) in runtime_provider_circuits, used *)
(* by calls of several API replicas: read_circuit and record_failure hold  *)
(* the transaction's advisory lock, record_success does not take it.  A    *)
(* step is a statement with its commit when it is the last one; what a     *)
(* step reads is what committed before it (READ COMMITTED).  A replica can *)
(* lose its connection inside a transaction, which rolls back.             *)
(*                                                                         *)
(* opened_until is kept as the ticks left, and a clock reading as its age. *)
(***************************************************************************)
EXTENDS Integers

CONSTANTS
  Callers,    \* calls in flight, of any replica
  Nobody,
  Threshold,  \* RIVEXIS_PROVIDER_CIRCUIT_FAILURE_THRESHOLD
  Cooldown,   \* RIVEXIS_PROVIDER_CIRCUIT_COOLDOWN_SECONDS, in ticks
  MaxLag,     \* bound: age of the `now` a statement runs with
  Cap         \* bound: counters of failures stop counting here

ASSUME CircuitAssumption ==
  /\ Nobody \notin Callers
  /\ Threshold \in Nat \ {0} /\ Cooldown \in Nat \ {0} /\ MaxLag \in Nat
  /\ MaxLag < Cooldown /\ Cap \in Nat /\ Cap > Threshold

VARIABLES
  row,     \* consecutive_failures and opened_until; the default when absent
  lock,    \* the caller whose transaction holds the advisory lock
  pc, lag,
  seen,    \* what record_failure selected
  streak,  \* history: failures recorded since a success outside any of them
  counted  \* history: failures recorded since the row was last deleted

vars == <<row, lock, pc, lag, seen, streak, counted>>

Closed == [failures |-> 0, opened |-> FALSE, left |-> 0]

TypeOK ==
  /\ row \in [failures: 0 .. Cap, opened: BOOLEAN, left: -MaxLag .. Cooldown]
  /\ lock \in Callers \cup {Nobody}
  /\ pc \in [Callers -> {"idle", "look", "reset", "calling", "failed", "writing"}]
  /\ lag \in [Callers -> 0 .. MaxLag]
  /\ seen \in [Callers -> 0 .. Cap]
  /\ streak \in 0 .. Cap /\ counted \in 0 .. Cap

Init ==
  /\ row = Closed /\ lock = Nobody
  /\ pc = [c \in Callers |-> "idle"]
  /\ lag = [c \in Callers |-> 0] /\ seen = [c \in Callers |-> 0]
  /\ streak = 0 /\ counted = 0

Bump(n) == IF n < Cap THEN n + 1 ELSE n

Goto(c, label) == pc' = [pc EXCEPT ![c] = label]

\* Who runs with a clock reading.
Timed(c) == pc[c] \in {"look", "reset", "failed", "writing"}

Tick ==
  /\ \A c \in Callers : Timed(c) => lag[c] < MaxLag
  /\ lag' = [c \in Callers |-> IF Timed(c) THEN lag[c] + 1 ELSE lag[c]]
  /\ row' = IF row.opened /\ row.left > -MaxLag THEN [row EXCEPT !.left = @ - 1] ELSE row
  /\ UNCHANGED <<lock, pc, seen, streak, counted>>

\* A call reads the clock and asks for the circuit.
Begin(c) ==
  /\ pc[c] = "idle"
  /\ Goto(c, "look") /\ lag' = [lag EXCEPT ![c] = 0]
  /\ UNCHANGED <<row, lock, seen, streak, counted>>

\* opened_until against the caller's own reading of the clock.
Remaining(c) == row.left + lag[c]

\* Variation: an open circuit lets the call through.
RejectsNobody(c) == FALSE
Rejects(c) == row.opened /\ Remaining(c) > 0

\* Variation: the advisory lock is not taken.
LockIgnored == TRUE
LockFree == lock = Nobody

\* read_circuit, when there is nothing to delete.
Look(c) ==
  /\ pc[c] = "look" /\ LockFree
  /\ \/ Rejects(c) /\ Goto(c, "idle")
     \/ ~row.opened /\ Goto(c, "calling")
  /\ lag' = [lag EXCEPT ![c] = 0]
  /\ UNCHANGED <<row, lock, seen, streak, counted>>

\* read_circuit on an expired circuit: select under the lock, then delete.
LookExpired(c) ==
  /\ pc[c] = "look" /\ LockFree
  /\ row.opened /\ ~Rejects(c)
  /\ lock' = c /\ Goto(c, "reset")
  /\ UNCHANGED <<row, lag, seen, streak, counted>>

LookReset(c) ==
  /\ pc[c] = "reset"
  /\ row' = Closed /\ counted' = 0
  /\ lock' = Nobody /\ Goto(c, "calling") /\ lag' = [lag EXCEPT ![c] = 0]
  /\ UNCHANGED <<seen, streak>>

\* Variation: a success forgets the opening but not the failures.
ClosedButCounting == [row EXCEPT !.opened = FALSE, !.left = 0]
AfterSuccess == Closed

\* The call succeeded: record_success deletes the row, whoever holds the lock.
Succeed(c) ==
  /\ pc[c] = "calling"
  /\ row' = AfterSuccess /\ counted' = 0
  /\ streak' = IF \E d \in Callers : pc[d] = "writing" THEN streak ELSE 0
  /\ Goto(c, "idle")
  /\ UNCHANGED <<lock, lag, seen>>

\* The call failed for good.
Fault(c) ==
  /\ pc[c] = "calling"
  /\ Goto(c, "failed") /\ lag' = [lag EXCEPT ![c] = 0]
  /\ UNCHANGED <<row, lock, seen, streak, counted>>

\* record_failure selects the count under the lock ...
FailRead(c) ==
  /\ pc[c] = "failed" /\ LockFree
  /\ seen' = [seen EXCEPT ![c] = row.failures]
  /\ lock' = c /\ Goto(c, "writing")
  /\ UNCHANGED <<row, lag, streak, counted>>

\* Variation: the cooldown runs from the statement, not from the reading before it.
FailedLate(n, age) ==
  [failures |-> n, opened |-> n >= Threshold, left |-> IF n >= Threshold THEN Cooldown + age ELSE 0]
Failed(n, age) ==
  IF n >= Threshold THEN [failures |-> n, opened |-> TRUE, left |-> Cooldown - age]
  ELSE [failures |-> n, opened |-> FALSE, left |-> 0]

\* ... and upserts it, increased by one.
FailWrite(c) ==
  /\ pc[c] = "writing"
  /\ row' = Failed(Bump(seen[c]), lag[c])
  /\ streak' = Bump(streak) /\ counted' = Bump(counted)
  /\ seen' = [seen EXCEPT ![c] = 0] /\ lag' = [lag EXCEPT ![c] = 0]
  /\ lock' = Nobody /\ Goto(c, "idle")

\* The connection is lost inside a transaction: rollback, and the call ends.
Abort(c) ==
  /\ Timed(c)
  /\ lock' = IF lock = c THEN Nobody ELSE lock
  /\ Goto(c, "idle")
  /\ seen' = [seen EXCEPT ![c] = 0] /\ lag' = [lag EXCEPT ![c] = 0]
  /\ UNCHANGED <<row, streak, counted>>

Proceed(c) ==
  \/ Look(c) \/ LookExpired(c) \/ LookReset(c)
  \/ Succeed(c) \/ Fault(c) \/ FailRead(c) \/ FailWrite(c)

Next == Tick \/ \E c \in Callers : Begin(c) \/ Proceed(c) \/ Abort(c)

Spec == Init /\ [][Next]_vars

\* Time passes and calls under way go on; new calls need not come.
FairSpec == Spec /\ WF_vars(Tick) /\ \A c \in Callers : WF_vars(Proceed(c))

-----------------------------------------------------------------------------
(* Properties *)

\* A circuit counts no more failures, and does not open with fewer than
\* Threshold, than were recorded since the last success that no failure
\* transaction overlapped.
OpensOnStreak ==
  /\ row.failures <= streak
  /\ row.opened => streak >= Threshold

\* No failure is lost between replicas: the row counts at least the failures
\* recorded since it was last deleted.
CountsEveryFailure == row.failures >= counted

\* An open circuit closes again although calls admitted earlier still fail: the
\* cooldown is not extended for ever.
CircuitCloses == (row.opened /\ row.left > 0) ~> ~(row.opened /\ row.left > 0)

Atomic == INSTANCE CircuitBreaker
  WITH failures <- row.failures, opened <- row.opened, left <- row.left

\* "Transaction-scoped PostgreSQL advisory locks coordinate ... circuit state across
\* replicas" (docs/DEPLOYMENT.md): failures, successes and expiries of all replicas
\* act on the circuit one at a time, but for a failure whose read a success has
\* overtaken, which writes the old count back (record_success takes no lock).
AtomicUnlessOvertaken ==
  /\ Atomic!BInit
  /\ [][ \/ Atomic!BNext
         \/ \E c \in Callers : FailWrite(c) /\ row.failures < seen[c] ]_row

=============================================================================
