------------------------ MODULE PostgresCircuitProofs ------------------------
(***************************************************************************)
(* Proofs about PostgresCircuit: for any number of replicas and any        *)
(* threshold, no failure is lost, no circuit opens short of its streak,    *)
(* and the shared circuit is the atomic one but for overtaken failures.    *)
(***************************************************************************)
EXTENDS PostgresCircuit, TLAPS

\* Between its two statements a transaction holds the advisory lock.
LockHeld == \A c \in Callers : pc[c] \in {"reset", "writing"} => lock = c

\* What record_failure selected: at least what is in the row, as only a success
\* changes that meanwhile, and every failure recorded since the last delete.
SeenSound ==
  \A c \in Callers : pc[c] = "writing" =>
    row.failures <= seen[c] /\ seen[c] <= streak /\ counted <= seen[c]

RowSound ==
  /\ row.failures <= streak /\ counted <= row.failures
  /\ IF row.failures >= Threshold THEN row.opened ELSE ~row.opened /\ row.left = 0

IInv == TypeOK /\ LockHeld /\ SeenSound /\ RowSound

-----------------------------------------------------------------------------
(* Steps *)

\* A deployment starts with the circuit closed.
LEMMA InitInv == Init => IInv
<1> SUFFICES ASSUME Init PROVE IInv
  OBVIOUS
<1> USE CircuitAssumption DEF Init, Closed
<1>1. TypeOK
  BY DEF TypeOK
<1>2. LockHeld /\ SeenSound /\ RowSound
  BY DEF LockHeld, SeenSound, RowSound
<1> QED  BY <1>1, <1>2 DEF IInv

\* A counter that stops at its bound.
LEMMA BumpType ==
  /\ \A n \in 0 .. Cap : Bump(n) \in 0 .. Cap
  /\ \A m, n \in 0 .. Cap : m <= n => Bump(m) <= Bump(n)
BY CircuitAssumption DEF Bump

\* Steps that leave the row, the history and what was read alone: only where the
\* callers stand and who holds the lock changes.
LEMMA MoveInv ==
  ASSUME IInv, UNCHANGED <<row, seen, streak, counted>>,
         NEW c \in Callers, NEW p \in {"idle", "look", "reset", "calling", "failed"},
         pc' = [pc EXCEPT ![c] = p], lock' \in Callers \cup {Nobody},
         p = "reset" => lock' = c, lock # c => lock' \in {lock, c},
         lock # c /\ lock # Nobody => lock' = lock,
         lag' \in [Callers -> 0 .. MaxLag]
  PROVE  IInv'
<1>1. TypeOK'
  BY DEF IInv, TypeOK
<1>2. LockHeld'
  BY CircuitAssumption DEF IInv, TypeOK, LockHeld
<1>3. SeenSound'
  BY DEF IInv, TypeOK, SeenSound
<1>4. RowSound'
  BY DEF IInv, RowSound
<1> QED  BY <1>1, <1>2, <1>3, <1>4 DEF IInv

\* The row is deleted by a caller that then goes on.
LEMMA ClearInv ==
  ASSUME IInv, row' = Closed, counted' = 0, streak' \in {0, streak},
         streak' # streak => \A d \in Callers : pc[d] # "writing",
         NEW c \in Callers, NEW p \in {"idle", "calling"},
         pc' = [pc EXCEPT ![c] = p], lock' \in {lock, Nobody},
         lock # c => lock' = lock,
         lag' \in [Callers -> 0 .. MaxLag], UNCHANGED seen
  PROVE  IInv'
<1> USE CircuitAssumption DEF Closed
<1>1. TypeOK'
  <2>1. row' \in [failures: 0 .. Cap, opened: BOOLEAN, left: -MaxLag .. Cooldown]
    OBVIOUS
  <2>2. streak' \in 0 .. Cap /\ counted' \in 0 .. Cap
    BY DEF IInv, TypeOK
  <2>3. pc' \in [Callers -> {"idle", "look", "reset", "calling", "failed", "writing"}]
    BY DEF IInv, TypeOK
  <2> QED  BY <2>1, <2>2, <2>3 DEF IInv, TypeOK
<1>2. LockHeld'
  BY DEF IInv, TypeOK, LockHeld
<1>3. SeenSound'
  <2> SUFFICES ASSUME NEW d \in Callers, pc'[d] = "writing"
               PROVE  0 <= seen[d] /\ seen[d] <= streak'
    BY DEF SeenSound
  <2>1. pc[d] = "writing"
    BY DEF IInv, TypeOK
  <2> QED  BY <2>1 DEF IInv, TypeOK, SeenSound
<1>4. RowSound'
  BY DEF IInv, TypeOK, RowSound
<1> QED  BY <1>1, <1>2, <1>3, <1>4 DEF IInv

\* Time passes for the cooldown and for the readings of the clock.
LEMMA TickInv == IInv /\ Tick => IInv'
<1> SUFFICES ASSUME IInv, Tick PROVE IInv'
  OBVIOUS
<1> USE CircuitAssumption
<1>1. /\ lag' = [c \in Callers |-> IF Timed(c) THEN lag[c] + 1 ELSE lag[c]]
      /\ row' = IF row.opened /\ row.left > -MaxLag THEN [row EXCEPT !.left = @ - 1] ELSE row
      /\ \A c \in Callers : Timed(c) => lag[c] < MaxLag
      /\ UNCHANGED <<lock, pc, seen, streak, counted>>
  BY DEF Tick
<1>2. lag' \in [Callers -> 0 .. MaxLag]
  BY <1>1 DEF IInv, TypeOK
<1>3. /\ row' \in [failures: 0 .. Cap, opened: BOOLEAN, left: -MaxLag .. Cooldown]
      /\ row'.failures = row.failures /\ row'.opened = row.opened
      /\ ~row.opened => row'.left = row.left
  BY <1>1 DEF IInv, TypeOK
<1>4. TypeOK'
  BY <1>1, <1>2, <1>3 DEF IInv, TypeOK
<1>5. LockHeld' /\ SeenSound'
  BY <1>1, <1>3 DEF IInv, LockHeld, SeenSound
<1>6. RowSound'
  BY <1>1, <1>3 DEF IInv, RowSound
<1> QED  BY <1>4, <1>5, <1>6 DEF IInv

\* record_failure selects the count under the lock.
LEMMA FailReadInv == ASSUME IInv, NEW c \in Callers, FailRead(c) PROVE IInv'
<1> USE CircuitAssumption
<1>1. /\ pc[c] = "failed" /\ lock = Nobody /\ lock' = c
      /\ seen' = [seen EXCEPT ![c] = row.failures]
      /\ pc' = [pc EXCEPT ![c] = "writing"]
      /\ UNCHANGED <<row, lag, streak, counted>>
  BY DEF FailRead, LockFree, Goto
<1>2. TypeOK'
  BY <1>1 DEF IInv, TypeOK
<1>3. LockHeld'
  BY <1>1 DEF IInv, TypeOK, LockHeld
<1>4. SeenSound'
  BY <1>1 DEF IInv, TypeOK, SeenSound, RowSound
<1>5. RowSound'
  BY <1>1 DEF IInv, RowSound
<1> QED  BY <1>2, <1>3, <1>4, <1>5 DEF IInv

\* The upsert of record_failure.
LEMMA FailWriteInv == ASSUME IInv, NEW c \in Callers, FailWrite(c) PROVE IInv'
<1> USE CircuitAssumption
<1>1. /\ pc[c] = "writing" /\ lock' = Nobody
      /\ row' = Failed(Bump(seen[c]), lag[c])
      /\ streak' = Bump(streak) /\ counted' = Bump(counted)
      /\ seen' = [seen EXCEPT ![c] = 0] /\ lag' = [lag EXCEPT ![c] = 0]
      /\ pc' = [pc EXCEPT ![c] = "idle"]
  BY DEF FailWrite, Goto
<1>2. seen[c] \in 0 .. Cap /\ lag[c] \in 0 .. MaxLag /\ streak \in 0 .. Cap /\ counted \in 0 .. Cap
  BY DEF IInv, TypeOK
<1>3. PICK n \in 0 .. Cap : n = Bump(seen[c])
  BY <1>2, BumpType
<1>4. /\ row' \in [failures: 0 .. Cap, opened: BOOLEAN, left: -MaxLag .. Cooldown]
      /\ row'.failures = n
      /\ IF n >= Threshold THEN row'.opened ELSE ~row'.opened /\ row'.left = 0
  <2>1. CASE n >= Threshold
    <3>1. row' = [failures |-> n, opened |-> TRUE, left |-> Cooldown - lag[c]]
      BY <1>1, <1>3, <2>1 DEF Failed
    <3> QED  BY <1>2, <2>1, <3>1
  <2>2. CASE ~(n >= Threshold)
    <3>1. row' = [failures |-> n, opened |-> FALSE, left |-> 0]
      BY <1>1, <1>3, <2>2 DEF Failed
    <3> QED  BY <1>2, <2>2, <3>1
  <2> QED  BY <2>1, <2>2
<1>5. n <= streak' /\ counted' <= n
  BY <1>1, <1>2, <1>3, BumpType DEF IInv, SeenSound
<1>6. TypeOK'
  <2>1. streak' \in 0 .. Cap /\ counted' \in 0 .. Cap
    BY <1>1, <1>2, BumpType
  <2> QED  BY <1>1, <1>4, <2>1 DEF IInv, TypeOK
<1>7. \A d \in Callers : pc'[d] \notin {"reset", "writing"}
  BY <1>1 DEF IInv, TypeOK, LockHeld
<1>8. LockHeld' /\ SeenSound'
  BY <1>7 DEF LockHeld, SeenSound
<1>9. RowSound'
  BY <1>4, <1>5 DEF RowSound
<1> QED  BY <1>6, <1>8, <1>9 DEF IInv

\* Any other step of a caller.
LEMMA CallerInv ==
  ASSUME IInv, NEW c \in Callers, Begin(c) \/ Proceed(c) \/ Abort(c)
  PROVE  IInv'
<1> USE CircuitAssumption
<1>1. [lag EXCEPT ![c] = 0] \in [Callers -> 0 .. MaxLag]
  BY DEF IInv, TypeOK
<1>2. lag \in [Callers -> 0 .. MaxLag] /\ lock \in Callers \cup {Nobody}
  BY DEF IInv, TypeOK
<1>3. CASE Begin(c)
  BY <1>1, <1>2, <1>3, MoveInv DEF Begin, Goto
<1>4. CASE Look(c)
  <2>1. CASE Goto(c, "idle")
    BY <1>1, <1>2, <1>4, <2>1, MoveInv DEF Look, Goto
  <2>2. CASE Goto(c, "calling")
    BY <1>1, <1>2, <1>4, <2>2, MoveInv DEF Look, Goto
  <2> QED  BY <1>4, <2>1, <2>2 DEF Look
<1>5. CASE LookExpired(c)
  BY <1>1, <1>2, <1>5, MoveInv DEF LookExpired, Goto, LockFree
<1>6. CASE LookReset(c)
  <2>1. lock = c
    BY <1>6 DEF LookReset, IInv, LockHeld
  <2> QED  BY <1>1, <1>6, <2>1, ClearInv DEF LookReset, Goto
<1>7. CASE Succeed(c)
  BY <1>2, <1>7, ClearInv DEF Succeed, AfterSuccess, Goto
<1>8. CASE Fault(c)
  BY <1>1, <1>2, <1>8, MoveInv DEF Fault, Goto
<1>9. CASE FailRead(c)
  BY <1>9, FailReadInv
<1>10. CASE FailWrite(c)
  BY <1>10, FailWriteInv
<1>11. CASE Abort(c)
  <2>1. /\ lock' = IF lock = c THEN Nobody ELSE lock
        /\ pc' = [pc EXCEPT ![c] = "idle"]
        /\ seen' = [seen EXCEPT ![c] = 0] /\ lag' = [lag EXCEPT ![c] = 0]
        /\ UNCHANGED <<row, streak, counted>>
    BY <1>11 DEF Abort, Goto
  <2>2. TypeOK'
    BY <2>1 DEF IInv, TypeOK
  <2>3. LockHeld'
    BY <2>1 DEF IInv, TypeOK, LockHeld
  <2>4. SeenSound'
    BY <2>1 DEF IInv, TypeOK, SeenSound
  <2>5. RowSound'
    BY <2>1 DEF IInv, RowSound
  <2> QED  BY <2>2, <2>3, <2>4, <2>5 DEF IInv
<1> QED  BY <1>3, <1>4, <1>5, <1>6, <1>7, <1>8, <1>9, <1>10, <1>11 DEF Proceed

-----------------------------------------------------------------------------
(* Theorems *)

\* Whatever the replicas interleave to, the invariant holds.
THEOREM InvHolds == Spec => []IInv
<1>1. IInv /\ [Next]_vars => IInv'
  <2> SUFFICES ASSUME IInv, [Next]_vars PROVE IInv'
    OBVIOUS
  <2>1. CASE UNCHANGED vars
    BY <2>1 DEF vars, IInv, TypeOK, LockHeld, SeenSound, RowSound
  <2>2. CASE Tick
    BY <2>2, TickInv
  <2>3. CASE \E c \in Callers : Begin(c) \/ Proceed(c) \/ Abort(c)
    BY <2>3, CallerInv
  <2> QED  BY <2>1, <2>2, <2>3 DEF Next
<1> QED  BY <1>1, InitInv, PTL DEF Spec

\* The row, the lock and what every call holds keep their types.
THEOREM TypesHold == Spec => []TypeOK
<1>1. IInv => TypeOK
  BY DEF IInv
<1> QED  BY <1>1, InvHolds, PTL

\* A circuit opens only on Threshold failures in a row, of whatever replicas.
THEOREM StreakOpens == Spec => []OpensOnStreak
<1>1. IInv => OpensOnStreak
  BY CircuitAssumption DEF IInv, TypeOK, RowSound, OpensOnStreak
<1> QED  BY <1>1, InvHolds, PTL

\* Two replicas that fail at once are both counted (the advisory lock).
THEOREM FailuresCounted == Spec => []CountsEveryFailure
<1>1. IInv => CountsEveryFailure
  BY CircuitAssumption DEF IInv, TypeOK, RowSound, CountsEveryFailure
<1> QED  BY <1>1, InvHolds, PTL

-----------------------------------------------------------------------------
(* The atomic breaker *)

\* A failure that no success overtook is one failure of the atomic breaker.
LEMMA FailureIsAtomic ==
  ASSUME IInv, NEW c \in Callers, FailWrite(c), ~(row.failures < seen[c])
  PROVE  Atomic!BFailure
<1> USE CircuitAssumption
<1>1. /\ seen[c] \in 0 .. Cap /\ lag[c] \in 0 .. MaxLag /\ row.failures \in 0 .. Cap
      /\ row.failures <= seen[c]
  BY DEF IInv, TypeOK, SeenSound, FailWrite
<1>2. seen[c] = row.failures
  BY <1>1
<1>3. PICK n : n = Bump(row.failures)
  OBVIOUS
<1>4. row' = Failed(n, lag[c])
  BY <1>2, <1>3 DEF FailWrite
<1>5. n >= Threshold <=> row.failures + 1 >= Threshold
  BY <1>1, <1>3 DEF Bump
<1>6. CASE n >= Threshold
  <2>1. row' = [failures |-> n, opened |-> TRUE, left |-> Cooldown - lag[c]]
    BY <1>4, <1>6 DEF Failed
  <2> QED  BY <1>1, <1>3, <1>5, <1>6, <2>1 DEF Atomic!BFailure, Bump
<1>7. CASE ~(n >= Threshold)
  <2>1. row' = [failures |-> n, opened |-> FALSE, left |-> 0]
    BY <1>4, <1>7 DEF Failed
  <2>2. ~row.opened /\ row.left = 0
    BY <1>1, <1>5, <1>7 DEF IInv, RowSound
  <2>3. row'.failures = n /\ row'.opened = FALSE /\ row'.left = 0
    BY <2>1
  <2>4. row.opened = FALSE
    BY <2>2 DEF IInv, TypeOK
  <2> QED  BY <1>3, <1>5, <1>7, <2>2, <2>3, <2>4 DEF Atomic!BFailure, Bump
<1> QED  BY <1>6, <1>7

\* Every step on the row is one of the atomic breaker, or overtaken.
LEMMA StepIsAtomic ==
  IInv /\ [Next]_vars =>
    [Atomic!BNext \/ \E c \in Callers : FailWrite(c) /\ row.failures < seen[c]]_row
<1> SUFFICES ASSUME IInv, Next, row' # row, ~\E c \in Callers : FailWrite(c) /\ row.failures < seen[c]
             PROVE  Atomic!BNext
  BY DEF vars
<1>1. CASE Tick
  <2>1. row.opened /\ row.left > -MaxLag /\ row' = [row EXCEPT !.left = @ - 1]
    BY <1>1 DEF Tick
  <2>2. row'.failures = row.failures /\ row'.opened = row.opened /\ row'.left = row.left - 1
    BY <2>1 DEF IInv, TypeOK
  <2> QED  BY <2>1, <2>2 DEF Atomic!BNext, Atomic!BTick
<1>2. CASE \E c \in Callers : Begin(c) \/ Proceed(c) \/ Abort(c)
  <2>1. PICK c \in Callers : Begin(c) \/ Proceed(c) \/ Abort(c)
    BY <1>2
  <2>2. CASE LookReset(c) \/ Succeed(c)
    <3>1. row' = Closed
      BY <2>2 DEF LookReset, Succeed, AfterSuccess
    <3> QED  BY <3>1 DEF Closed, Atomic!BNext, Atomic!BSuccess, Atomic!Cleared
  <2>3. CASE FailWrite(c)
    BY <2>3, FailureIsAtomic DEF Atomic!BNext
  <2>4. CASE Begin(c) \/ Look(c) \/ LookExpired(c) \/ Fault(c) \/ FailRead(c) \/ Abort(c)
    BY <2>4 DEF Begin, Look, LookExpired, Fault, FailRead, Abort
  <2> QED  BY <2>1, <2>2, <2>3, <2>4 DEF Proceed
<1> QED  BY <1>1, <1>2 DEF Next

\* "Advisory locks coordinate circuit state across replicas": what the replicas do
\* to the circuit is what they would do to an atomic one, but for a failure whose
\* read a success has overtaken.
THEOREM SharedCircuitIsAtomic == Spec => AtomicUnlessOvertaken
<1>1. Init => Atomic!BInit
  BY DEF Init, Closed, Atomic!BInit
<1>2. Spec => [][Atomic!BNext \/ \E c \in Callers : FailWrite(c) /\ row.failures < seen[c]]_row
  BY StepIsAtomic, InvHolds, PTL DEF Spec
<1> QED  BY <1>1, <1>2, PTL DEF Spec, AtomicUnlessOvertaken
=============================================================================
