--------------------------- MODULE ProviderRuntime ---------------------------
(***************************************************************************)
(* The process-local provider runtime of provider_runtime.py for one       *)
(* (workspace scope, provider) pair: request coalescing by a per-key lock, *)
(* the TTL cache, the sliding-window call budget and the circuit breaker   *)
(* of MemoryControlPlane, the bounded retry loop, the telemetry counters   *)
(* and the durable provider_requests rows.                                 *)
(*                                                                         *)
(* Threads of one API process interleave at the points where the code      *)
(* leaves a lock or reads the clock.  Everything done under `_lock` is one *)
(* step.  A call reads time.time() before it takes the lock that uses the  *)
(* reading, so each thread carries its own, possibly stale, stamp.         *)
(***************************************************************************)
EXTENDS Integers, Sequences, FiniteSets, FiniteSetsExt

CONSTANTS
  Threads,        \* threads of the process that may call execute()
  CacheKeys,      \* cache keys a caller may pass with a positive ttl
  NoKey,          \* the call is not cacheable: no key, or ttl 0
  NoThread,       \* an unheld single-flight lock
  MaxRetries,     \* RIVEXIS_PROVIDER_MAX_RETRIES
  Threshold,      \* RIVEXIS_PROVIDER_CIRCUIT_FAILURE_THRESHOLD, at least 1
  Cooldown,       \* RIVEXIS_PROVIDER_CIRCUIT_COOLDOWN_SECONDS
  Limit,          \* RIVEXIS_PROVIDER_CALLS_PER_MINUTE
  Window,         \* the 60 seconds of the sliding window
  TTL,            \* cache_ttl_seconds of the cacheable calls
  ControlFaults,  \* TRUE: the control plane may raise (postgres or redis)
  RowFaults,      \* TRUE: writing a provider_requests row may fail
  Skew,           \* longest time between reading the clock and using it
  MaxCalls,       \* bound: calls made
  MaxTime         \* bound: clock ticks

ASSUME RuntimeAssumption ==
  /\ NoKey \notin CacheKeys
  /\ IsFiniteSet(Threads) /\ NoThread \notin Threads
  /\ MaxRetries \in Nat /\ Threshold \in Nat \ {0} /\ Cooldown \in Nat
  /\ Limit \in Nat /\ Window \in Nat \ {0} /\ TTL \in Nat
  /\ ControlFaults \in BOOLEAN /\ RowFaults \in BOOLEAN
  /\ Skew \in Nat /\ MaxCalls \in Nat /\ MaxTime \in Nat

VARIABLES
  now,        \* the clock; time.time() and time.monotonic() tick together
  call,       \* the locals of each thread's execute(): see CallState
  flight,     \* _singleflight_locks: key -> holder
  cache,      \* _cache: key -> expiry, 0 when absent
  budget,     \* MemoryControlPlane._budgets: deque of stamps
  circuit,    \* MemoryControlPlane._circuits: failures and opened_until
  tel,        \* _telemetry counters
  rows,       \* provider_requests rows, by status
  lost,       \* history: rows that were never written, by status
  aborted,    \* history: admitted calls ended by a control-plane exception
  admits      \* history: attempts granted by the budget at each clock value

vars == <<now, call, flight, cache, budget, circuit, tel, rows, lost, aborted, admits>>

Status == {"CACHE_HIT", "CIRCUIT_OPEN", "LOCAL_RATE_LIMIT", "FAILED", "SUCCESS"}
PC == {"idle", "queued", "enter", "admit", "loop", "consume", "calling", "persist"}
Counters == {"logical_calls", "attempts", "successes", "failures", "retries",
             "cache_hits", "rate_limited", "circuit_rejections"}
Closed == [failures |-> 0, until |-> 0]

\* pc: where the thread is; key: the call's cache key; stamp: the clock reading
\* it holds, 0 when none; attempt: index of the attempt loop; outcome: status
\* of the row a finished call is about to persist.
CallState == [pc: PC, key: CacheKeys \cup {NoKey}, stamp: Nat,
              attempt: 0 .. MaxRetries, outcome: Status]
Idle == [pc |-> "idle", key |-> NoKey, stamp |-> 0, attempt |-> 0, outcome |-> "SUCCESS"]

TypeOK ==
  /\ now \in Nat
  /\ call \in [Threads -> CallState]
  /\ flight \in [CacheKeys -> Threads \cup {NoThread}]
  /\ cache \in [CacheKeys -> Nat]
  /\ budget \in Seq(Nat)
  /\ circuit \in [failures: Nat, until: Nat]
  /\ tel \in [Counters -> Nat]
  /\ rows \in [Status -> Nat] /\ lost \in [Status -> Nat]
  /\ aborted \in Nat
  /\ admits \in [1 .. MaxTime -> Nat]

Init ==
  /\ now = 1
  /\ call = [t \in Threads |-> Idle]
  /\ flight = [k \in CacheKeys |-> NoThread]
  /\ cache = [k \in CacheKeys |-> 0]
  /\ budget = <<>>
  /\ circuit = Closed
  /\ tel = [c \in Counters |-> 0]
  /\ rows = [s \in Status |-> 0]
  /\ lost = [s \in Status |-> 0]
  /\ aborted = 0
  /\ admits = [n \in 1 .. MaxTime |-> 0]

-----------------------------------------------------------------------------
(* Helpers *)

\* The thread moves on; a clock reading is used once.
Goto(t, l) == call' = [call EXCEPT ![t].pc = l, ![t].stamp = 0]

Settle(t, s) == call' = [call EXCEPT ![t].pc = "persist", ![t].outcome = s, ![t].stamp = 0]

Count(C) == tel' = [c \in Counters |-> IF c \in C THEN tel[c] + 1 ELSE tel[c]]

\* Variation: a call the budget turns away leaves the lock held.
ReleaseLeaky(t) ==
  flight' = [k \in CacheKeys |->
    IF flight[k] = t /\ call[t].outcome # "LOCAL_RATE_LIMIT" THEN NoThread ELSE flight[k]]
\* `with flight_lock` ends when the call returns or raises.
Release(t) == flight' = [k \in CacheKeys |-> IF flight[k] = t THEN NoThread ELSE flight[k]]

Return(t) == call' = [call EXCEPT ![t] = Idle] /\ Release(t)

\* Variation: no row for a call that the budget turned away.
RecordAttempted(s) ==
  /\ rows' = IF s = "LOCAL_RATE_LIMIT" THEN rows ELSE [rows EXCEPT ![s] = @ + 1]
  /\ UNCHANGED lost
\* _persist_event: one row, or nothing when the write raises.
RecordRow(s) ==
  \/ /\ rows' = [rows EXCEPT ![s] = @ + 1]
     /\ UNCHANGED lost
  \/ /\ RowFaults
     /\ lost' = [lost EXCEPT ![s] = @ + 1]
     /\ UNCHANGED rows

\* Variation: off by one at the end of the cooldown.
CircuitSeenEarly(c, n) == IF c.until # 0 /\ c.until <= n + 1 THEN Closed ELSE c
\* MemoryControlPlane.circuit: an expired opening is cleared by whoever looks.
CircuitSeen(c, n) == IF c.until # 0 /\ c.until <= n THEN Closed ELSE c

\* MemoryControlPlane.failure
CircuitAfterFailure(c, n) ==
  LET f == c.failures + 1
  IN  [failures |-> f, until |-> IF f >= Threshold THEN n + Cooldown ELSE c.until]

\* Variation: off by one at the end of the window.
FreshShort(s, n) == s > n - Window + 1
Fresh(s, n) == s > n - Window

\* The head-only pruning loop of consume_budget: it stops at the first stamp
\* still inside the window, whatever older stamps stand behind it.
Pruned(q, n) ==
  LET live == {i \in DOMAIN q : Fresh(q[i], n)}
  IN  IF live = {} THEN <<>> ELSE SubSeq(q, Min(live), Len(q))

Cacheable(t) == call[t].key # NoKey
Waiting == {t \in Threads : call[t].pc \in {"queued", "enter", "admit"}}
InFlight == {t \in Threads : call[t].pc \in {"loop", "consume", "calling"}}
Calling == {t \in Threads : call[t].pc = "calling"}
Persisting(s) == {t \in Threads : call[t].pc = "persist" /\ call[t].outcome = s}

-----------------------------------------------------------------------------
(* Steps of a thread inside execute() *)

Tick ==
  /\ now < MaxTime
  /\ \A t \in Threads : call[t].pc \in {"admit", "consume"} => now < call[t].stamp + Skew
  /\ now' = now + 1
  /\ UNCHANGED <<call, flight, cache, budget, circuit, tel, rows, lost, aborted, admits>>

Call(t, k) ==
  /\ call[t].pc = "idle"
  /\ tel["logical_calls"] + Cardinality(Waiting) < MaxCalls
  /\ call' = [call EXCEPT ![t].key = k,
                          ![t].pc = IF k = NoKey THEN "enter" ELSE "queued"]
  /\ UNCHANGED <<now, flight, cache, budget, circuit, tel, rows, lost, aborted, admits>>

\* Variation: followers do not wait for the leader.
FlightIgnored(t) == TRUE
FlightFree(t) == flight[call[t].key] = NoThread

AcquireFlight(t) ==
  /\ call[t].pc = "queued"
  /\ FlightFree(t)
  /\ flight' = [flight EXCEPT ![call[t].key] = t]
  /\ Goto(t, "enter")
  /\ UNCHANGED <<now, cache, budget, circuit, tel, rows, lost, aborted, admits>>

\* now = time.time(), before the lock or the budget call that uses it.
ReadClock(t) ==
  /\ call[t].pc \in {"enter", "loop"}
  /\ call' = [call EXCEPT ![t].stamp = now,
                          ![t].pc = IF @ = "enter" THEN "admit" ELSE "consume"]
  /\ UNCHANGED <<now, flight, cache, budget, circuit, tel, rows, lost, aborted, admits>>

CacheLive(t) == Cacheable(t) /\ cache[call[t].key] > now

CacheHit(t) ==
  /\ call[t].pc = "admit"
  /\ CacheLive(t)
  /\ Count({"logical_calls", "cache_hits"})
  /\ RecordRow("CACHE_HIT")
  /\ Return(t)
  /\ UNCHANGED <<now, cache, budget, circuit, aborted, admits>>

\* A stale entry is dropped on the way to the circuit check.
DropExpired(t) ==
  cache' = [k \in CacheKeys |-> IF k = call[t].key THEN 0 ELSE cache[k]]

RejectByCircuit(t) ==
  /\ call[t].pc = "admit"
  /\ ~CacheLive(t)
  /\ CircuitSeen(circuit, call[t].stamp).until > call[t].stamp
  /\ DropExpired(t)
  /\ circuit' = CircuitSeen(circuit, call[t].stamp)
  /\ Count({"logical_calls", "circuit_rejections"})
  /\ RecordRow("CIRCUIT_OPEN")
  /\ Return(t)
  /\ UNCHANGED <<now, budget, aborted, admits>>

Admit(t) ==
  /\ call[t].pc = "admit"
  /\ ~CacheLive(t)
  /\ CircuitSeen(circuit, call[t].stamp).until <= call[t].stamp
  /\ DropExpired(t)
  /\ circuit' = CircuitSeen(circuit, call[t].stamp)
  /\ Count({"logical_calls"})
  /\ Goto(t, "loop")
  /\ UNCHANGED <<now, flight, budget, rows, lost, aborted, admits>>

\* backend.circuit raises: the call was counted and nothing else happens.
AdmitFault(t) ==
  /\ ControlFaults
  /\ call[t].pc = "admit"
  /\ ~CacheLive(t)
  /\ DropExpired(t)
  /\ Count({"logical_calls"})
  /\ aborted' = aborted + 1
  /\ Return(t)
  /\ UNCHANGED <<now, budget, circuit, rows, lost, admits>>

ConsumeBudget(t) ==
  LET q == Pruned(budget, call[t].stamp)
  IN  /\ call[t].pc = "consume"
      /\ Len(q) < Limit
      /\ budget' = Append(q, call[t].stamp)
      /\ admits' = [admits EXCEPT ![now] = @ + 1]
      /\ Count({"attempts"})
      /\ Goto(t, "calling")
      /\ UNCHANGED <<now, flight, cache, circuit, rows, lost, aborted>>

RateLimit(t) ==
  LET q == Pruned(budget, call[t].stamp)
  IN  /\ call[t].pc = "consume"
      /\ Len(q) >= Limit
      /\ budget' = q
      /\ Count({"rate_limited"})
      /\ Settle(t, "LOCAL_RATE_LIMIT")
      /\ UNCHANGED <<now, flight, cache, circuit, rows, lost, aborted, admits>>

ConsumeFault(t) ==
  /\ ControlFaults
  /\ call[t].pc = "consume"
  /\ aborted' = aborted + 1
  /\ Return(t)
  /\ UNCHANGED <<now, cache, budget, circuit, tel, rows, lost, admits>>

\* Variation: one retry too many.
RetriesLeftPlusOne(t) == call[t].attempt <= MaxRetries
RetriesLeft(t) == call[t].attempt < MaxRetries

\* fn() raised a retryable error and attempts remain.
Retry(t) ==
  /\ call[t].pc = "calling"
  /\ RetriesLeft(t)
  /\ call' = [call EXCEPT ![t].pc = "loop", ![t].attempt = @ + 1]
  /\ Count({"retries"})
  /\ UNCHANGED <<now, flight, cache, budget, circuit, rows, lost, aborted, admits>>

\* fn() raised a final error: not retryable, or the last attempt.
Fail(t) ==
  /\ call[t].pc = "calling"
  /\ Count({"failures"})
  /\ circuit' = CircuitAfterFailure(circuit, now)
  /\ Settle(t, "FAILED")
  /\ UNCHANGED <<now, flight, cache, budget, rows, lost, aborted, admits>>

Succeed(t) ==
  /\ call[t].pc = "calling"
  /\ Count({"successes"})
  /\ circuit' = Closed
  /\ cache' = IF Cacheable(t) THEN [cache EXCEPT ![call[t].key] = now + TTL] ELSE cache
  /\ Settle(t, "SUCCESS")
  /\ UNCHANGED <<now, flight, budget, rows, lost, aborted, admits>>

\* backend.success or backend.failure raises after the counter moved: no
\* cache entry, no row, and the caller sees the control-plane exception.
SettleFault(t, c, s) ==
  /\ ControlFaults
  /\ call[t].pc = "calling"
  /\ Count({c})
  /\ lost' = [lost EXCEPT ![s] = @ + 1]
  /\ Return(t)
  /\ UNCHANGED <<now, cache, budget, circuit, rows, aborted, admits>>

Persist(t) ==
  /\ call[t].pc = "persist"
  /\ RecordRow(call[t].outcome)
  /\ Return(t)
  /\ UNCHANGED <<now, cache, budget, circuit, tel, aborted, admits>>

\* snapshot() reads the circuit and so clears an expired opening.
Snapshot ==
  /\ CircuitSeen(circuit, now) # circuit
  /\ circuit' = CircuitSeen(circuit, now)
  /\ UNCHANGED <<now, call, flight, cache, budget, tel, rows, lost, aborted, admits>>

Step(t) ==
  \/ AcquireFlight(t) \/ ReadClock(t)
  \/ CacheHit(t) \/ RejectByCircuit(t) \/ Admit(t) \/ AdmitFault(t)
  \/ ConsumeBudget(t) \/ RateLimit(t) \/ ConsumeFault(t)
  \/ Retry(t) \/ Fail(t) \/ Succeed(t)
  \/ SettleFault(t, "successes", "SUCCESS") \/ SettleFault(t, "failures", "FAILED")
  \/ Persist(t)

Next ==
  \/ Tick
  \/ Snapshot
  \/ \E t \in Threads : Step(t) \/ \E k \in CacheKeys \cup {NoKey} : Call(t, k)

Spec == Init /\ [][Next]_vars

\* Every thread keeps running: fn() returns because each provider client sets a
\* transport timeout, and no lock is held across anything that can block.
FairSpec == Spec /\ \A t \in Threads : WF_vars(Step(t))

-----------------------------------------------------------------------------
(* Properties *)

\* Every logical call is accounted for exactly once: it was answered from the
\* cache, turned away by the circuit or the budget, succeeded, failed, died on
\* a control-plane exception, or is still in flight (provider_runtime.py keeps
\* these counters at seven places under separate acquisitions of _lock).
CallsAccounted ==
  tel["logical_calls"] =
    tel["cache_hits"] + tel["circuit_rejections"] + tel["rate_limited"]
    + tel["successes"] + tel["failures"] + aborted + Cardinality(InFlight)

\* Every attempt ended in a success, a final failure or a counted retry, or is
\* on the wire; a call that the budget stops between two attempts breaks none
\* of this although it neither succeeds nor fails.
AttemptsAccounted ==
  tel["attempts"] =
    tel["successes"] + tel["failures"] + tel["retries"] + Cardinality(Calling)

\* The durable history agrees with the counters: per status, the rows written
\* or lost and those still to be written are the calls counted.
RowsMatchCounters ==
  LET counted == [CACHE_HIT |-> tel["cache_hits"],
                  CIRCUIT_OPEN |-> tel["circuit_rejections"],
                  LOCAL_RATE_LIMIT |-> tel["rate_limited"],
                  FAILED |-> tel["failures"],
                  SUCCESS |-> tel["successes"]]
  IN  \A s \in Status : rows[s] + lost[s] + Cardinality(Persisting(s)) = counted[s]

\* The accounts balance: calls, attempts and rows, whatever raises in between.
Accounted == CallsAccounted /\ AttemptsAccounted /\ RowsMatchCounters

\* Coalescing: while one call for a cache key is past the cache check, no other
\* call for that key is, and the key has no live cache entry, so nobody fetches
\* what a finished leader has just stored (execute() holds the per-key lock
\* across the whole of _execute_impl).
NoRedundantFetch ==
  \A t \in InFlight : Cacheable(t) =>
    /\ cache[call[t].key] <= now
    /\ \A u \in InFlight : call[u].key = call[t].key => u = t

\* The budget holds in real time although callers stamp their attempts before
\* they consume: any Window - Skew consecutive ticks grant at most Limit
\* attempts, retries included.
BudgetHolds ==
  \A n \in 1 .. MaxTime :
    MapThenSumSet(LAMBDA m : admits[m],
                  {m \in 1 .. MaxTime : n <= m /\ m < n + Window - Skew}) <= Limit

\* An open circuit closes before its cooldown is over only because a call
\* succeeded, never because a caller looked at it with a stale clock.
EarlyCloseNeedsSuccess ==
  [][ (circuit.until > now /\ circuit'.until < circuit.until)
        => tel'["successes"] > tel["successes"] ]_vars

\* Every call returns or raises: no caller waits for ever on the per-key lock,
\* whichever way the leader's call ends.
CallReturns == \A t \in Threads : (call[t].pc # "idle") ~> (call[t].pc = "idle")

=============================================================================
