------------------------ MODULE ProviderRuntimeProofs ------------------------
(***************************************************************************)
(* Proofs about ProviderRuntime: for any number of threads, keys, retries  *)
(* and faults, the accounts of the runtime balance, a key is fetched by    *)
(* one call at a time, only a success closes an open circuit early, and   *)
(* no window of time is granted more attempts than the budget.             *)
(***************************************************************************)
EXTENDS ProviderRuntime, Sums, SequenceTheorems

-----------------------------------------------------------------------------
(* The inductive invariant *)

CallsTyped == call \in [Threads -> CallState]
KeysTyped ==
  /\ flight \in [CacheKeys -> Threads \cup {NoThread}]
  /\ cache \in [CacheKeys -> Nat]
BooksTyped ==
  /\ tel \in [Counters -> Nat]
  /\ rows \in [Status -> Nat] /\ lost \in [Status -> Nat]
  /\ aborted \in Nat
ControlTyped ==
  /\ now \in Nat
  /\ budget \in Seq(Nat)
  /\ circuit \in [failures: Nat, until: Nat]
  /\ admits \in [1 .. MaxTime -> Nat]
Typed == CallsTyped /\ KeysTyped /\ BooksTyped /\ ControlTyped

\* Past the wait for it, a call holds the lock of its key.
FlightHeld ==
  \A t \in Threads :
    Cacheable(t) /\ call[t].pc \notin {"idle", "queued"} => flight[call[t].key] = t

\* A key that is being fetched has no live entry.
NothingLive == \A t \in InFlight : Cacheable(t) => cache[call[t].key] <= now

\* No clock reading is of the future, and no opening outlasts a cooldown from now.
ClockSound ==
  /\ \A t \in Threads : call[t].stamp <= now
  /\ circuit.until <= now + Cooldown

IInv == Typed /\ Accounted /\ FlightHeld /\ NothingLive /\ ClockSound

-----------------------------------------------------------------------------
(* Counting threads *)

\* What the step of one thread does to the size of a set of threads.
LEMMA MoveCount ==
  ASSUME NEW S, IsFiniteSet(S), NEW T, NEW t, S \ {t} = T \ {t}
  PROVE  /\ Cardinality(T) = Cardinality(S) + (IF t \in T THEN 1 ELSE 0)
                                           - (IF t \in S THEN 1 ELSE 0)
         /\ Cardinality(T) \in Nat
<1> DEFINE R == S \ {t}
<1>1. /\ IsFiniteSet(R)
      /\ Cardinality(R) = IF t \in S THEN Cardinality(S) - 1 ELSE Cardinality(S)
  BY FS_RemoveElement
<1>2. /\ IsFiniteSet(R \cup {t})
      /\ Cardinality(R \cup {t}) = Cardinality(R) + 1
  <2>1. t \notin R
    OBVIOUS
  <2> QED  BY <1>1, <2>1, FS_AddElement
<1>3. T = IF t \in T THEN R \cup {t} ELSE R
  OBVIOUS
<1>4. Cardinality(R) \in Nat /\ Cardinality(S) \in Nat
  BY <1>1, FS_CardinalityType
<1> HIDE DEF R
<1>5. CASE t \in T
  <2>1. Cardinality(T) = Cardinality(R) + 1
    BY <1>2, <1>3, <1>5
  <2> QED  BY <1>1, <1>4, <1>5, <2>1
<1>6. CASE t \notin T
  BY <1>1, <1>3, <1>4, <1>6
<1> QED  BY <1>5, <1>6

\* Sets of threads are finite.
LEMMA ThreadsFinite == ASSUME NEW S \in SUBSET Threads
                       PROVE  IsFiniteSet(S) /\ Cardinality(S) \in Nat
BY RuntimeAssumption, FS_Subset, FS_CardinalityType

FlightPCs == {"loop", "consume", "calling"}

\* The threads in flight, on the wire and about to write a row, when t moves to x.
LEMMA MovedCounts ==
  ASSUME CallsTyped, NEW t \in Threads, NEW x \in CallState, call' = [call EXCEPT ![t] = x]
  PROVE  /\ Cardinality(InFlight)' = Cardinality(InFlight)
              + (IF x.pc \in FlightPCs THEN 1 ELSE 0)
              - (IF call[t].pc \in FlightPCs THEN 1 ELSE 0)
         /\ Cardinality(Calling)' = Cardinality(Calling)
              + (IF x.pc = "calling" THEN 1 ELSE 0)
              - (IF call[t].pc = "calling" THEN 1 ELSE 0)
         /\ \A s \in Status :
              Cardinality(Persisting(s))' = Cardinality(Persisting(s))
                + (IF x.pc = "persist" /\ x.outcome = s THEN 1 ELSE 0)
                - (IF call[t].pc = "persist" /\ call[t].outcome = s THEN 1 ELSE 0)
<1>1. call'[t] = x /\ \A u \in Threads \ {t} : call'[u] = call[u]
  BY DEF CallsTyped
<1>2. IsFiniteSet(InFlight) /\ IsFiniteSet(Calling)
  BY ThreadsFinite DEF InFlight, Calling
<1>3. /\ InFlight \ {t} = InFlight' \ {t}
      /\ t \in InFlight <=> call[t].pc \in FlightPCs
      /\ t \in InFlight' <=> x.pc \in FlightPCs
  BY <1>1 DEF InFlight, FlightPCs
<1>4. /\ Calling \ {t} = Calling' \ {t}
      /\ t \in Calling <=> call[t].pc = "calling"
      /\ t \in Calling' <=> x.pc = "calling"
  BY <1>1 DEF Calling
<1>5. Cardinality(InFlight') = Cardinality(InFlight)
              + (IF x.pc \in FlightPCs THEN 1 ELSE 0)
              - (IF call[t].pc \in FlightPCs THEN 1 ELSE 0)
  <2> HIDE DEF InFlight
  <2> QED  BY <1>2, <1>3, MoveCount
<1>6. Cardinality(Calling') = Cardinality(Calling)
              + (IF x.pc = "calling" THEN 1 ELSE 0)
              - (IF call[t].pc = "calling" THEN 1 ELSE 0)
  BY <1>2, <1>4, MoveCount
<1>7. ASSUME NEW s \in Status
      PROVE  Cardinality(Persisting(s)') = Cardinality(Persisting(s))
                + (IF x.pc = "persist" /\ x.outcome = s THEN 1 ELSE 0)
                - (IF call[t].pc = "persist" /\ call[t].outcome = s THEN 1 ELSE 0)
  <2>1. /\ Persisting(s) \ {t} = Persisting(s)' \ {t}
        /\ t \in Persisting(s) <=> (call[t].pc = "persist" /\ call[t].outcome = s)
        /\ t \in Persisting(s)' <=> (x.pc = "persist" /\ x.outcome = s)
    BY <1>1 DEF Persisting
  <2>2. IsFiniteSet(Persisting(s))
    BY ThreadsFinite DEF Persisting
  <2> QED  BY <2>1, <2>2, MoveCount
<1> QED  BY <1>5, <1>6, <1>7

-----------------------------------------------------------------------------
(* The accounts *)

One(p) == IF p THEN 1 ELSE 0

\* The counter that goes with a row of each status.
CounterOf == [s \in Status |->
  IF s = "CACHE_HIT" THEN "cache_hits" ELSE IF s = "CIRCUIT_OPEN" THEN "circuit_rejections"
  ELSE IF s = "LOCAL_RATE_LIMIT" THEN "rate_limited" ELSE IF s = "FAILED" THEN "failures"
  ELSE "successes"]

\* Rows and counters, status by status.
LEMMA RowsByStatus ==
  RowsMatchCounters <=>
    \A s \in Status : rows[s] + lost[s] + Cardinality(Persisting(s)) = tel[CounterOf[s]]
BY DEF RowsMatchCounters, Status, CounterOf

\* What counting does.
LEMMA Counted ==
  ASSUME tel \in [Counters -> Nat], NEW C, Count(C)
  PROVE  /\ tel' \in [Counters -> Nat]
         /\ \A c \in Counters : tel'[c] = tel[c] + One(c \in C)
BY DEF Count, One

\* What writing a row, or failing to, does.
LEMMA Recorded ==
  ASSUME BooksTyped, NEW s \in Status, RecordRow(s)
  PROVE  /\ rows' \in [Status -> Nat] /\ lost' \in [Status -> Nat]
         /\ \A v \in Status : rows'[v] + lost'[v] = rows[v] + lost[v] + One(v = s)
BY DEF RecordRow, BooksTyped, One

\* Thread t moves to x.
Moves(t, x) == x \in CallState /\ call' = [call EXCEPT ![t] = x]

\* A step writes or loses one row of each status in W.
Writes(W) ==
  /\ rows' \in [Status -> Nat] /\ lost' \in [Status -> Nat]
  /\ \A s \in Status : rows'[s] + lost'[s] = rows[s] + lost[s] + One(s \in W)

\* What a step counts in C, writes in W and aborts (d) agrees with where it
\* takes t.
Balances(t, x, C, W, d) ==
  /\ One("logical_calls" \in C) + One(call[t].pc \in FlightPCs)
       = One("cache_hits" \in C) + One("circuit_rejections" \in C)
         + One("rate_limited" \in C) + One("successes" \in C) + One("failures" \in C)
         + d + One(x.pc \in FlightPCs)
  /\ One("attempts" \in C) + One(call[t].pc = "calling")
       = One("successes" \in C) + One("failures" \in C) + One("retries" \in C)
         + One(x.pc = "calling")
  /\ \A s \in Status :
       One(s \in W) + One(x.pc = "persist" /\ x.outcome = s)
         = One(CounterOf[s] \in C) + One(call[t].pc = "persist" /\ call[t].outcome = s)

\* The accounts balance after a step that balances.
LEMMA AccountsMove ==
  ASSUME IInv, NEW t \in Threads, NEW x, Moves(t, x), NEW C, Count(C), NEW W, Writes(W),
         NEW d \in Nat, aborted' = aborted + d, Balances(t, x, C, W, d)
  PROVE  Accounted' /\ CallsTyped' /\ BooksTyped'
<1>0. /\ CallsTyped /\ BooksTyped /\ Accounted
      /\ CallsTyped' /\ BooksTyped'
  BY Counted DEF IInv, Typed, Moves, CallsTyped, BooksTyped, Writes
<1>1. \A c \in Counters : tel'[c] = tel[c] + One(c \in C) /\ tel[c] \in Nat
  BY <1>0, Counted DEF BooksTyped
<1>2. /\ Cardinality(InFlight)' = Cardinality(InFlight)
           + One(x.pc \in FlightPCs) - One(call[t].pc \in FlightPCs)
      /\ Cardinality(Calling)' = Cardinality(Calling)
           + One(x.pc = "calling") - One(call[t].pc = "calling")
      /\ \A s \in Status :
           Cardinality(Persisting(s))' = Cardinality(Persisting(s))
             + One(x.pc = "persist" /\ x.outcome = s)
             - One(call[t].pc = "persist" /\ call[t].outcome = s)
  BY <1>0, MovedCounts DEF One, Moves
<1>3. /\ Cardinality(InFlight) \in Nat /\ Cardinality(Calling) \in Nat
      /\ \A s \in Status : Cardinality(Persisting(s)) \in Nat
  BY ThreadsFinite DEF InFlight, Calling, Persisting
<1>4. \A p : One(p) \in {0, 1}
  BY DEF One
<1> HIDE DEF One
<1>5. CallsAccounted'
  BY <1>0, <1>1, <1>2, <1>3, <1>4
  DEF Accounted, CallsAccounted, BooksTyped, Counters, Balances
<1>6. AttemptsAccounted'
  BY <1>0, <1>1, <1>2, <1>3, <1>4
  DEF Accounted, AttemptsAccounted, BooksTyped, Counters, Balances
<1>7. RowsMatchCounters'
  <2>1. ASSUME NEW s \in Status
        PROVE  rows'[s] + lost'[s] + Cardinality(Persisting(s))' = tel'[CounterOf[s]]
    <3>1. CounterOf[s] \in Counters
      BY DEF CounterOf, Status, Counters
    <3>2. rows[s] + lost[s] + Cardinality(Persisting(s)) = tel[CounterOf[s]]
      BY <1>0, RowsByStatus DEF Accounted
    <3>3. rows[s] \in Nat /\ lost[s] \in Nat
      BY <1>0 DEF BooksTyped
    <3> QED  BY <1>1, <1>2, <1>3, <1>4, <3>1, <3>2, <3>3 DEF Balances, Writes
  <2>2. CounterOf' = CounterOf
    BY DEF CounterOf
  <2> QED  BY <2>1, <2>2, RowsByStatus DEF RowsMatchCounters, CounterOf, Status
<1> QED  BY <1>0, <1>5, <1>6, <1>7 DEF Accounted

-----------------------------------------------------------------------------
(* How a step moves a thread *)

\* The thread moves on.
LEMMA GotoMoves ==
  ASSUME CallsTyped, NEW t \in Threads, NEW l \in PC, Goto(t, l)
  PROVE  LET x == [call[t] EXCEPT !.pc = l, !.stamp = 0] IN
         /\ Moves(t, x)
         /\ x.pc = l /\ x.key = call[t].key /\ x.stamp = 0 /\ x.outcome = call[t].outcome
<1>1. call[t] \in CallState
  BY DEF CallsTyped
<1> QED  BY <1>1 DEF Goto, Moves, CallState, CallsTyped

\* The call is over but for its row.
LEMMA SettleMoves ==
  ASSUME CallsTyped, NEW t \in Threads, NEW s \in Status, Settle(t, s)
  PROVE  LET x == [call[t] EXCEPT !.pc = "persist", !.outcome = s, !.stamp = 0] IN
         /\ Moves(t, x)
         /\ x.pc = "persist" /\ x.key = call[t].key /\ x.stamp = 0 /\ x.outcome = s
<1>1. call[t] \in CallState
  BY DEF CallsTyped
<1> QED  BY <1>1 DEF Settle, Moves, CallState, CallsTyped, PC

\* The call returns.
LEMMA ReturnMoves ==
  ASSUME CallsTyped, NEW t \in Threads, Return(t)
  PROVE  Moves(t, Idle)
BY RuntimeAssumption DEF Return, Moves, Idle, CallState, PC, Status

\* A step in which t keeps its key and its lock keeps FlightHeld.
LEMMA LockKept ==
  ASSUME IInv, NEW t \in Threads, NEW x, Moves(t, x), UNCHANGED flight,
         x.key = call[t].key,
         x.pc \in {"idle", "queued"} \/ call[t].pc \notin {"idle", "queued"} \/ x.key = NoKey
  PROVE  FlightHeld'
BY DEF IInv, Typed, CallsTyped, FlightHeld, Moves, Cacheable

\* Nobody else loses a lock when a call returns.
LEMMA LockReleased ==
  ASSUME IInv, NEW t \in Threads, Return(t)
  PROVE  FlightHeld' /\ flight' \in [CacheKeys -> Threads \cup {NoThread}]
<1>1. flight' \in [CacheKeys -> Threads \cup {NoThread}]
  BY DEF IInv, Typed, KeysTyped, Return, Release
<1>2. ASSUME NEW u \in Threads, Cacheable(u)', call'[u].pc \notin {"idle", "queued"}
      PROVE  flight'[call'[u].key] = u
  <2>1. u # t /\ call'[u] = call[u]
    BY <1>2 DEF Return, Idle, IInv, Typed, CallsTyped
  <2>2. flight[call[u].key] = u /\ call[u].key \in CacheKeys
    BY <1>2, <2>1 DEF IInv, FlightHeld, Cacheable, Typed, CallsTyped, CallState
  <2> QED  BY <2>1, <2>2 DEF Return, Release
<1> QED  BY <1>1, <1>2 DEF FlightHeld

\* A key in flight stays without a live entry where entries are only dropped.
LEMMA LiveKept ==
  ASSUME IInv, NEW t \in Threads, NEW x, Moves(t, x), UNCHANGED now,
         cache' \in [CacheKeys -> Nat], \A k \in CacheKeys : cache'[k] <= cache[k],
         x.pc \in FlightPCs =>
           /\ x.key = call[t].key
           /\ call[t].pc \in FlightPCs \/ x.key = NoKey \/ cache'[x.key] <= now
  PROVE  NothingLive'
<1> SUFFICES ASSUME NEW u \in InFlight', Cacheable(u)'
             PROVE  cache'[call'[u].key] <= now
  BY DEF NothingLive
<1>1. u \in Threads /\ call'[u].key \in CacheKeys /\ call'[u].pc \in FlightPCs
  BY DEF InFlight, Cacheable, FlightPCs, Moves, IInv, Typed, CallsTyped, CallState
<1>2. CASE u = t
  BY <1>1, <1>2 DEF Moves, IInv, Typed, CallsTyped, KeysTyped, NothingLive, InFlight, Cacheable,
     ControlTyped, FlightPCs
<1>3. CASE u # t
  BY <1>1, <1>3 DEF Moves, IInv, Typed, CallsTyped, KeysTyped, NothingLive, InFlight, Cacheable,
     ControlTyped, FlightPCs
<1> QED  BY <1>2, <1>3

\* What a step of t has to keep, put together.
LEMMA StepKeeps ==
  ASSUME IInv, NEW t \in Threads, NEW x, Moves(t, x), x.stamp <= now,
         NEW C, Count(C), NEW W, Writes(W), NEW d \in Nat, aborted' = aborted + d,
         Balances(t, x, C, W, d),
         UNCHANGED now, KeysTyped', FlightHeld', NothingLive', ControlTyped',
         circuit'.until <= now + Cooldown
  PROVE  IInv'
<1>1. Accounted' /\ CallsTyped' /\ BooksTyped'
  BY AccountsMove
<1>2. ClockSound'
  BY DEF ClockSound, IInv, Typed, CallsTyped, Moves
<1> QED  BY <1>1, <1>2 DEF IInv, Typed

\* Looking at the circuit only clears what is over.
LEMMA SeenSound ==
  ASSUME IInv, NEW n \in Nat, UNCHANGED now,
         circuit' = CircuitSeen(circuit, n)
  PROVE  /\ circuit' \in [failures: Nat, until: Nat]
         /\ circuit'.until <= now + Cooldown
         /\ n <= now => ~(circuit.until > now /\ circuit'.until < circuit.until)
BY RuntimeAssumption DEF IInv, Typed, ControlTyped, ClockSound, CircuitSeen, Closed

\* A failure opens the circuit for a cooldown at most.
LEMMA FailureSound ==
  ASSUME IInv, circuit' = CircuitAfterFailure(circuit, now)
  PROVE  /\ circuit' \in [failures: Nat, until: Nat]
         /\ circuit'.until <= now + Cooldown /\ circuit'.until >= circuit.until
BY RuntimeAssumption DEF IInv, Typed, ControlTyped, ClockSound, CircuitAfterFailure

\* A nonempty set of positions has a first one.
LEMMA FirstPosition ==
  ASSUME NEW n \in Nat, NEW S \in SUBSET (1 .. n), S # {}
  PROVE  Min(S) \in S /\ \A i \in S : Min(S) <= i
<1> DEFINE T == {1 .. i : i \in S}
           R == StrictSubsetOrdering(1 .. n)
<1>1. IsWellFoundedOn(R, FiniteSubsetsOf(1 .. n))
  BY FS_StrictSubsetOrderingWellFounded
<1>2. T \subseteq FiniteSubsetsOf(1 .. n) /\ T # {}
  <2>1. ASSUME NEW i \in S PROVE 1 .. i \in FiniteSubsetsOf(1 .. n)
    <3>1. IsFiniteSet(1 .. i) /\ 1 .. i \subseteq 1 .. n
      BY FS_Interval
    <3> QED  BY <3>1 DEF FiniteSubsetsOf
  <2> QED  BY <2>1
<1>3. PICK J \in T : \A I \in T : ~(<<I, J>> \in R)
  <2> HIDE DEF T, R
  <2> QED  BY <1>1, <1>2, WFMin
<1>4. PICK j \in S : J = 1 .. j
  OBVIOUS
<1>5. ASSUME NEW i \in S PROVE j <= i
  <2> SUFFICES ASSUME i < j PROVE FALSE
    OBVIOUS
  <2>1. 1 .. i \in T /\ 1 .. i \subseteq J /\ 1 .. i # J /\ J \subseteq 1 .. n
    <3>1. j \in J /\ j \notin 1 .. i
      BY <1>4
    <3> QED  BY <1>4, <3>1
  <2> QED  BY <1>3, <2>1 DEF StrictSubsetOrdering
<1> QED  BY <1>5 DEF Min

\* What is left of the budget after pruning is a queue of stamps.
LEMMA PrunedTyped ==
  ASSUME NEW q \in Seq(Nat), NEW n
  PROVE  Pruned(q, n) \in Seq(Nat)
<1> DEFINE live == {i \in DOMAIN q : Fresh(q[i], n)}
<1>1. CASE live = {}
  BY <1>1 DEF Pruned
<1>2. CASE live # {}
  <2>1. Len(q) \in Nat /\ live \in SUBSET (1 .. Len(q))
    OBVIOUS
  <2>2. Min(live) \in 1 .. Len(q)
    <3> HIDE DEF live
    <3> QED  BY <1>2, <2>1, FirstPosition
  <2>3. SubSeq(q, Min(live), Len(q)) \in Seq(Nat)
    <3> HIDE DEF live
    <3> QED  BY <2>1, <2>2, SubSeqProperties
  <2> QED  BY <1>2, <2>3 DEF Pruned
<1> QED  BY <1>1, <1>2

-----------------------------------------------------------------------------
(* The steps *)

\* Nothing was called yet.
LEMMA InitInv == Init => IInv
<1> SUFFICES ASSUME Init PROVE IInv
  OBVIOUS
<1>1. Idle \in CallState
  BY RuntimeAssumption DEF Idle, CallState, PC, Status
<1>2. Typed
  BY <1>1, RuntimeAssumption DEF Init, Typed, CallsTyped, KeysTyped, BooksTyped, ControlTyped, Closed
<1>3. InFlight = {} /\ Calling = {} /\ \A s \in Status : Persisting(s) = {}
  BY DEF Init, InFlight, Calling, Persisting, Idle
<1>4. Accounted
  <2>1. Cardinality(InFlight) = 0 /\ Cardinality(Calling) = 0
        /\ \A s \in Status : Cardinality(Persisting(s)) = 0
    BY <1>3, FS_EmptySet
  <2>2. \A c \in Counters : tel[c] = 0
    BY DEF Init
  <2>3. aborted = 0 /\ \A s \in Status : rows[s] = 0 /\ lost[s] = 0 /\ CounterOf[s] \in Counters
    BY DEF Init, CounterOf, Counters, Status
  <2>4. CallsAccounted /\ AttemptsAccounted
    BY <2>1, <2>2, <2>3 DEF CallsAccounted, AttemptsAccounted, Counters
  <2>5. RowsMatchCounters
    BY <2>1, <2>2, <2>3, RowsByStatus
  <2> QED  BY <2>4, <2>5 DEF Accounted
<1>5. FlightHeld /\ NothingLive
  BY <1>3 DEF Init, FlightHeld, NothingLive, Idle, Cacheable
<1>6. ClockSound
  BY RuntimeAssumption DEF Init, ClockSound, Idle, Closed
<1> QED  BY <1>2, <1>4, <1>5, <1>6 DEF IInv

\* Time passes for all.
LEMMA TickInv == ASSUME IInv, Tick PROVE IInv'
<1>1. Typed'
  BY DEF Tick, IInv, Typed, CallsTyped, KeysTyped, BooksTyped, ControlTyped
<1>2. Accounted'
  BY DEF Tick, IInv, Accounted, CallsAccounted, AttemptsAccounted, RowsMatchCounters,
     InFlight, Calling, Persisting
<1>3. FlightHeld' /\ NothingLive'
  <2>1. \A t \in InFlight : Cacheable(t) => cache[call[t].key] \in Nat
    BY DEF InFlight, Cacheable, IInv, Typed, CallsTyped, CallState, KeysTyped
  <2> QED
    BY <2>1 DEF Tick, IInv, FlightHeld, NothingLive, Typed, ControlTyped, InFlight, Cacheable
<1>4. ClockSound'
  BY RuntimeAssumption DEF Tick, IInv, ClockSound, Typed, ControlTyped, CallsTyped, CallState
<1> QED  BY <1>1, <1>2, <1>3, <1>4 DEF IInv

\* A snapshot only clears an opening that is over.
LEMMA SnapshotInv == ASSUME IInv, Snapshot PROVE IInv'
<1>1. Typed' /\ ClockSound'
  BY SeenSound DEF Snapshot, IInv, Typed, CallsTyped, KeysTyped, BooksTyped, ControlTyped, ClockSound
<1>2. Accounted'
  BY DEF Snapshot, IInv, Accounted, CallsAccounted, AttemptsAccounted, RowsMatchCounters,
     InFlight, Calling, Persisting
<1>3. FlightHeld' /\ NothingLive'
  BY DEF Snapshot, IInv, FlightHeld, NothingLive, InFlight, Cacheable
<1> QED  BY <1>1, <1>2, <1>3 DEF IInv

\* A step that writes no row and counts nothing.
LEMMA Silent ==
  ASSUME IInv
  PROVE  /\ UNCHANGED <<rows, lost>> => Writes({})
         /\ UNCHANGED tel => Count({})
         /\ UNCHANGED aborted => aborted' = aborted + 0
BY DEF IInv, Typed, BooksTyped, Writes, Count, One

\* A call arrives.
LEMMA CallInv ==
  ASSUME IInv, NEW t \in Threads, NEW k \in CacheKeys \cup {NoKey}, Call(t, k)
  PROVE  IInv'
<1> DEFINE x == [call[t] EXCEPT !.key = k, !.pc = IF k = NoKey THEN "enter" ELSE "queued"]
<1>1. /\ Moves(t, x) /\ x.stamp = call[t].stamp /\ x.key = k
      /\ x.pc = IF k = NoKey THEN "enter" ELSE "queued"
  BY DEF Call, Moves, IInv, Typed, CallsTyped, CallState, PC
<1> HIDE DEF x
<1>2. Balances(t, x, {}, {}, 0)
  BY <1>1 DEF Call, Balances, One, FlightPCs
<1>3. FlightHeld'
  BY <1>1 DEF Call, FlightHeld, IInv, Typed, CallsTyped, Moves, Cacheable
<1>4. KeysTyped' /\ ControlTyped' /\ NothingLive'
  BY <1>1, LiveKept DEF Call, IInv, Typed, KeysTyped, ControlTyped, FlightPCs
<1> QED
  BY <1>1, <1>2, <1>3, <1>4, Silent, StepKeeps DEF Call, IInv, ClockSound

\* The lock of a key is free when it is taken.
LEMMA AcquireInv == ASSUME IInv, NEW t \in Threads, AcquireFlight(t) PROVE IInv'
<1> DEFINE x == [call[t] EXCEPT !.pc = "enter", !.stamp = 0]
<1>1. Moves(t, x) /\ x.pc = "enter" /\ x.key = call[t].key /\ x.stamp = 0
  BY GotoMoves DEF AcquireFlight, IInv, Typed, PC
<1> HIDE DEF x
<1>2. Balances(t, x, {}, {}, 0)
  BY <1>1 DEF AcquireFlight, Balances, One, FlightPCs
<1>3. FlightHeld' /\ KeysTyped'
  <2>1. KeysTyped'
    BY DEF AcquireFlight, IInv, Typed, KeysTyped
  <2>2. ASSUME NEW u \in Threads, Cacheable(u)', call'[u].pc \notin {"idle", "queued"}
        PROVE  flight'[call'[u].key] = u
    <3>1. call'[u].key \in CacheKeys
      BY <2>2 DEF Cacheable, Moves, IInv, Typed, CallsTyped, CallState, AcquireFlight, Goto
    <3>2. CASE u = t
      BY <1>1, <3>1, <3>2 DEF Moves, IInv, Typed, CallsTyped, KeysTyped, AcquireFlight
    <3>3. CASE u # t
      BY <1>1, <2>2, <3>1, <3>3, RuntimeAssumption
      DEF Moves, IInv, Typed, CallsTyped, KeysTyped, AcquireFlight, FlightFree, FlightHeld, Cacheable
    <3> QED  BY <3>2, <3>3
  <2> QED  BY <2>1, <2>2 DEF FlightHeld
<1>4. ControlTyped' /\ NothingLive'
  BY <1>1, LiveKept DEF AcquireFlight, IInv, Typed, KeysTyped, ControlTyped, FlightPCs
<1> QED
  BY <1>1, <1>2, <1>3, <1>4, Silent, StepKeeps DEF AcquireFlight, IInv, ClockSound, Typed, ControlTyped

\* A reading is of now when it is made.
LEMMA ReadClockInv == ASSUME IInv, NEW t \in Threads, ReadClock(t) PROVE IInv'
<1> DEFINE x == [call[t] EXCEPT !.stamp = now, !.pc = IF @ = "enter" THEN "admit" ELSE "consume"]
<1>1. /\ Moves(t, x) /\ x.stamp = now /\ x.key = call[t].key
      /\ x.pc = IF call[t].pc = "enter" THEN "admit" ELSE "consume"
  BY DEF ReadClock, Moves, IInv, Typed, CallsTyped, CallState, PC, ControlTyped
<1> HIDE DEF x
<1>2. Balances(t, x, {}, {}, 0)
  BY <1>1 DEF ReadClock, Balances, One, FlightPCs
<1>3. FlightHeld'
  BY <1>1, LockKept DEF ReadClock
<1>4. KeysTyped' /\ ControlTyped' /\ NothingLive'
  BY <1>1, LiveKept DEF ReadClock, IInv, Typed, KeysTyped, ControlTyped, FlightPCs
<1>5. x.stamp <= now /\ circuit'.until <= now + Cooldown
  BY <1>1 DEF ReadClock, IInv, ClockSound, Typed, ControlTyped
<1>6. Count({}) /\ Writes({}) /\ aborted' = aborted + 0 /\ now' = now
  BY Silent DEF ReadClock
<1> QED
  BY <1>1, <1>2, <1>3, <1>4, <1>5, <1>6, StepKeeps

\* An answer from the cache: one row, no flight.
LEMMA CacheHitInv == ASSUME IInv, NEW t \in Threads, CacheHit(t) PROVE IInv'
<1> DEFINE C == {"logical_calls", "cache_hits"}
           W == {"CACHE_HIT"}
<1>1. Moves(t, Idle) /\ Idle.stamp = 0 /\ Idle.pc = "idle"
  BY ReturnMoves DEF CacheHit, IInv, Typed, Idle
<1>2. Writes(W)
  BY Recorded DEF CacheHit, IInv, Typed, Writes, Status
<1>3. Balances(t, Idle, C, W, 0)
  BY <1>1 DEF CacheHit, Balances, One, FlightPCs, CounterOf, Status
<1>4. FlightHeld' /\ KeysTyped'
  BY LockReleased DEF CacheHit, IInv, Typed, KeysTyped
<1>5. ControlTyped' /\ NothingLive'
  BY <1>1, LiveKept DEF CacheHit, IInv, Typed, KeysTyped, ControlTyped, FlightPCs
<1>6. 0 <= now /\ circuit'.until <= now + Cooldown
  BY DEF CacheHit, IInv, ClockSound, Typed, ControlTyped
<1>7. Count(C) /\ aborted' = aborted + 0 /\ now' = now
  BY DEF CacheHit, IInv, Typed, BooksTyped
<1> QED
  BY <1>1, <1>2, <1>3, <1>4, <1>5, <1>6, <1>7, StepKeeps

\* Dropping a stale entry.
LEMMA Dropped ==
  ASSUME IInv, NEW t \in Threads, DropExpired(t)
  PROVE  /\ cache' \in [CacheKeys -> Nat]
         /\ \A k \in CacheKeys : cache'[k] <= cache[k]
         /\ Cacheable(t) => cache'[call[t].key] = 0
BY DEF DropExpired, IInv, Typed, KeysTyped, CallsTyped, CallState, Cacheable

\* A call the circuit turns away: one row, no flight.
LEMMA RejectInv == ASSUME IInv, NEW t \in Threads, RejectByCircuit(t) PROVE IInv'
<1> DEFINE C == {"logical_calls", "circuit_rejections"}
           W == {"CIRCUIT_OPEN"}
<1>1. Moves(t, Idle) /\ Idle.stamp = 0 /\ Idle.pc = "idle"
  BY ReturnMoves DEF RejectByCircuit, IInv, Typed, Idle
<1>2. Writes(W)
  BY Recorded DEF RejectByCircuit, IInv, Typed, Writes, Status
<1>3. Balances(t, Idle, C, W, 0)
  BY <1>1 DEF RejectByCircuit, Balances, One, FlightPCs, CounterOf, Status
<1>4. FlightHeld' /\ KeysTyped' /\ NothingLive'
  BY <1>1, LockReleased, Dropped, LiveKept DEF RejectByCircuit, KeysTyped, FlightPCs
<1>5. call[t].stamp \in Nat
  BY DEF IInv, Typed, CallsTyped, CallState
<1>6. ControlTyped' /\ circuit'.until <= now + Cooldown
  BY <1>5, SeenSound DEF RejectByCircuit, IInv, Typed, ControlTyped
<1>7. Count(C) /\ aborted' = aborted + 0 /\ now' = now /\ 0 <= now
  BY DEF RejectByCircuit, IInv, Typed, BooksTyped, ControlTyped
<1> QED
  BY <1>1, <1>2, <1>3, <1>4, <1>6, <1>7, StepKeeps

\* A call goes on to fetch: its key has no live entry.
LEMMA AdmitInv == ASSUME IInv, NEW t \in Threads, Admit(t) PROVE IInv'
<1> DEFINE x == [call[t] EXCEPT !.pc = "loop", !.stamp = 0]
           C == {"logical_calls"}
<1>1. Moves(t, x) /\ x.pc = "loop" /\ x.key = call[t].key /\ x.stamp = 0
  BY GotoMoves DEF Admit, IInv, Typed, PC
<1> HIDE DEF x
<1>2. Writes({}) /\ aborted' = aborted + 0 /\ Count(C) /\ now' = now /\ 0 <= now
  BY Silent DEF Admit, IInv, Typed, ControlTyped
<1>3. Balances(t, x, C, {}, 0)
  BY <1>1 DEF Admit, Balances, One, FlightPCs, CounterOf, Status
<1>4. FlightHeld'
  BY <1>1, LockKept DEF Admit
<1>5. KeysTyped' /\ NothingLive'
  <2>1. /\ cache' \in [CacheKeys -> Nat] /\ \A k \in CacheKeys : cache'[k] <= cache[k]
        /\ x.key = NoKey \/ cache'[x.key] <= now
    BY <1>1, <1>2, Dropped DEF Admit, Cacheable
  <2> QED  BY <1>1, <1>2, <2>1, LiveKept DEF Admit, IInv, Typed, KeysTyped
<1>6. call[t].stamp \in Nat
  BY DEF IInv, Typed, CallsTyped, CallState
<1>7. ControlTyped' /\ circuit'.until <= now + Cooldown
  BY <1>6, SeenSound DEF Admit, IInv, Typed, ControlTyped
<1> QED
  BY <1>1, <1>2, <1>3, <1>4, <1>5, <1>7, StepKeeps

\* The control plane raises before the first attempt.
LEMMA AdmitFaultInv == ASSUME IInv, NEW t \in Threads, AdmitFault(t) PROVE IInv'
<1> DEFINE C == {"logical_calls"}
<1>1. Moves(t, Idle) /\ Idle.stamp = 0 /\ Idle.pc = "idle"
  BY ReturnMoves DEF AdmitFault, IInv, Typed, Idle
<1>2. Writes({}) /\ aborted' = aborted + 1 /\ Count(C) /\ now' = now /\ 0 <= now
  BY Silent DEF AdmitFault, IInv, Typed, ControlTyped
<1>3. Balances(t, Idle, C, {}, 1)
  BY <1>1 DEF AdmitFault, Balances, One, FlightPCs, CounterOf, Status
<1>4. FlightHeld' /\ KeysTyped' /\ NothingLive'
  BY <1>1, LockReleased, Dropped, LiveKept DEF AdmitFault, KeysTyped, FlightPCs
<1>5. ControlTyped' /\ circuit'.until <= now + Cooldown
  BY DEF AdmitFault, IInv, Typed, ControlTyped, ClockSound
<1> QED
  BY <1>1, <1>2, <1>3, <1>4, <1>5, StepKeeps

\* An attempt is granted: the call goes on the wire.
LEMMA ConsumeInv == ASSUME IInv, NEW t \in Threads, ConsumeBudget(t) PROVE IInv'
<1> DEFINE x == [call[t] EXCEPT !.pc = "calling", !.stamp = 0]
           C == {"attempts"}
<1>1. Moves(t, x) /\ x.pc = "calling" /\ x.key = call[t].key /\ x.stamp = 0
  BY GotoMoves DEF ConsumeBudget, IInv, Typed, PC
<1> HIDE DEF x
<1>2. Writes({}) /\ aborted' = aborted + 0 /\ Count(C) /\ now' = now /\ 0 <= now
  BY Silent DEF ConsumeBudget, IInv, Typed, ControlTyped
<1>3. call[t].pc = "consume"
  BY DEF ConsumeBudget
<1>4. Balances(t, x, C, {}, 0)
  BY <1>1, <1>3 DEF Balances, One, FlightPCs, CounterOf, Status
<1>5. FlightHeld' /\ KeysTyped' /\ NothingLive'
  BY <1>1, <1>2, <1>3, LockKept, LiveKept DEF ConsumeBudget, IInv, Typed, KeysTyped, FlightPCs
<1>6. ControlTyped' /\ circuit'.until <= now + Cooldown
  <2>1. call[t].stamp \in Nat
    BY DEF IInv, Typed, CallsTyped, CallState
  <2>2. Append(Pruned(budget, call[t].stamp), call[t].stamp) \in Seq(Nat)
    BY <2>1, PrunedTyped DEF IInv, Typed, ControlTyped
  <2>3. admits' \in [1 .. MaxTime -> Nat]
    <3>1. admits' = [admits EXCEPT ![now] = @ + 1] /\ admits \in [1 .. MaxTime -> Nat]
      BY DEF ConsumeBudget, IInv, Typed, ControlTyped
    <3>2. now \in 1 .. MaxTime => admits[now] + 1 \in Nat
      BY <3>1
    <3> QED  BY <3>1, <3>2
  <2>4. budget' \in Seq(Nat)
    BY <2>2 DEF ConsumeBudget
  <2> QED  BY <2>3, <2>4 DEF ConsumeBudget, IInv, Typed, ControlTyped, ClockSound
<1> QED
  BY <1>1, <1>2, <1>4, <1>5, <1>6, StepKeeps

\* The budget turns a call away, at its first attempt or at a retry.
LEMMA RateLimitInv == ASSUME IInv, NEW t \in Threads, RateLimit(t) PROVE IInv'
<1> DEFINE x == [call[t] EXCEPT !.pc = "persist", !.outcome = "LOCAL_RATE_LIMIT", !.stamp = 0]
           C == {"rate_limited"}
<1>1. /\ Moves(t, x) /\ x.pc = "persist" /\ x.key = call[t].key /\ x.stamp = 0
      /\ x.outcome = "LOCAL_RATE_LIMIT"
  BY SettleMoves DEF RateLimit, IInv, Typed, Status
<1> HIDE DEF x
<1>2. Writes({}) /\ aborted' = aborted + 0 /\ Count(C) /\ now' = now /\ 0 <= now
  BY Silent DEF RateLimit, IInv, Typed, ControlTyped
<1>3. call[t].pc = "consume"
  BY DEF RateLimit
<1>4. Balances(t, x, C, {}, 0)
  BY <1>1, <1>3 DEF Balances, One, FlightPCs, CounterOf, Status
<1>5. FlightHeld' /\ KeysTyped' /\ NothingLive'
  BY <1>1, <1>2, <1>3, LockKept, LiveKept DEF RateLimit, IInv, Typed, KeysTyped, FlightPCs
<1>6. ControlTyped' /\ circuit'.until <= now + Cooldown
  BY PrunedTyped DEF RateLimit, IInv, Typed, ControlTyped, ClockSound
<1> QED
  BY <1>1, <1>2, <1>4, <1>5, <1>6, StepKeeps

\* The control plane raises at an attempt.
LEMMA ConsumeFaultInv == ASSUME IInv, NEW t \in Threads, ConsumeFault(t) PROVE IInv'
<1>1. Moves(t, Idle) /\ Idle.stamp = 0 /\ Idle.pc = "idle"
  BY ReturnMoves DEF ConsumeFault, IInv, Typed, Idle
<1>2. Writes({}) /\ aborted' = aborted + 1 /\ Count({}) /\ now' = now /\ 0 <= now
  BY Silent DEF ConsumeFault, IInv, Typed, ControlTyped
<1>3. Balances(t, Idle, {}, {}, 1)
  BY <1>1 DEF ConsumeFault, Balances, One, FlightPCs
<1>4. FlightHeld' /\ KeysTyped' /\ NothingLive'
  BY <1>1, LockReleased, LiveKept DEF ConsumeFault, IInv, Typed, KeysTyped, FlightPCs
<1>5. ControlTyped' /\ circuit'.until <= now + Cooldown
  BY DEF ConsumeFault, IInv, Typed, ControlTyped, ClockSound
<1> QED
  BY <1>1, <1>2, <1>3, <1>4, <1>5, StepKeeps

\* An attempt failed and another follows.
LEMMA RetryInv == ASSUME IInv, NEW t \in Threads, Retry(t) PROVE IInv'
<1> DEFINE x == [call[t] EXCEPT !.pc = "loop", !.attempt = @ + 1]
           C == {"retries"}
<1>1. /\ Moves(t, x) /\ x.pc = "loop" /\ x.key = call[t].key /\ x.stamp = call[t].stamp
  BY RuntimeAssumption
  DEF Retry, RetriesLeft, Moves, IInv, Typed, CallsTyped, CallState, PC
<1> HIDE DEF x
<1>2. Writes({}) /\ aborted' = aborted + 0 /\ Count(C) /\ now' = now /\ x.stamp <= now
  BY <1>1, Silent DEF Retry, IInv, ClockSound
<1>3. call[t].pc = "calling"
  BY DEF Retry
<1>4. Balances(t, x, C, {}, 0)
  BY <1>1, <1>3 DEF Balances, One, FlightPCs, CounterOf, Status
<1>5. FlightHeld' /\ KeysTyped' /\ NothingLive'
  BY <1>1, <1>2, <1>3, LockKept, LiveKept DEF Retry, IInv, Typed, KeysTyped, FlightPCs
<1>6. ControlTyped' /\ circuit'.until <= now + Cooldown
  BY DEF Retry, IInv, Typed, ControlTyped, ClockSound
<1> QED
  BY <1>1, <1>2, <1>4, <1>5, <1>6, StepKeeps

\* The last attempt failed.
LEMMA FailInv == ASSUME IInv, NEW t \in Threads, Fail(t) PROVE IInv'
<1> DEFINE x == [call[t] EXCEPT !.pc = "persist", !.outcome = "FAILED", !.stamp = 0]
           C == {"failures"}
<1>1. /\ Moves(t, x) /\ x.pc = "persist" /\ x.key = call[t].key /\ x.stamp = 0
      /\ x.outcome = "FAILED"
  BY SettleMoves DEF Fail, IInv, Typed, Status
<1> HIDE DEF x
<1>2. Writes({}) /\ aborted' = aborted + 0 /\ Count(C) /\ now' = now /\ 0 <= now
  BY Silent DEF Fail, IInv, Typed, ControlTyped
<1>3. call[t].pc = "calling"
  BY DEF Fail
<1>4. Balances(t, x, C, {}, 0)
  BY <1>1, <1>3 DEF Balances, One, FlightPCs, CounterOf, Status
<1>5. FlightHeld' /\ KeysTyped' /\ NothingLive'
  BY <1>1, <1>2, <1>3, LockKept, LiveKept DEF Fail, IInv, Typed, KeysTyped, FlightPCs
<1>6. ControlTyped' /\ circuit'.until <= now + Cooldown
  BY FailureSound DEF Fail, IInv, Typed, ControlTyped
<1> QED
  BY <1>1, <1>2, <1>4, <1>5, <1>6, StepKeeps

\* What a success stores is live for nobody in flight: the lock of its key is held.
LEMMA SucceedInv == ASSUME IInv, NEW t \in Threads, Succeed(t) PROVE IInv'
<1> DEFINE x == [call[t] EXCEPT !.pc = "persist", !.outcome = "SUCCESS", !.stamp = 0]
           C == {"successes"}
<1>1. /\ Moves(t, x) /\ x.pc = "persist" /\ x.key = call[t].key /\ x.stamp = 0
      /\ x.outcome = "SUCCESS"
  BY SettleMoves DEF Succeed, IInv, Typed, Status
<1> HIDE DEF x
<1>2. Writes({}) /\ aborted' = aborted + 0 /\ Count(C) /\ now' = now /\ 0 <= now
  BY Silent DEF Succeed, IInv, Typed, ControlTyped
<1>3. call[t].pc = "calling"
  BY DEF Succeed
<1>4. Balances(t, x, C, {}, 0)
  BY <1>1, <1>3 DEF Balances, One, FlightPCs, CounterOf, Status
<1>5. FlightHeld' /\ KeysTyped'
  <2>1. FlightHeld'
    BY <1>1, <1>3, LockKept DEF Succeed
  <2>2. now + TTL \in Nat
    BY RuntimeAssumption DEF IInv, Typed, ControlTyped
  <2> QED  BY <2>1, <2>2 DEF Succeed, IInv, Typed, KeysTyped
<1>6. NothingLive'
  <2> SUFFICES ASSUME NEW u \in InFlight', Cacheable(u)'
               PROVE  cache'[call'[u].key] <= now'
    BY DEF NothingLive
  <2>1. u # t /\ u \in InFlight /\ call'[u] = call[u] /\ Cacheable(u)
    BY <1>1 DEF InFlight, Moves, IInv, Typed, CallsTyped, Cacheable
  <2>2. call[u].key \in CacheKeys /\ cache[call[u].key] <= now
    BY <2>1 DEF IInv, NothingLive, InFlight, Typed, CallsTyped, CallState, Cacheable
  <2>3. Cacheable(t) => call[u].key # call[t].key
    BY <1>3, <2>1 DEF IInv, FlightHeld, InFlight, Cacheable
  <2> QED
    BY <1>2, <2>1, <2>2, <2>3 DEF Succeed, IInv, Typed, KeysTyped
<1>7. ControlTyped' /\ circuit'.until <= now + Cooldown
  BY RuntimeAssumption DEF Succeed, IInv, Typed, ControlTyped, Closed
<1> QED
  BY <1>1, <1>2, <1>4, <1>5, <1>6, <1>7, StepKeeps

\* The control plane raises after the call was counted: its row is lost.
LEMMA SettleFaultInv ==
  ASSUME IInv, NEW t \in Threads, NEW s \in {"SUCCESS", "FAILED"}, NEW c \in Counters,
         c = CounterOf[s], SettleFault(t, c, s)
  PROVE  IInv'
<1>1. Moves(t, Idle) /\ Idle.stamp = 0 /\ Idle.pc = "idle"
  BY ReturnMoves DEF SettleFault, IInv, Typed, Idle
<1>2. Writes({s})
  BY DEF SettleFault, IInv, Typed, BooksTyped, Writes, Status, One
<1>3. aborted' = aborted + 0 /\ Count({c}) /\ now' = now /\ 0 <= now
  BY DEF SettleFault, IInv, Typed, ControlTyped, BooksTyped
<1>4. Balances(t, Idle, {c}, {s}, 0)
  BY <1>1 DEF SettleFault, Balances, One, FlightPCs, CounterOf, Status
<1>5. FlightHeld' /\ KeysTyped' /\ NothingLive'
  BY <1>1, LockReleased, LiveKept DEF SettleFault, IInv, Typed, KeysTyped, FlightPCs
<1>6. ControlTyped' /\ circuit'.until <= now + Cooldown
  BY DEF SettleFault, IInv, Typed, ControlTyped, ClockSound
<1> QED
  BY <1>1, <1>2, <1>3, <1>4, <1>5, <1>6, StepKeeps

\* The row of a finished call is written or lost.
LEMMA PersistInv == ASSUME IInv, NEW t \in Threads, Persist(t) PROVE IInv'
<1> DEFINE s == call[t].outcome
<1>1. Moves(t, Idle) /\ Idle.stamp = 0 /\ Idle.pc = "idle"
  BY ReturnMoves DEF Persist, IInv, Typed, Idle
<1>2. s \in Status
  BY DEF IInv, Typed, CallsTyped, CallState
<1>3. Writes({s})
  BY <1>2, Recorded DEF Persist, IInv, Typed, Writes
<1>4. aborted' = aborted + 0 /\ Count({}) /\ now' = now /\ 0 <= now
  BY Silent DEF Persist, IInv, Typed, ControlTyped
<1>5. Balances(t, Idle, {}, {s}, 0)
  BY <1>1 DEF Persist, Balances, One, FlightPCs
<1>6. FlightHeld' /\ KeysTyped' /\ NothingLive'
  BY <1>1, LockReleased, LiveKept DEF Persist, IInv, Typed, KeysTyped, FlightPCs
<1>7. ControlTyped' /\ circuit'.until <= now + Cooldown
  BY DEF Persist, IInv, Typed, ControlTyped, ClockSound
<1> QED
  BY <1>1, <1>3, <1>4, <1>5, <1>6, <1>7, StepKeeps

-----------------------------------------------------------------------------
(* The budget *)

\* The positions of the queue that hold a stamp of c or later.
Stamped(q, c) == {i \in DOMAIN q : q[i] >= c}

\* The ticks of the window that opens at n, and the attempts granted in it.
Span(n) == {m \in 1 .. MaxTime : n <= m /\ m < n + Window - Skew}
Granted(n) == SumOf(admits, Span(n))

\* A reading is used before it is Skew ticks old.
StampsRecent ==
  \A t \in Threads : call[t].pc \in {"admit", "consume"} => now <= call[t].stamp + Skew

\* Each attempt granted in a window that is still open is a stamp in the queue,
\* which is never longer than the limit; a closed window keeps its count.
BudgetInv ==
  /\ StampsRecent
  /\ Len(budget) <= Limit
  /\ \A n \in 1 .. MaxTime :
       /\ Granted(n) <= Limit
       /\ now < n + Window - Skew => Granted(n) <= Cardinality(Stamped(budget, n - Skew))

\* As many positions as the queue is long, at most.
LEMMA StampedCount ==
  ASSUME NEW q \in Seq(Nat), NEW c
  PROVE  /\ IsFiniteSet(Stamped(q, c)) /\ Cardinality(Stamped(q, c)) \in Nat
         /\ Cardinality(Stamped(q, c)) <= Len(q)
<1>1. DOMAIN q = 1 .. Len(q) /\ Len(q) \in Nat
  BY LenProperties
<1>2. IsFiniteSet(1 .. Len(q)) /\ Cardinality(1 .. Len(q)) = Len(q)
  BY <1>1, FS_Interval
<1>3. Stamped(q, c) \in SUBSET (1 .. Len(q))
  BY <1>1 DEF Stamped
<1> QED  BY <1>2, <1>3, FS_Subset, FS_CardinalityType

\* Pruning drops no stamp that is still inside the window, and the queue gets
\* no longer.
LEMMA PrunedKeeps ==
  ASSUME NEW q \in Seq(Nat), NEW n \in Nat, NEW c \in Int, n - Window < c
  PROVE  /\ Len(Pruned(q, n)) <= Len(q)
         /\ Cardinality(Stamped(q, c)) <= Cardinality(Stamped(Pruned(q, n), c))
<1> DEFINE live == {i \in DOMAIN q : Fresh(q[i], n)}
           p == Pruned(q, n)
<1>1. /\ DOMAIN q = 1 .. Len(q) /\ Len(q) \in Nat
      /\ \A i \in 1 .. Len(q) : q[i] \in Nat
      /\ p \in Seq(Nat)
  BY LenProperties, PrunedTyped
<1>2. Stamped(q, c) \subseteq live
  BY <1>1, RuntimeAssumption DEF Stamped, Fresh
<1>3. CASE live = {}
  <2>1. p = <<>> /\ Len(p) = 0
    BY <1>3 DEF Pruned
  <2>2. Stamped(q, c) = {}
    BY <1>2, <1>3
  <2>3. Cardinality(Stamped(q, c)) = 0
    BY <2>2, FS_EmptySet
  <2>4. Cardinality(Stamped(p, c)) \in Nat
    BY <1>1, StampedCount
  <2> HIDE DEF p
  <2> QED  BY <1>1, <2>1, <2>3, <2>4 DEF p
<1>4. CASE live # {}
  <2> DEFINE j == Min(live)
  <2>1. j \in 1 .. Len(q) /\ \A i \in live : j <= i
    <3>1. live \in SUBSET (1 .. Len(q))
      BY <1>1
    <3> HIDE DEF live
    <3> QED  BY <1>1, <1>4, <3>1, FirstPosition
  <2>2. p = SubSeq(q, j, Len(q))
    BY <1>4 DEF Pruned
  <2> HIDE DEF j, live, p
  <2>3. /\ Len(p) = Len(q) - j + 1
        /\ \A i \in 1 .. Len(q) - j + 1 : p[i] = q[j + i - 1]
    BY <1>1, <2>1, <2>2, SubSeqProperties
  <2>4. DOMAIN p = 1 .. Len(p)
    BY <1>1, LenProperties
  <2> DEFINE f == [i \in Stamped(q, c) |-> i - j + 1]
  <2>5. f \in Injection(Stamped(q, c), Stamped(p, c))
    <3>1. ASSUME NEW i \in Stamped(q, c) PROVE i - j + 1 \in Stamped(p, c)
      <4>1. i \in 1 .. Len(q) /\ q[i] >= c /\ j <= i
        BY <1>1, <1>2, <2>1 DEF Stamped
      <4>2. i - j + 1 \in 1 .. Len(q) - j + 1 /\ j + (i - j + 1) - 1 = i
        BY <1>1, <2>1, <4>1
      <4>3. p[i - j + 1] = q[i]
        BY <2>3, <4>2
      <4> QED  BY <2>3, <2>4, <4>1, <4>2, <4>3 DEF Stamped
    <3>2. ASSUME NEW i \in Stamped(q, c), NEW k \in Stamped(q, c), i - j + 1 = k - j + 1
          PROVE  i = k
      BY <1>1, <2>1, <3>2 DEF Stamped
    <3>3. f \in [Stamped(q, c) -> Stamped(p, c)]
      BY <3>1
    <3>4. \A i, k \in Stamped(q, c) : f[i] = f[k] => i = k
      BY <3>2
    <3> HIDE DEF f
    <3> QED  BY <3>3, <3>4 DEF Injection, IsInjective
  <2>6. Cardinality(Stamped(q, c)) <= Cardinality(Stamped(p, c))
    <3> HIDE DEF f
    <3> QED  BY <1>1, <2>5, StampedCount, FS_Injection
  <2> QED  BY <1>1, <2>1, <2>3, <2>6 DEF p
<1> QED  BY <1>3, <1>4

\* A stamp that is put behind the queue is one more.
LEMMA AppendCounts ==
  ASSUME NEW q \in Seq(Nat), NEW s \in Nat, NEW c \in Int
  PROVE  /\ Len(Append(q, s)) = Len(q) + 1
         /\ Cardinality(Stamped(Append(q, s), c))
              = Cardinality(Stamped(q, c)) + (IF s >= c THEN 1 ELSE 0)
<1>1. /\ Append(q, s) \in Seq(Nat) /\ Len(Append(q, s)) = Len(q) + 1 /\ Len(q) \in Nat
      /\ \A i \in 1 .. Len(q) : Append(q, s)[i] = q[i] /\ q[i] \in Nat
      /\ Append(q, s)[Len(q) + 1] = s
      /\ DOMAIN q = 1 .. Len(q) /\ DOMAIN Append(q, s) = 1 .. Len(q) + 1
  OBVIOUS
<1>2. IsFiniteSet(Stamped(q, c)) /\ Cardinality(Stamped(q, c)) \in Nat
  BY StampedCount
<1>3. Len(q) + 1 \notin Stamped(q, c)
  BY <1>1 DEF Stamped
<1>4. CASE s >= c
  <2>1. Stamped(Append(q, s), c) = Stamped(q, c) \cup {Len(q) + 1}
    BY <1>1, <1>4 DEF Stamped
  <2>2. Cardinality(Stamped(q, c) \cup {Len(q) + 1}) = Cardinality(Stamped(q, c)) + 1
    BY <1>2, <1>3, FS_AddElement
  <2> QED  BY <1>1, <1>4, <2>1, <2>2
<1>5. CASE ~(s >= c)
  <2>1. Stamped(Append(q, s), c) = Stamped(q, c)
    BY <1>1, <1>5 DEF Stamped
  <2> QED  BY <1>1, <1>2, <1>5, <2>1
<1> QED  BY <1>4, <1>5

\* The ticks of a window are finitely many and its count is a number.
LEMMA GrantedType ==
  ASSUME admits \in [1 .. MaxTime -> Nat], NEW n
  PROVE  Granted(n) \in Nat /\ IsFiniteSet(Span(n)) /\ \A m \in Span(n) : admits[m] \in Nat
<1>1. IsFiniteSet(1 .. MaxTime)
  BY RuntimeAssumption, FS_Interval
<1>2. Span(n) \in SUBSET (1 .. MaxTime)
  BY DEF Span
<1>3. IsFiniteSet(Span(n)) /\ \A m \in Span(n) : admits[m] \in Nat
  BY <1>1, <1>2, FS_Subset
<1> QED  BY <1>3, SumType DEF Granted

\* An attempt granted now counts in the windows that now lies in, and in no other.
LEMMA GrantCounts ==
  ASSUME admits \in [1 .. MaxTime -> Nat], admits' = [admits EXCEPT ![now] = @ + 1],
         NEW n
  PROVE  Granted(n)' = Granted(n) + (IF now \in Span(n) THEN 1 ELSE 0)
<1>1. Granted(n) \in Nat /\ IsFiniteSet(Span(n)) /\ \A m \in Span(n) : admits[m] \in Nat
  BY GrantedType
<1>2. Granted(n)' = SumOf(admits', Span(n))
  BY DEF Granted, Span
<1>3. CASE now \in Span(n)
  <2>1. now \in 1 .. MaxTime
    BY <1>3 DEF Span
  <2>2. admits'[now] = admits[now] + 1 /\ \A m \in Span(n) \ {now} : admits'[m] = admits[m]
    BY <2>1 DEF Span
  <2>3. admits[now] \in Nat /\ admits'[now] \in Nat
    BY <1>1, <1>3, <2>2
  <2>4. SumOf(admits', Span(n)) + admits[now] = SumOf(admits, Span(n)) + admits'[now]
    <3> DEFINE f == admits
               g == admits'
               S == Span(n)
    <3>1. /\ IsFiniteSet(S) /\ \A m \in S : f[m] \in Nat
          /\ now \in S /\ g[now] \in Nat /\ \A m \in S \ {now} : g[m] = f[m]
      BY <1>1, <1>3, <2>2, <2>3
    <3> HIDE DEF f, g, S
    <3>2. SumOf(g, S) + f[now] = SumOf(f, S) + g[now]
      BY <3>1, SumChange, SMTT(60)
    <3> QED  BY <3>2 DEF f, g, S
  <2>5. \A m \in Span(n) : admits'[m] \in Nat
    BY <1>1, <2>2, <2>3
  <2>6. SumOf(admits', Span(n)) \in Nat
    BY <1>1, <2>5, SumType
  <2> QED  BY <1>1, <1>2, <1>3, <2>2, <2>3, <2>4, <2>6 DEF Granted
<1>4. CASE now \notin Span(n)
  <2>1. \A m \in Span(n) : admits'[m] = admits[m]
    BY <1>4 DEF Span
  <2>2. SumOf(admits', Span(n)) = SumOf(admits, Span(n))
    BY <1>1, <2>1, SumAgree
  <2> QED  BY <1>1, <1>2, <1>4, <2>2 DEF Granted
<1> QED  BY <1>3, <1>4

\* Only reading the clock gives a thread a stamp to use, and time stops for it.
LEMMA RecentKept ==
  ASSUME IInv, StampsRecent, [Next]_vars
  PROVE  StampsRecent'
<1>1. ASSUME Tick PROVE StampsRecent'
  BY <1>1, RuntimeAssumption DEF Tick, StampsRecent, IInv, Typed, CallsTyped, CallState, ControlTyped
<1>2. ASSUME NEW t \in Threads, ReadClock(t) PROVE StampsRecent'
  BY <1>2, RuntimeAssumption
  DEF ReadClock, StampsRecent, IInv, Typed, CallsTyped, CallState, ControlTyped
<1>3. ASSUME UNCHANGED now,
             \A t \in Threads : call'[t].pc \in {"admit", "consume"} => call'[t] = call[t]
      PROVE  StampsRecent'
  BY <1>3 DEF StampsRecent
<1>4. ASSUME NEW t \in Threads, Step(t), ~ReadClock(t) PROVE StampsRecent'
  <2>1. /\ UNCHANGED now
        /\ \A u \in Threads : u # t => call'[u] = call[u]
        /\ call'[t].pc \notin {"admit", "consume"}
    BY <1>4 DEF Step, AcquireFlight, CacheHit, RejectByCircuit, Admit, AdmitFault, ConsumeBudget,
       RateLimit, ConsumeFault, Retry, Fail, Succeed, SettleFault, Persist, Goto, Settle, Return,
       Idle, IInv, Typed, CallsTyped, CallState
  <2> QED  BY <1>3, <2>1
<1>5. ASSUME NEW t \in Threads, NEW k \in CacheKeys \cup {NoKey}, Call(t, k) PROVE StampsRecent'
  <2>1. /\ UNCHANGED now
        /\ \A u \in Threads : u # t => call'[u] = call[u]
        /\ call'[t].pc \notin {"admit", "consume"}
    BY <1>5 DEF Call, IInv, Typed, CallsTyped, CallState
  <2> QED  BY <1>3, <2>1
<1>6. ASSUME Snapshot \/ UNCHANGED vars PROVE StampsRecent'
  BY <1>6 DEF Snapshot, vars, StampsRecent
<1> QED  BY <1>1, <1>2, <1>4, <1>5, <1>6 DEF Next

\* Every granted attempt puts its stamp into the queue, and stamps leave it
\* only when the windows they count in are over.
LEMMA ConsumeKeepsBudget ==
  ASSUME IInv, BudgetInv, StampsRecent', NEW t \in Threads, ConsumeBudget(t)
  PROVE  BudgetInv'
<1> DEFINE s == call[t].stamp
           q == Pruned(budget, s)
<1>1. /\ s \in Nat /\ s <= now /\ now <= s + Skew /\ now \in Nat
      /\ budget \in Seq(Nat) /\ admits \in [1 .. MaxTime -> Nat]
  BY DEF ConsumeBudget, IInv, Typed, CallsTyped, CallState, ControlTyped, ClockSound,
     BudgetInv, StampsRecent
<1>2. /\ Len(q) < Limit /\ budget' = Append(q, s) /\ now' = now
      /\ admits' = [admits EXCEPT ![now] = @ + 1]
  BY DEF ConsumeBudget
<1>3. q \in Seq(Nat) /\ Len(q) \in Nat
  BY <1>1, PrunedTyped
<1> HIDE DEF s, q
<1>4. Len(budget') <= Limit /\ budget' \in Seq(Nat)
  <2>1. Len(budget') = Len(q) + 1 /\ budget' \in Seq(Nat)
    BY <1>1, <1>2, <1>3
  <2> QED  BY <1>2, <1>3, <2>1, RuntimeAssumption
<1>5. ASSUME NEW n \in 1 .. MaxTime
      PROVE  /\ Granted(n)' <= Limit
             /\ now < n + Window - Skew =>
                  Granted(n)' <= Cardinality(Stamped(budget', n - Skew))
  <2>1. /\ Granted(n)' = Granted(n) + (IF now \in Span(n) THEN 1 ELSE 0)
        /\ Granted(n) \in Nat
    BY <1>1, <1>2, GrantCounts, GrantedType
  <2>2. Granted(n) <= Limit
    BY DEF BudgetInv
  <2>3. /\ Cardinality(Stamped(budget', n - Skew)) <= Len(budget')
        /\ Cardinality(Stamped(budget', n - Skew)) \in Nat /\ Len(budget') \in Nat
    BY <1>4, StampedCount
  <2>4. ASSUME now < n + Window - Skew
        PROVE  Granted(n)' <= Cardinality(Stamped(budget', n - Skew))
    <3>1. Granted(n) <= Cardinality(Stamped(budget, n - Skew))
      BY <2>4 DEF BudgetInv
    <3>2. n - Skew \in Int /\ s - Window < n - Skew
      BY <1>1, <2>4, RuntimeAssumption
    <3>3. Cardinality(Stamped(budget, n - Skew)) <= Cardinality(Stamped(q, n - Skew))
      BY <1>1, <3>2, PrunedKeeps DEF q
    <3>4. Cardinality(Stamped(budget', n - Skew))
            = Cardinality(Stamped(q, n - Skew)) + (IF s >= n - Skew THEN 1 ELSE 0)
      BY <1>1, <1>2, <1>3, <3>2, AppendCounts
    <3>5. now \in Span(n) => s >= n - Skew
      BY <1>1, RuntimeAssumption DEF Span
    <3>6. /\ Cardinality(Stamped(budget, n - Skew)) \in Nat
          /\ Cardinality(Stamped(q, n - Skew)) \in Nat
      BY <1>1, <1>3, StampedCount
    <3> QED  BY <2>1, <3>1, <3>3, <3>4, <3>5, <3>6
  <2>5. now \in Span(n) => now < n + Window - Skew
    BY DEF Span
  <2>6. Granted(n)' \in Nat
    BY <2>1
  <2>7. CASE now \in Span(n)
    BY <1>4, <2>3, <2>4, <2>5, <2>6, <2>7, RuntimeAssumption
  <2>8. CASE now \notin Span(n)
    BY <2>1, <2>2, <2>4, <2>8
  <2> QED  BY <2>7, <2>8
<1> QED  BY <1>2, <1>4, <1>5 DEF BudgetInv

\* A call that is turned away prunes the queue and counts nowhere.
LEMMA RateLimitKeepsBudget ==
  ASSUME IInv, BudgetInv, StampsRecent', NEW t \in Threads, RateLimit(t)
  PROVE  BudgetInv'
<1> DEFINE s == call[t].stamp
           q == Pruned(budget, s)
<1>1. s \in Nat /\ s <= now /\ now \in Nat /\ budget \in Seq(Nat) /\ admits \in [1 .. MaxTime -> Nat]
  BY DEF IInv, Typed, CallsTyped, CallState, ControlTyped, ClockSound
<1>2. budget' = q /\ now' = now /\ admits' = admits
  BY DEF RateLimit
<1>3. q \in Seq(Nat) /\ Len(q) \in Nat /\ Len(budget) \in Nat
  BY <1>1, PrunedTyped
<1> HIDE DEF s, q
<1>4. Len(budget') <= Limit
  <2>1. s - Window < s - Window + 1 /\ s - Window + 1 \in Int
    BY <1>1, RuntimeAssumption
  <2>2. Len(q) <= Len(budget)
    BY <1>1, <2>1, PrunedKeeps DEF q
  <2> QED  BY <1>2, <1>3, <2>2, RuntimeAssumption DEF BudgetInv
<1>5. ASSUME NEW n \in 1 .. MaxTime
      PROVE  /\ Granted(n)' <= Limit
             /\ now < n + Window - Skew =>
                  Granted(n)' <= Cardinality(Stamped(budget', n - Skew))
  <2>1. Granted(n)' = Granted(n) /\ Granted(n) \in Nat
    BY <1>1, <1>2, GrantedType DEF Granted, Span
  <2>2. ASSUME now < n + Window - Skew
        PROVE  Granted(n) <= Cardinality(Stamped(q, n - Skew))
    <3>1. Granted(n) <= Cardinality(Stamped(budget, n - Skew))
      BY <2>2 DEF BudgetInv
    <3>2. n - Skew \in Int /\ s - Window < n - Skew
      BY <1>1, <2>2, RuntimeAssumption
    <3>3. Cardinality(Stamped(budget, n - Skew)) <= Cardinality(Stamped(q, n - Skew))
      BY <1>1, <3>2, PrunedKeeps DEF q
    <3>4. /\ Cardinality(Stamped(budget, n - Skew)) \in Nat
          /\ Cardinality(Stamped(q, n - Skew)) \in Nat
      BY <1>1, <1>3, StampedCount
    <3> QED  BY <2>1, <3>1, <3>3, <3>4
  <2> QED  BY <1>2, <2>1, <2>2 DEF BudgetInv
<1> QED  BY <1>2, <1>4, <1>5 DEF BudgetInv

\* Where neither the queue nor the counts move, windows can only close.
LEMMA BudgetStill ==
  ASSUME IInv, BudgetInv, StampsRecent', UNCHANGED <<budget, admits>>,
         now' = now \/ now' = now + 1
  PROVE  BudgetInv'
<1>1. \A n \in 1 .. MaxTime : Granted(n)' = Granted(n)
  BY DEF Granted, Span
<1>2. now \in Nat
  BY DEF IInv, Typed, ControlTyped
<1>3. ASSUME NEW n \in 1 .. MaxTime
      PROVE  /\ Granted(n)' <= Limit
             /\ now' < n + Window - Skew =>
                  Granted(n)' <= Cardinality(Stamped(budget', n - Skew))
  <2>1. now' < n + Window - Skew => now < n + Window - Skew
    BY <1>2, RuntimeAssumption
  <2> QED  BY <1>1, <2>1 DEF BudgetInv
<1> QED  BY <1>3 DEF BudgetInv

\* Nothing was granted yet.
LEMMA InitBudget == Init => BudgetInv
<1> SUFFICES ASSUME Init PROVE BudgetInv
  OBVIOUS
<1>1. StampsRecent /\ Len(budget) <= Limit /\ budget \in Seq(Nat)
  BY RuntimeAssumption DEF Init, StampsRecent, Idle
<1>2. admits \in [1 .. MaxTime -> Nat]
  BY DEF Init
<1>3. ASSUME NEW n \in 1 .. MaxTime PROVE Granted(n) = 0
  <2>1. IsFiniteSet(Span(n))
    BY <1>2, GrantedType
  <2>2. \A m \in Span(n) : admits[m] = 0
    BY DEF Init, Span
  <2> QED  BY <2>1, <2>2, SumZero DEF Granted
<1>4. ASSUME NEW n \in 1 .. MaxTime
      PROVE  Granted(n) <= Limit /\ Granted(n) <= Cardinality(Stamped(budget, n - Skew))
  <2>1. Cardinality(Stamped(budget, n - Skew)) \in Nat
    BY <1>1, StampedCount
  <2> QED  BY <1>3, <2>1, RuntimeAssumption
<1> QED  BY <1>1, <1>4 DEF BudgetInv

\* Every step of every thread and of the clock keeps the budget.
LEMMA NextBudget == IInv /\ BudgetInv /\ [Next]_vars => BudgetInv'
<1> SUFFICES ASSUME IInv, BudgetInv, [Next]_vars PROVE BudgetInv'
  OBVIOUS
<1>1. StampsRecent'
  BY RecentKept DEF BudgetInv
<1>2. ASSUME NEW t \in Threads, ConsumeBudget(t) \/ RateLimit(t) PROVE BudgetInv'
  BY <1>1, <1>2, ConsumeKeepsBudget, RateLimitKeepsBudget
<1>3. ASSUME NEW t \in Threads, Step(t), ~ConsumeBudget(t), ~RateLimit(t) PROVE BudgetInv'
  <2>1. UNCHANGED <<budget, admits, now>>
    BY <1>3 DEF Step, AcquireFlight, ReadClock, CacheHit, RejectByCircuit, Admit, AdmitFault,
       ConsumeFault, Retry, Fail, Succeed, SettleFault, Persist
  <2> QED  BY <1>1, <2>1, BudgetStill
<1>4. ASSUME Tick \/ Snapshot \/ UNCHANGED vars PROVE BudgetInv'
  BY <1>1, <1>4, BudgetStill DEF Tick, Snapshot, vars
<1>5. ASSUME NEW t \in Threads, NEW k \in CacheKeys \cup {NoKey}, Call(t, k) PROVE BudgetInv'
  BY <1>1, <1>5, BudgetStill DEF Call
<1> QED  BY <1>2, <1>3, <1>4, <1>5 DEF Next

-----------------------------------------------------------------------------
(* The theorems *)

\* Every step of every thread and of the clock keeps the invariant.
LEMMA NextInv == IInv /\ [Next]_vars => IInv'
<1> SUFFICES ASSUME IInv, [Next]_vars PROVE IInv'
  OBVIOUS
<1>1. CASE Tick \/ Snapshot
  BY <1>1, TickInv, SnapshotInv
<1>2. ASSUME NEW t \in Threads, NEW k \in CacheKeys \cup {NoKey}, Call(t, k) PROVE IInv'
  BY <1>2, CallInv
<1>3. ASSUME NEW t \in Threads, Step(t) PROVE IInv'
  <2>1. CounterOf["SUCCESS"] = "successes" /\ CounterOf["FAILED"] = "failures"
    BY DEF CounterOf, Status
  <2>2. ASSUME SettleFault(t, "successes", "SUCCESS") \/ SettleFault(t, "failures", "FAILED")
        PROVE  IInv'
    BY <2>1, <2>2, SettleFaultInv DEF Counters
  <2> QED
    BY <1>3, <2>2, AcquireInv, ReadClockInv, CacheHitInv, RejectInv, AdmitInv, AdmitFaultInv,
       ConsumeInv, RateLimitInv, ConsumeFaultInv, RetryInv, FailInv, SucceedInv, PersistInv
    DEF Step
<1>4. CASE UNCHANGED vars
  BY <1>4 DEF vars, IInv, Typed, CallsTyped, KeysTyped, BooksTyped, ControlTyped, Accounted,
     CallsAccounted, AttemptsAccounted, RowsMatchCounters, InFlight, Calling, Persisting,
     FlightHeld, NothingLive, ClockSound, Cacheable
<1> QED  BY <1>1, <1>2, <1>3, <1>4 DEF Next

\* The accounts of execute() balance between any two steps of any threads.
THEOREM InvHolds == Spec => []IInv
BY InitInv, NextInv, PTL DEF Spec

\* Types of the process state and of the rows, for any number of threads and keys.
THEOREM TypesHold == Spec => []TypeOK
<1>1. IInv => TypeOK
  BY DEF IInv, Typed, CallsTyped, KeysTyped, BooksTyped, ControlTyped, TypeOK
<1> QED  BY <1>1, InvHolds, PTL

\* Calls, attempts and rows agree with the counters that seven places of
\* provider_runtime.py move under separate acquisitions of a lock, for any
\* number of threads, retries, control-plane exceptions and lost rows (Accounted).
THEOREM AccountsBalance == Spec => []Accounted
<1>1. IInv => Accounted
  BY DEF IInv
<1> QED  BY <1>1, InvHolds, PTL

\* The single-flight lock is enough: a key is fetched by one call at a time and
\* never while it has a live entry, for any number of threads (NoRedundantFetch).
THEOREM FetchedOnce == Spec => []NoRedundantFetch
<1>1. IInv => NoRedundantFetch
  BY DEF IInv, NothingLive, NoRedundantFetch, FlightHeld, InFlight, Cacheable
<1> QED  BY <1>1, InvHolds, PTL

\* A stale clock reading never closes an open circuit, whatever the threshold,
\* the cooldown and the delays: only a success does (EarlyCloseNeedsSuccess).
THEOREM ClosesOnSuccess == Spec => EarlyCloseNeedsSuccess
<1>1. ASSUME IInv, [Next]_vars
      PROVE  [(circuit.until > now /\ circuit'.until < circuit.until)
                => tel'["successes"] > tel["successes"]]_vars
  <2> SUFFICES ASSUME circuit.until > now, circuit'.until < circuit.until
               PROVE  tel'["successes"] > tel["successes"]
    OBVIOUS
  <2>1. circuit'.until # circuit.until
    BY <1>1 DEF IInv, Typed, ControlTyped
  <2>2. CASE Snapshot
    BY <1>1, <2>2, SeenSound DEF Snapshot, IInv, Typed, ControlTyped
  <2>3. ASSUME NEW t \in Threads, RejectByCircuit(t) \/ Admit(t)
        PROVE  FALSE
    <3>1. call[t].stamp \in Nat /\ call[t].stamp <= now
      BY <1>1 DEF IInv, Typed, CallsTyped, CallState, ClockSound
    <3> QED  BY <1>1, <2>3, <3>1, SeenSound DEF RejectByCircuit, Admit
  <2>4. ASSUME NEW t \in Threads, Fail(t) PROVE FALSE
    BY <1>1, <2>4, FailureSound DEF Fail, IInv, Typed, ControlTyped
  <2>5. ASSUME NEW t \in Threads, Succeed(t)
        PROVE  tel'["successes"] > tel["successes"]
    BY <1>1, <2>5, Counted DEF Succeed, IInv, Typed, BooksTyped, One, Counters
  <2> QED
    BY <1>1, <2>1, <2>2, <2>3, <2>4, <2>5
    DEF Next, Step, Tick, Call, AcquireFlight, ReadClock, CacheHit, AdmitFault, ConsumeBudget,
        RateLimit, ConsumeFault, Retry, SettleFault, Persist, vars
<1> QED  BY <1>1, InvHolds, PTL DEF Spec, EarlyCloseNeedsSuccess

\* The budget holds in real time, for any number of threads and retries and
\* whatever the limit, the window and the delays: pruning only the head of the
\* queue and stamping before consuming grant no window of Window - Skew ticks
\* more than Limit attempts (BudgetHolds).
THEOREM BudgetIsKept == Spec => []BudgetHolds
<1>1. BudgetInv => BudgetHolds
  <2> SUFFICES ASSUME BudgetInv, NEW n \in 1 .. MaxTime
               PROVE  MapThenSumSet(LAMBDA m : admits[m],
                        {m \in 1 .. MaxTime : n <= m /\ m < n + Window - Skew}) <= Limit
    BY DEF BudgetHolds
  <2>1. MapThenSumSet(LAMBDA m : admits[m],
          {m \in 1 .. MaxTime : n <= m /\ m < n + Window - Skew}) = Granted(n)
    BY DEF Granted, SumOf, Span
  <2>2. Granted(n) <= Limit
    BY DEF BudgetInv
  <2> QED  BY <2>1, <2>2
<1> QED  BY <1>1, InvHolds, InitInv, InitBudget, NextInv, NextBudget, PTL DEF Spec

=============================================================================
