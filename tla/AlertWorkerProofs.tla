-------------------------- MODULE AlertWorkerProofs --------------------------
(***************************************************************************)
(* Proofs about AlertWorker: for any number of events, ingest requests,    *)
(* drains and managers, an event is new once, and a delivered or dead-     *)
(* lettered row earned its status, although no writer claims the row; and  *)
(* the columns keep their types, whatever overlapping writes merge.        *)
(***************************************************************************)
EXTENDS AlertWorker, FiniteSetTheorems, TLAPS

-----------------------------------------------------------------------------
(* The inductive invariant *)

\* The types, without the bound on the occurrences.
DrainType ==
  [pc: {"idle", "send", "mark", "write"}, todo: SUBSET Alerts, item: SUBSET Alerts,
   ok: BOOLEAN, loaded: Row]
ReqType == [pc: {"idle", "insert", "bump", "done"}, event: SUBSET Alerts, loaded: Nat]
MgrType == [pc: {"idle", "write", "done"}, item: SUBSET Alerts, loaded: Row]

IngestTypes ==
  /\ count \in [Alerts -> Nat] /\ answered \in [Alerts -> Nat] /\ news \in [Alerts -> Nat]
  /\ req \in [Requests -> ReqType]

DeliveryTypes ==
  /\ row \in [Alerts -> Row]
  /\ tries \in [Alerts -> 0 .. MaxAttempts] /\ twice \in [Alerts -> Nat]
  /\ drain \in [Drains -> DrainType] /\ mgr \in [Managers -> MgrType]

\* A row exists once somebody was told that it is new, and nobody else was.
IngestSound ==
  /\ \A a \in Alerts : IF count[a] > 0 THEN answered[a] > 0 /\ news[a] = 1
                       ELSE answered[a] = 0 /\ news[a] = 0
  /\ \A q \in Requests : req[q].pc = "bump" => \A a \in req[q].event : count[a] > 0

\* Drains that sent an alert and have not marked it.
Pending(a) == {d \in Drains : a \in drain[d].item}

\* n attempts, and those still to be counted, were made since the last requeue.
Tried(a, n) ==
  tries[a] >= MaxAttempts \/ n + Cardinality(Pending(a)) <= tries[a] + twice[a]

DrainSound(c) ==
  /\ c.ok => c.item \subseteq accepted
  /\ c.item # {} => c.pc \in {"mark", "write"}
  /\ \A a, b \in c.item : a = b
  /\ c.pc = "write" => \A a \in c.item : Tried(a, c.loaded.attempts)

RowSound(a) ==
  /\ row[a].status = "delivered" => a \in accepted
  /\ row[a].status = "dead_letter" => tries[a] + twice[a] >= MaxAttempts
  /\ Tried(a, row[a].attempts)

DeliverySound ==
  /\ \A d \in Drains : DrainSound(drain[d])
  /\ \A a \in Alerts : RowSound(a)

IInv == IngestTypes /\ DeliveryTypes /\ IngestSound /\ DeliverySound

-----------------------------------------------------------------------------
(* Ingest *)

\* The row of a new alert.
LEMMA NewRowType == NewRow \in Row
BY WorkerAssumption DEF NewRow, Row, DeliveryStatus, Null

\* Nobody has brought an event yet, and nothing was sent.
LEMMA InitInv == Init => IInv
<1> SUFFICES ASSUME Init PROVE IInv
  OBVIOUS
<1> USE WorkerAssumption DEF Init
<1>1. NewRow \in Row
  BY NewRowType
<1>2. IdleDrain \in DrainType /\ IdleDrain.item = {} /\ IdleDrain.pc = "idle" /\ ~IdleDrain.ok
  BY <1>1 DEF IdleDrain, DrainType
<1>3. IngestTypes /\ DeliveryTypes
  BY <1>1, <1>2 DEF IngestTypes, DeliveryTypes, ReqType, MgrType
<1>4. IngestSound
  BY DEF IngestSound
<1>5. \A a \in Alerts : RowSound(a)
  <2> SUFFICES ASSUME NEW a \in Alerts PROVE RowSound(a)
    OBVIOUS
  <2>1. Pending(a) = {}
    BY <1>2 DEF Pending
  <2>2. Cardinality(Pending(a)) = 0
    BY <2>1, FS_EmptySet
  <2> QED  BY <2>2 DEF RowSound, Tried, NewRow
<1>6. \A d \in Drains : DrainSound(drain[d])
  BY <1>2 DEF DrainSound
<1> QED  BY <1>3, <1>4, <1>5, <1>6 DEF IInv, DeliverySound

\* What an ingest request does is nothing to the delivery.
LEMMA DeliveryKept ==
  ASSUME IInv, UNCHANGED delivery
  PROVE  DeliveryTypes' /\ DeliverySound'
<1>1. UNCHANGED <<row, drain, mgr, accepted, tries, twice, faults>>
  BY DEF delivery
<1>2. \A a : Pending(a)' = Pending(a)
  BY <1>1 DEF Pending
<1>3. \A a, n : Tried(a, n)' = Tried(a, n)
  BY <1>1, <1>2 DEF Tried
<1>4. \A d \in Drains : DrainSound(drain[d])'
  BY <1>1, <1>3 DEF IInv, DeliverySound, DrainSound
<1>5. \A a \in Alerts : RowSound(a)'
  BY <1>1, <1>3 DEF IInv, DeliverySound, RowSound
<1> QED  BY <1>1, <1>4, <1>5 DEF IInv, DeliveryTypes, DeliverySound

\* Two requests may answer for one event, but only one of them inserted it.
LEMMA IngestInv == ASSUME IInv, NEW q \in Requests, Ingest(q) PROVE IInv'
<1>1. CASE Find(q)
  <2>1. PICK a \in Alerts :
          req' = [req EXCEPT ![q] = [pc |-> IF count[a] = 0 THEN "insert" ELSE "bump",
                                     event |-> {a}, loaded |-> count[a]]]
    BY <1>1 DEF Find
  <2>2. UNCHANGED <<count, answered, news>> /\ UNCHANGED delivery
    BY <1>1 DEF Find
  <2>3. IngestTypes'
    BY <2>1, <2>2 DEF IInv, IngestTypes, ReqType
  <2>4. IngestSound'
    BY <2>1, <2>2 DEF IInv, IngestTypes, ReqType, IngestSound
  <2> QED  BY <2>2, <2>3, <2>4, DeliveryKept DEF IInv
<1>2. CASE Insert(q) \/ BumpOccurrence(q)
  <2>1. PICK a \in req[q].event, new \in BOOLEAN :
          /\ Answer(q, a, new)
          /\ new => count[a] = 0 /\ count' = [count EXCEPT ![a] = 1]
          /\ ~new => /\ count[a] > 0
                     /\ \/ count' = count
                        \/ count' = [count EXCEPT ![a] = req[q].loaded + 1]
    <3>1. CASE Insert(q)
      <4>1. PICK a \in req[q].event :
              /\ count' = IF Conflicts(a) THEN count ELSE [count EXCEPT ![a] = 1]
              /\ Answer(q, a, ~Conflicts(a))
        BY <3>1 DEF Insert
      <4>2. a \in Alerts /\ count[a] \in Nat
        BY DEF IInv, IngestTypes, ReqType
      <4>3. CASE Conflicts(a)
        BY <4>1, <4>3 DEF Conflicts
      <4>4. CASE ~Conflicts(a)
        <5>1. Answer(q, a, TRUE)
          BY <4>1, <4>4 DEF Answer
        <5>2. count[a] = 0 /\ count' = [count EXCEPT ![a] = 1]
          BY <4>1, <4>2, <4>4 DEF Conflicts
        <5> QED  BY <5>1, <5>2, Zenon
      <4> QED  BY <4>3, <4>4
    <3>2. CASE BumpOccurrence(q)
      BY <3>2 DEF BumpOccurrence, IInv, IngestSound
    <3> QED  BY <1>2, <3>1, <3>2
  <2>2. UNCHANGED delivery
    BY <1>2 DEF Insert, BumpOccurrence
  <2>3. /\ req' = [req EXCEPT ![q] = [pc |-> "done", event |-> {}, loaded |-> 0]]
        /\ answered' = [answered EXCEPT ![a] = @ + 1]
        /\ news' = IF new THEN [news EXCEPT ![a] = @ + 1] ELSE news
    BY <2>1 DEF Answer
  <2>4. a \in Alerts /\ req[q].loaded \in Nat
    BY DEF IInv, IngestTypes, ReqType
  <2>5. count' \in [Alerts -> Nat] /\ count'[a] > 0 /\ \A b \in Alerts \ {a} : count'[b] = count[b]
    BY <2>1, <2>4 DEF IInv, IngestTypes
  <2>6. /\ answered' \in [Alerts -> Nat] /\ answered'[a] = answered[a] + 1
        /\ \A b \in Alerts \ {a} : answered'[b] = answered[b]
    BY <2>3, <2>4 DEF IInv, IngestTypes
  <2>7. /\ news' \in [Alerts -> Nat] /\ news'[a] = IF new THEN news[a] + 1 ELSE news[a]
        /\ \A b \in Alerts \ {a} : news'[b] = news[b]
    BY <2>3, <2>4 DEF IInv, IngestTypes
  <2>8. IngestTypes'
    BY <2>3, <2>5, <2>6, <2>7 DEF IInv, IngestTypes, ReqType
  <2>9. answered'[a] > 0 /\ news'[a] = 1
    <3>1. answered[a] \in Nat /\ count[a] \in Nat
      BY <2>4 DEF IInv, IngestTypes
    <3> QED  BY <2>1, <2>4, <2>6, <2>7, <3>1 DEF IInv, IngestSound
  <2>10. IngestSound'
    <3>1. ASSUME NEW b \in Alerts
          PROVE  (IF count[b] > 0 THEN answered[b] > 0 /\ news[b] = 1
                  ELSE answered[b] = 0 /\ news[b] = 0)'
      BY <2>5, <2>6, <2>7, <2>9 DEF IInv, IngestSound
    <3>2. ASSUME NEW p \in Requests, req'[p].pc = "bump", NEW b \in req'[p].event
          PROVE  count'[b] > 0
      <4>1. p # q /\ req'[p] = req[p]
        BY <2>3, <3>2 DEF IInv, IngestTypes
      <4>2. b \in Alerts /\ count[b] > 0
        BY <3>2, <4>1 DEF IInv, IngestTypes, ReqType, IngestSound
      <4> QED  BY <2>5, <4>2
    <3> QED  BY <3>1, <3>2 DEF IngestSound
  <2> QED  BY <2>2, <2>8, <2>10, DeliveryKept DEF IInv
<1> QED  BY <1>1, <1>2 DEF Ingest

\* What the delivery does is nothing to the ingest.
LEMMA IngestKept == ASSUME IInv, UNCHANGED ingest PROVE IngestTypes' /\ IngestSound'
BY DEF ingest, IInv, IngestTypes, IngestSound

-----------------------------------------------------------------------------
(* Delivery *)

\* The backoff stays below its cap.
LEMMA DelayType == ASSUME NEW n \in Nat PROVE Delay(n + 1) \in 0 .. RetryCap
<1>1. 2 ^ n \in Nat
  <2>1. IsFiniteSet(1 .. n) /\ Cardinality(1 .. n) = n
    BY FS_Interval
  <2>2. Cardinality(SUBSET (1 .. n)) = 2 ^ n /\ IsFiniteSet(SUBSET (1 .. n))
    BY <2>1, FS_SUBSET
  <2> QED  BY <2>2, FS_CardinalityType
<1>2. PICK d \in Nat : d = RetryBase * 2 ^ (n + 1 - 1)
  BY <1>1, WorkerAssumption
<1> QED  BY <1>2, WorkerAssumption DEF Delay

\* The counts of pending marks are numbers.
LEMMA PendingFinite ==
  ASSUME NEW a PROVE IsFiniteSet(Pending(a)) /\ Cardinality(Pending(a)) \in Nat
<1>1. Pending(a) \subseteq Drains
  BY DEF Pending
<1> QED  BY <1>1, WorkerAssumption, FS_Subset, FS_CardinalityType

\* Fewer pending marks, and more sends marked twice, make no count too high.
LEMMA TriedShrinks ==
  ASSUME NEW a, UNCHANGED tries, Pending(a)' \subseteq Pending(a), NEW n \in Nat, Tried(a, n),
         tries[a] \in Nat, twice[a] \in Nat, twice'[a] \in Nat, twice'[a] >= twice[a]
  PROVE  Tried(a, n)'
<1>1. /\ Cardinality(Pending(a)') <= Cardinality(Pending(a))
      /\ Cardinality(Pending(a)) \in Nat /\ Cardinality(Pending(a)') \in Nat
  BY PendingFinite, FS_Subset, FS_CardinalityType
<1> QED  BY <1>1 DEF Tried

\* A drain moves on without a row being written: it drops or keeps its item.
LEMMA DrainMove ==
  ASSUME IInv, NEW d \in Drains, NEW r \in DrainType, drain' = [drain EXCEPT ![d] = r],
         UNCHANGED <<row, mgr, accepted, tries, twice>>, UNCHANGED ingest,
         r.item \subseteq drain[d].item,
         r.ok => r.item \subseteq accepted,
         r.item # {} => r.pc \in {"mark", "write"}, \A a, b \in r.item : a = b,
         r.pc = "write" => \A a \in r.item : Tried(a, r.loaded.attempts)
  PROVE  IInv'
<1>1. DeliveryTypes'
  BY DEF IInv, DeliveryTypes
<1>2. \A e \in Drains : drain'[e] = IF e = d THEN r ELSE drain[e]
  BY DEF IInv, DeliveryTypes
<1>3. \A a : Pending(a)' \subseteq Pending(a)
  BY <1>2 DEF Pending
<1>4. \A a \in Alerts, n \in Nat : Tried(a, n) => Tried(a, n)'
  BY <1>3, TriedShrinks DEF IInv, DeliveryTypes
<1>5. ASSUME NEW e \in Drains PROVE DrainSound(drain[e])'
  <2>1. PICK c \in DrainType : c = drain'[e]
    BY <1>1 DEF DeliveryTypes
  <2>2. /\ c.ok => c.item \subseteq accepted
        /\ c.item # {} => c.pc \in {"mark", "write"}
        /\ \A a, b \in c.item : a = b
        /\ c.pc = "write" => \A a \in c.item : Tried(a, c.loaded.attempts)
    BY <1>2, <2>1 DEF IInv, DeliverySound, DrainSound
  <2>3. \A a \in c.item : a \in Alerts
    BY DEF DrainType
  <2>4. c.loaded.attempts \in Nat
    BY DEF DrainType, Row
  <2> QED  BY <1>4, <2>1, <2>2, <2>3, <2>4 DEF DrainSound
<1>6. ASSUME NEW a \in Alerts PROVE RowSound(a)'
  <2>1. row[a].attempts \in Nat
    BY DEF IInv, DeliveryTypes, Row
  <2> QED  BY <1>4, <2>1 DEF IInv, DeliverySound, RowSound
<1> QED  BY <1>1, <1>5, <1>6, IngestKept DEF IInv, DeliverySound

\* An idle drain holds nothing.
LEMMA IdleType == IdleDrain \in DrainType /\ IdleDrain.item = {} /\ ~IdleDrain.ok
BY WorkerAssumption DEF IdleDrain, DrainType, NewRow, Row, DeliveryStatus, Null

\* due_alerts, the load of a mark, a mark that raises, the end of a drain.
LEMMA ListInv == ASSUME IInv, NEW d \in Drains, List(d) PROVE IInv'
<1>1. PICK T \in SUBSET Alerts : T = {a \in Alerts : Due(a)}
  OBVIOUS
<1>2. PICK r : r = [IdleDrain EXCEPT !.pc = "send", !.todo = T]
  OBVIOUS
<1>3. r \in DrainType /\ r.item = {} /\ r.ok = FALSE /\ r.pc = "send"
  BY <1>2, IdleType DEF IdleDrain, DrainType
<1>4. drain' = [drain EXCEPT ![d] = r] /\ UNCHANGED <<row, mgr, accepted, tries, twice>> /\ UNCHANGED ingest
  BY <1>1, <1>2 DEF List
<1> QED  BY <1>3, <1>4, DrainMove

\* A mark loads the row, which counts no more than was tried.
LEMMA MarkLoadInv == ASSUME IInv, NEW d \in Drains, MarkLoad(d) PROVE IInv'
<1>1. PICK a \in drain[d].item :
        drain' = [drain EXCEPT ![d] = [@ EXCEPT !.pc = "write", !.loaded = row[a]]]
  BY DEF MarkLoad
<1>2. PICK c \in DrainType, x \in Row : c = drain[d] /\ x = row[a] /\ DrainSound(c)
  BY <1>1 DEF IInv, DeliveryTypes, DrainType, DeliverySound
<1>3. a \in Alerts /\ a \in c.item /\ Tried(a, x.attempts)
  BY <1>1, <1>2 DEF DrainType, IInv, DeliverySound, RowSound
<1>4. PICK r : r = [c EXCEPT !.pc = "write", !.loaded = x]
  OBVIOUS
<1>5. r \in DrainType /\ r.pc = "write" /\ r.item = c.item /\ r.ok = c.ok /\ r.loaded = x
  BY <1>4 DEF DrainType
<1>6. drain' = [drain EXCEPT ![d] = r] /\ UNCHANGED <<row, mgr, accepted, tries, twice>> /\ UNCHANGED ingest
  BY <1>1, <1>2, <1>4 DEF MarkLoad
<1>7. \A b \in r.item : b = a
  BY <1>2, <1>3, <1>5 DEF DrainSound
<1> QED  BY <1>2, <1>3, <1>5, <1>6, <1>7, DrainMove DEF DrainSound

\* A mark that raises and writes nothing becomes the mark of a failure, or ends the
\* drain.
LEMMA MarkFailsInv == ASSUME IInv, NEW d \in Drains, MarkFails(d) PROVE IInv'
<1>1. PICK c \in DrainType : c = drain[d] /\ DrainSound(c)
  BY DEF IInv, DeliveryTypes, DeliverySound
<1>2. UNCHANGED <<row, mgr, accepted, tries, twice>> /\ UNCHANGED ingest
  BY DEF MarkFails, AfterRaise
<1>3. CASE c.ok
  <2>1. PICK x \in Row : x = NewRow
    BY NewRowType
  <2>2. PICK r : r = [c EXCEPT !.pc = "mark", !.ok = FALSE, !.loaded = x]
    OBVIOUS
  <2>3. r \in DrainType /\ r.pc = "mark" /\ r.item = c.item /\ r.ok = FALSE
    BY <2>2 DEF DrainType
  <2>4. drain' = [drain EXCEPT ![d] = r]
    BY <1>1, <1>3, <2>1, <2>2 DEF MarkFails, AfterRaise
  <2>5. \A a, b \in r.item : a = b
    BY <1>1, <2>3 DEF DrainSound
  <2> QED  BY <1>1, <1>2, <2>3, <2>4, <2>5, DrainMove
<1>4. CASE ~c.ok
  <2>1. drain' = [drain EXCEPT ![d] = IdleDrain]
    BY <1>1, <1>4 DEF MarkFails, AfterRaise
  <2>2. IdleDrain.pc = "idle"
    BY DEF IdleDrain
  <2> QED  BY <1>2, <2>1, <2>2, IdleType, DrainMove
<1> QED  BY <1>3, <1>4

\* A drain that ends or is killed forgets what it has not marked.
LEMMA EndInv == ASSUME IInv, NEW d \in Drains, Finish(d) \/ Kill(d) PROVE IInv'
<1>1. /\ drain' = [drain EXCEPT ![d] = IdleDrain]
      /\ UNCHANGED <<row, mgr, accepted, tries, twice>> /\ UNCHANGED ingest
  BY DEF Finish, Kill
<1>2. IdleDrain.pc = "idle"
  BY DEF IdleDrain
<1> QED  BY <1>1, <1>2, IdleType, DrainMove

\* The webhook is called: one more try, and one more mark to come.
LEMMA SendInv == ASSUME IInv, NEW d \in Drains, Send(d) PROVE IInv'
<1>1. PICK a \in drain[d].todo, ok \in BOOLEAN :
        /\ Sent(d, a, ok)
        /\ accepted \subseteq accepted'
        /\ ok => a \in accepted'
  BY DEF Send, TimeoutIsOk
<1>2. PICK c \in DrainType : c = drain[d] /\ DrainSound(c) /\ c.pc = "send"
  BY DEF Send, IInv, DeliveryTypes, DeliverySound
<1>3. a \in Alerts /\ c.item = {}
  BY <1>1, <1>2 DEF DrainType, DrainSound
<1>4. PICK r : r = [c EXCEPT !.pc = "mark", !.todo = c.todo \ {a}, !.item = {a}, !.ok = ok]
  OBVIOUS
<1>5. r \in DrainType /\ r.pc = "mark" /\ r.item = {a} /\ r.ok = ok
  BY <1>3, <1>4 DEF DrainType
<1>6. /\ drain' = [drain EXCEPT ![d] = r]
      /\ tries' = [tries EXCEPT ![a] = IF @ < MaxAttempts THEN @ + 1 ELSE @]
  <2>1. drain' = [drain EXCEPT ![d] = r]
    BY <1>1, <1>2, <1>4 DEF Sent
  <2>2. tries' = [tries EXCEPT ![a] = IF @ < MaxAttempts THEN @ + 1 ELSE @]
    BY <1>1 DEF Sent
  <2> QED  BY <2>1, <2>2
<1>7. UNCHANGED <<row, mgr, twice>> /\ UNCHANGED ingest
  BY DEF Send
<1>8. DeliveryTypes'
  <2>1. tries' \in [Alerts -> 0 .. MaxAttempts]
    BY <1>3, <1>6, WorkerAssumption DEF IInv, DeliveryTypes
  <2> QED  BY <1>5, <1>6, <1>7, <2>1 DEF IInv, DeliveryTypes
<1>9. \A e \in Drains : drain'[e] = IF e = d THEN r ELSE drain[e]
  BY <1>6 DEF IInv, DeliveryTypes
<1>10. Pending(a)' = Pending(a) \cup {d} /\ d \notin Pending(a)
  BY <1>2, <1>3, <1>5, <1>9 DEF Pending
<1>11. \A b \in Alerts \ {a} : Pending(b)' = Pending(b) /\ tries'[b] = tries[b]
  BY <1>2, <1>3, <1>5, <1>6, <1>9 DEF Pending, IInv, DeliveryTypes
<1>12. ASSUME NEW b \in Alerts, NEW n \in Nat, Tried(b, n) PROVE Tried(b, n)'
  <2>1. CASE b # a
    BY <1>7, <1>11, <1>12, <2>1 DEF Tried
  <2>2. CASE b = a
    <3>1. Cardinality(Pending(a)') = Cardinality(Pending(a)) + 1 /\ Cardinality(Pending(a)) \in Nat
      BY <1>10, PendingFinite, FS_AddElement
    <3>2. tries'[a] = IF tries[a] < MaxAttempts THEN tries[a] + 1 ELSE tries[a]
      BY <1>3, <1>6 DEF IInv, DeliveryTypes
    <3>3. tries[a] \in Nat /\ twice[a] \in Nat /\ twice' = twice
      BY <1>3, <1>7 DEF IInv, DeliveryTypes
    <3> QED  BY <1>12, <2>2, <3>1, <3>2, <3>3, WorkerAssumption DEF Tried
  <2> QED  BY <2>1, <2>2
<1>13. \A b \in Alerts : tries[b] + twice[b] >= MaxAttempts => tries'[b] + twice'[b] >= MaxAttempts
  <2>1. \A b \in Alerts : tries[b] \in Nat /\ twice[b] \in Nat /\ tries'[b] \in {tries[b], tries[b] + 1}
    BY <1>6, WorkerAssumption DEF IInv, DeliveryTypes
  <2> QED  BY <1>7, <2>1, WorkerAssumption
<1>16. \A b \in Alerts, n \in Nat : Tried(b, n) => Tried(b, n)'
  BY <1>12
<1>14. ASSUME NEW e \in Drains PROVE DrainSound(drain[e])'
  <2>1. CASE e = d
    <3>1. drain'[e] = r
      BY <1>9, <2>1
    <3>2. r.ok => r.item \subseteq accepted'
      BY <1>1, <1>5
    <3> QED  BY <1>5, <3>1, <3>2 DEF DrainSound
  <2>2. CASE e # d
    <3>1. PICK x \in DrainType : x = drain[e] /\ x = drain'[e]
      BY <1>9, <2>2 DEF IInv, DeliveryTypes
    <3>2. x.item \subseteq Alerts /\ x.loaded.attempts \in Nat
      BY DEF DrainType, Row
    <3>3. /\ x.ok => x.item \subseteq accepted
          /\ x.item # {} => x.pc \in {"mark", "write"}
          /\ \A f, g \in x.item : f = g
          /\ x.pc = "write" => \A b \in x.item : Tried(b, x.loaded.attempts)
      BY <3>1 DEF IInv, DeliverySound, DrainSound
    <3>4. x.ok => x.item \subseteq accepted'
      BY <1>1, <3>3
    <3> QED  BY <1>16, <3>1, <3>2, <3>3, <3>4 DEF DrainSound
  <2> QED  BY <2>1, <2>2
<1>15. ASSUME NEW b \in Alerts PROVE RowSound(b)'
  <2>1. row[b].attempts \in Nat /\ RowSound(b)
    BY DEF IInv, DeliveryTypes, Row, DeliverySound
  <2>2. /\ row[b].status = "delivered" => b \in accepted'
        /\ row[b].status = "dead_letter" => tries'[b] + twice'[b] >= MaxAttempts
    BY <1>1, <1>13, <2>1 DEF RowSound
  <2>3. Tried(b, row[b].attempts)'
    <3>1. PICK n \in Nat : n = row[b].attempts /\ n = row'[b].attempts
      BY <1>7, <2>1
    <3> QED  BY <1>16, <2>1, <3>1 DEF RowSound
  <2> QED  BY <1>7, <2>2, <2>3 DEF RowSound
<1> QED  BY <1>7, <1>8, <1>14, <1>15, IngestKept DEF IInv, DeliverySound

\* What a flush leaves of a row: the columns that the session changed.
LEMMA Flushed ==
  ASSUME NEW x \in Row, NEW loaded \in Row, NEW new \in Row
  PROVE  LET m == Merge(x, loaded, new)
         IN  /\ m \in Row
             /\ m.status = IF new.status = loaded.status THEN x.status ELSE new.status
             /\ m.attempts = IF new.attempts = loaded.attempts THEN x.attempts ELSE new.attempts
<1> DEFINE m == Merge(x, loaded, new)
           r == [status |-> IF new.status = loaded.status THEN x.status ELSE new.status,
                 attempts |-> IF new.attempts = loaded.attempts THEN x.attempts ELSE new.attempts,
                 next |-> IF new.next = loaded.next /\ new.next = Null THEN x.next ELSE new.next]
<1>1. DOMAIN x = {"status", "attempts", "next"}
  BY DEF Row
<1>2. m = [k \in {"status", "attempts", "next"} |->
              IF new[k] # loaded[k] \/ (k = "next" /\ new[k] # Null) THEN new[k] ELSE x[k]]
  BY <1>1 DEF Merge, Changed
<1>3. m = r
  BY <1>2
<1>4. r \in Row
  BY DEF Row
<1> QED  BY <1>3, <1>4

\* A mark is written, and its drain goes on without the alert; or the drain keeps it,
\* to mark it once more, and the send counts double.
LEMMA WriteMove ==
  ASSUME IInv, NEW d \in Drains, drain[d].pc = "write", NEW a \in drain[d].item, Write(d, a),
         NEW r \in DrainType, drain' = [drain EXCEPT ![d] = r],
         UNCHANGED <<mgr, accepted, tries>>, UNCHANGED ingest, r.ok = FALSE,
         \/ r.item = {} /\ r.pc # "write" /\ UNCHANGED twice
         \/ /\ r.item = drain[d].item /\ r.pc = "mark"
            /\ twice' = [twice EXCEPT ![a] = @ + 1]
  PROVE  IInv'
<1>1. row' = [row EXCEPT ![a] = Merge(@, drain[d].loaded, Marked(drain[d].loaded, drain[d].ok))]
  BY DEF Write
<1>2. PICK c \in DrainType : c = drain[d] /\ DrainSound(c) /\ c.pc = "write"
  BY DEF IInv, DeliveryTypes, DeliverySound
<1>3. a \in Alerts /\ a \in c.item /\ \A b \in c.item : b = a
  BY <1>1, <1>2 DEF DrainType, DrainSound
<1>4. PICK x \in Row, loaded \in Row, ok \in BOOLEAN :
        x = row[a] /\ loaded = c.loaded /\ ok = c.ok
  BY <1>3 DEF IInv, DeliveryTypes, DrainType
<1>5. PICK new \in Row :
        /\ new = Marked(loaded, ok) /\ new.attempts = loaded.attempts + 1
        /\ new.status = "delivered" => ok
        /\ new.status = "dead_letter" => loaded.attempts + 1 >= MaxAttempts
  <2>1. PICK n \in Nat : n = loaded.attempts
    BY DEF Row
  <2>2. PICK delay \in 0 .. RetryCap : delay = Delay(n + 1)
    BY DelayType
  <2>3. CASE ok
    <3> DEFINE m == [status |-> "delivered", attempts |-> n + 1, next |-> Null]
    <3>1. Marked(loaded, ok) = m
      BY <2>1, <2>3 DEF Marked
    <3>2. m \in Row /\ m.attempts = n + 1 /\ m.status = "delivered"
      BY WorkerAssumption DEF Row, DeliveryStatus, Null
    <3> QED  BY <2>1, <2>3, <3>1, <3>2
  <2>4. CASE ~ok /\ Exhausted(n + 1)
    <3> DEFINE m == [status |-> "dead_letter", attempts |-> n + 1, next |-> Null]
    <3>1. Marked(loaded, ok) = m
      BY <2>1, <2>4 DEF Marked
    <3>2. m \in Row /\ m.attempts = n + 1 /\ m.status = "dead_letter"
      BY WorkerAssumption DEF Row, DeliveryStatus, Null
    <3> QED  BY <2>1, <2>4, <3>1, <3>2 DEF Exhausted
  <2>5. CASE ~ok /\ ~Exhausted(n + 1)
    <3> DEFINE m == [status |-> "retry", attempts |-> n + 1, next |-> delay]
    <3>1. Marked(loaded, ok) = m
      BY <2>1, <2>2, <2>5 DEF Marked
    <3>2. m \in Row /\ m.attempts = n + 1 /\ m.status = "retry"
      BY WorkerAssumption DEF Row, DeliveryStatus, Null
    <3> QED  BY <2>1, <2>5, <3>1, <3>2
  <2> QED  BY <2>3, <2>4, <2>5
<1>6. PICK y \in Row :
        /\ y = Merge(x, loaded, new) /\ y.attempts = loaded.attempts + 1
        /\ y.status \in {x.status, new.status}
  <2>1. loaded.attempts \in Nat
    BY DEF Row
  <2> QED  BY <1>5, <2>1, Flushed
<1>7. row' = [row EXCEPT ![a] = y]
  BY <1>1, <1>2, <1>4, <1>5, <1>6
<1>8. /\ twice' \in [Alerts -> Nat] /\ \A b \in Alerts : twice'[b] >= twice[b]
      /\ \A b \in Alerts : tries[b] \in 0 .. MaxAttempts /\ twice[b] \in Nat /\ twice'[b] \in Nat
  <2>1. twice \in [Alerts -> Nat] /\ tries \in [Alerts -> 0 .. MaxAttempts]
    BY DEF IInv, DeliveryTypes
  <2>2. CASE UNCHANGED twice
    BY <2>1, <2>2
  <2>3. CASE twice' = [twice EXCEPT ![a] = @ + 1]
    BY <1>3, <2>1, <2>3
  <2> QED  BY <2>1, <2>2, <2>3
<1>11. DeliveryTypes'
  BY <1>7, <1>8 DEF IInv, DeliveryTypes
<1>12. \A e \in Drains : drain'[e] = IF e = d THEN r ELSE drain[e]
  BY DEF IInv, DeliveryTypes
<1>13. \A b : Pending(b)' \subseteq Pending(b)
  BY <1>2, <1>12 DEF Pending
<1>14. \A b \in Alerts, n \in Nat : Tried(b, n) => Tried(b, n)'
  BY <1>8, <1>13, TriedShrinks
<1>15. d \in Pending(a)
  BY <1>2, <1>3 DEF Pending
<1>16. /\ Cardinality(Pending(a) \ {d}) = Cardinality(Pending(a)) - 1
       /\ Cardinality(Pending(a)) \in Nat /\ Cardinality(Pending(a) \ {d}) \in Nat
  <2>1. IsFiniteSet(Pending(a)) /\ IsFiniteSet(Pending(a) \ {d})
    BY PendingFinite, FS_Subset
  <2> QED  BY <1>15, <2>1, FS_RemoveElement, FS_CardinalityType
<1>17. Tried(a, loaded.attempts) /\ loaded.attempts \in Nat
  BY <1>2, <1>3, <1>4 DEF DrainSound, Row
<1>18. Tried(a, y.attempts)'
  <2>1. CASE r.item = {} /\ UNCHANGED twice
    <3>1. Pending(a)' = Pending(a) \ {d}
      BY <1>12, <2>1 DEF Pending
    <3> QED  BY <1>3, <1>6, <1>8, <1>16, <1>17, <2>1, <3>1 DEF Tried
  <2>2. CASE r.item = drain[d].item /\ twice' = [twice EXCEPT ![a] = @ + 1]
    <3>1. Pending(a)' = Pending(a)
      BY <1>12, <2>2 DEF Pending
    <3>2. twice'[a] = twice[a] + 1
      BY <1>3, <2>2 DEF IInv, DeliveryTypes
    <3> QED  BY <1>3, <1>6, <1>8, <1>16, <1>17, <3>1, <3>2 DEF Tried
  <2> QED  BY <2>1, <2>2
<1>19. y.status = "dead_letter" => tries[a] + twice'[a] >= MaxAttempts
  <2>1. CASE y.status = x.status
    <3>1. x.status = "dead_letter" => tries[a] + twice[a] >= MaxAttempts
      BY <1>3, <1>4 DEF IInv, DeliverySound, RowSound
    <3> QED  BY <1>3, <1>8, <2>1, <3>1, WorkerAssumption
  <2>2. CASE y.status = new.status
    BY <1>3, <1>5, <1>8, <1>16, <1>17, <2>2, WorkerAssumption DEF Tried
  <2> QED  BY <1>6, <2>1, <2>2
<1>20. y.status = "delivered" => a \in accepted
  BY <1>2, <1>3, <1>4, <1>5, <1>6 DEF DrainSound, IInv, DeliverySound, RowSound
<1>21. ASSUME NEW b \in Alerts PROVE RowSound(b)'
  <2>1. CASE b = a
    <3>1. row'[a] = y
      BY <1>3, <1>7 DEF IInv, DeliveryTypes
    <3> QED  BY <1>18, <1>19, <1>20, <2>1, <3>1 DEF RowSound
  <2>2. CASE b # a
    <3>1. row'[b] = row[b] /\ row[b].attempts \in Nat /\ RowSound(b)
      BY <1>7, <2>2 DEF IInv, DeliveryTypes, Row, DeliverySound
    <3>2. row[b].status = "dead_letter" => tries[b] + twice'[b] >= MaxAttempts
      BY <1>8, <3>1, WorkerAssumption DEF RowSound
    <3> QED  BY <1>14, <3>1, <3>2 DEF RowSound
  <2> QED  BY <2>1, <2>2
<1>22. ASSUME NEW e \in Drains PROVE DrainSound(drain[e])'
  <2>1. CASE e = d
    <3>1. drain'[d] = r /\ r.pc # "write" /\ (r.item # {} => r.pc \in {"mark", "write"})
      BY <1>12
    <3>2. \A f, g \in r.item : f = g
      BY <1>2 DEF DrainSound
    <3> QED  BY <2>1, <3>1, <3>2 DEF DrainSound
  <2>2. CASE e # d
    <3>1. PICK z \in DrainType : z = drain[e] /\ z = drain'[e] /\ DrainSound(z)
      BY <1>12, <2>2 DEF IInv, DeliveryTypes, DeliverySound
    <3>2. z.item \subseteq Alerts /\ z.loaded.attempts \in Nat
      BY DEF DrainType, Row
    <3> QED  BY <1>14, <3>1, <3>2 DEF DrainSound
  <2> QED  BY <2>1, <2>2
<1> QED  BY <1>11, <1>21, <1>22, IngestKept DEF IInv, DeliverySound

\* One row is written by the mark of the drain that tried it.
LEMMA MarkWriteInv == ASSUME IInv, NEW d \in Drains, MarkWrite(d) PROVE IInv'
<1>1. PICK a \in drain[d].item : Write(d, a)
  BY DEF MarkWrite
<1>2. PICK c \in DrainType, z \in Row : c = drain[d] /\ z = NewRow
  BY NewRowType DEF IInv, DeliveryTypes
<1>3. PICK r : r = [c EXCEPT !.pc = "send", !.item = {}, !.ok = FALSE, !.loaded = z]
  OBVIOUS
<1>4. r \in DrainType /\ r.pc = "send" /\ r.item = {} /\ r.ok = FALSE
  BY <1>3 DEF DrainType
<1>5. /\ drain' = [drain EXCEPT ![d] = r] /\ drain[d].pc = "write"
      /\ UNCHANGED <<mgr, accepted, tries, twice>> /\ UNCHANGED ingest
  BY <1>2, <1>3 DEF MarkWrite
<1> QED  BY <1>1, <1>4, <1>5, WriteMove

\* A mark whose commit took effect raises: the drain marks a failure on top, or ends.
LEMMA MarkUnheardInv == ASSUME IInv, NEW d \in Drains, MarkUnheard(d) PROVE IInv'
<1>1. PICK a \in drain[d].item :
        /\ Write(d, a)
        /\ twice' = IF drain[d].ok THEN [twice EXCEPT ![a] = @ + 1] ELSE twice
  BY DEF MarkUnheard
<1>2. PICK c \in DrainType, z \in Row : c = drain[d] /\ z = NewRow
  BY NewRowType DEF IInv, DeliveryTypes
<1>3. /\ drain[d].pc = "write" /\ UNCHANGED <<mgr, accepted, tries>> /\ UNCHANGED ingest
      /\ drain' = [drain EXCEPT ![d] = IF c.ok THEN [c EXCEPT !.pc = "mark", !.ok = FALSE, !.loaded = z]
                                      ELSE IdleDrain]
  BY <1>2 DEF MarkUnheard, AfterRaise
<1>4. CASE c.ok
  <2>1. PICK r : r = [c EXCEPT !.pc = "mark", !.ok = FALSE, !.loaded = z]
    OBVIOUS
  <2>2. r \in DrainType /\ r.pc = "mark" /\ r.item = drain[d].item /\ r.ok = FALSE
    BY <1>2, <2>1 DEF DrainType
  <2>3. drain' = [drain EXCEPT ![d] = r] /\ twice' = [twice EXCEPT ![a] = @ + 1]
    BY <1>1, <1>2, <1>3, <1>4, <2>1
  <2> QED  BY <1>1, <1>3, <2>2, <2>3, WriteMove
<1>5. CASE ~c.ok
  <2>1. drain' = [drain EXCEPT ![d] = IdleDrain] /\ UNCHANGED twice
    BY <1>1, <1>2, <1>3, <1>5
  <2>2. IdleDrain.pc = "idle" /\ IdleDrain.ok = FALSE
    BY DEF IdleDrain
  <2> QED  BY <1>1, <1>3, <2>1, <2>2, IdleType, WriteMove
<1> QED  BY <1>4, <1>5

\* The clock changes no status and no count.
LEMMA TickInv == IInv /\ Tick => IInv'
<1> SUFFICES ASSUME IInv, Tick PROVE IInv'
  OBVIOUS
<1>1. /\ row' = [a \in Alerts |-> [row[a] EXCEPT !.next = IF @ > 0 THEN @ - 1 ELSE @]]
      /\ UNCHANGED <<drain, mgr, accepted, tries, twice>> /\ UNCHANGED ingest
  BY DEF Tick
<1>2. ASSUME NEW a \in Alerts
      PROVE  /\ row'[a] \in Row
             /\ row'[a].status = row[a].status /\ row'[a].attempts = row[a].attempts
  <2>1. PICK x \in Row : x = row[a]
    BY DEF IInv, DeliveryTypes
  <2>2. PICK n \in Null .. RetryCap : n = IF x.next > 0 THEN x.next - 1 ELSE x.next
    BY WorkerAssumption DEF Row, Null
  <2>3. row'[a] = [x EXCEPT !.next = n]
    BY <1>1, <2>1, <2>2
  <2> QED  BY <2>1, <2>3 DEF Row
<1>3. DeliveryTypes'
  <2>1. row' = [a \in Alerts |-> row'[a]]
    BY <1>1
  <2>2. row' \in [Alerts -> Row]
    BY <1>2, <2>1
  <2> QED  BY <1>1, <2>2 DEF IInv, DeliveryTypes
<1>4. \A a : Pending(a)' = Pending(a)
  BY <1>1 DEF Pending
<1>5. \A a, n : Tried(a, n)' = Tried(a, n)
  BY <1>1, <1>4 DEF Tried
<1>6. \A d \in Drains : DrainSound(drain[d])'
  BY <1>1, <1>5 DEF IInv, DeliverySound, DrainSound
<1>7. \A a \in Alerts : RowSound(a)'
  BY <1>1, <1>2, <1>5 DEF IInv, DeliverySound, RowSound
<1> QED  BY <1>1, <1>3, <1>6, <1>7, IngestKept DEF IInv, DeliverySound

-----------------------------------------------------------------------------
(* Requeues *)

\* A manager loads a row.
LEMMA RequeueLoadInv == ASSUME IInv, NEW m \in Managers, RequeueLoad(m) PROVE IInv'
<1>1. PICK a \in Alerts :
        mgr' = [mgr EXCEPT ![m] = [pc |-> "write", item |-> {a}, loaded |-> row[a]]]
  BY DEF RequeueLoad
<1>2. UNCHANGED <<row, drain, accepted, tries, twice>> /\ UNCHANGED ingest
  BY DEF RequeueLoad
<1>3. DeliveryTypes'
  BY <1>1, <1>2 DEF IInv, DeliveryTypes, MgrType
<1>4. \A b : Pending(b)' = Pending(b)
  BY <1>2 DEF Pending
<1>5. \A b, n : Tried(b, n)' = Tried(b, n)
  BY <1>2, <1>4 DEF Tried
<1>6. \A d \in Drains : DrainSound(drain[d])'
  BY <1>2, <1>5 DEF IInv, DeliverySound, DrainSound
<1>7. \A b \in Alerts : RowSound(b)'
  BY <1>2, <1>5 DEF IInv, DeliverySound, RowSound
<1> QED  BY <1>2, <1>3, <1>6, <1>7, IngestKept DEF IInv, DeliverySound

\* The count of tries starts again only where no mark is pending.
LEMMA RequeueWriteInv == ASSUME IInv, NEW m \in Managers, RequeueWrite(m) PROVE IInv'
<1>1. PICK a \in mgr[m].item :
        /\ row' = [row EXCEPT ![a] = Merge(@, mgr[m].loaded, NewRow)]
        /\ tries' = IF Restarts(a) THEN [tries EXCEPT ![a] = 0] ELSE tries
        /\ twice' = IF Restarts(a) THEN [twice EXCEPT ![a] = 0] ELSE twice
  BY DEF RequeueWrite
<1>2. a \in Alerts /\ mgr[m].loaded \in Row
  BY <1>1 DEF IInv, DeliveryTypes, MgrType
<1>3. PICK x \in Row, loaded \in Row, new \in Row :
        x = row[a] /\ loaded = mgr[m].loaded /\ new = NewRow
  BY <1>2, NewRowType DEF IInv, DeliveryTypes
<1>4. PICK y \in Row :
        /\ y = Merge(x, loaded, new)
        /\ y.status \in {x.status, "pending"} /\ y.attempts \in {x.attempts, 0}
  <2>1. new.status = "pending" /\ new.attempts = 0
    BY <1>3 DEF NewRow
  <2> QED  BY <2>1, Flushed
<1>5. row' = [row EXCEPT ![a] = y]
  BY <1>1, <1>3, <1>4
<1>6. UNCHANGED <<drain, accepted>> /\ UNCHANGED ingest
  BY DEF RequeueWrite
<1>7. DeliveryTypes'
  <2>1. PICK z \in Row : z = NewRow
    BY NewRowType
  <2>2. mgr' = [mgr EXCEPT ![m] = [pc |-> "done", item |-> {}, loaded |-> z]]
    BY <2>1 DEF RequeueWrite
  <2>3. mgr' \in [Managers -> MgrType]
    BY <2>2 DEF IInv, DeliveryTypes, MgrType
  <2>4. tries' \in [Alerts -> 0 .. MaxAttempts]
    <3>1. [tries EXCEPT ![a] = 0] \in [Alerts -> 0 .. MaxAttempts]
      <4>1. 0 \in 0 .. MaxAttempts /\ tries \in [Alerts -> 0 .. MaxAttempts]
        BY WorkerAssumption DEF IInv, DeliveryTypes
      <4> QED  BY <1>2, <4>1
    <3> QED  BY <1>1, <3>1 DEF IInv, DeliveryTypes
  <2>5. twice' \in [Alerts -> Nat]
    BY <1>1, <1>2 DEF IInv, DeliveryTypes
  <2> QED  BY <1>5, <1>6, <2>3, <2>4, <2>5 DEF IInv, DeliveryTypes
<1>8. \A b : Pending(b)' = Pending(b)
  BY <1>6 DEF Pending
<1>9. /\ row'[a] = y
      /\ \A b \in Alerts \ {a} : row'[b] = row[b] /\ tries'[b] = tries[b] /\ twice'[b] = twice[b]
  BY <1>1, <1>2, <1>5 DEF IInv, DeliveryTypes
<1>10. CASE Restarts(a)
  <2>1. /\ Pending(a) = {} /\ y.status \in Open /\ y.attempts = 0
        /\ tries'[a] = 0 /\ twice'[a] = 0
    BY <1>1, <1>2, <1>9, <1>10 DEF Restarts, Pending, IInv, DeliveryTypes
  <2>2. Cardinality(Pending(a)') = 0
    BY <1>8, <2>1, FS_EmptySet
  <2>3. \A b \in Alerts \ {a} : \A n : Tried(b, n)' = Tried(b, n)
    BY <1>8, <1>9 DEF Tried
  <2>4. ASSUME NEW d \in Drains PROVE DrainSound(drain[d])'
    <3>1. PICK c \in DrainType : c = drain[d] /\ c = drain'[d]
      BY <1>6 DEF IInv, DeliveryTypes
    <3>2. /\ c.ok => c.item \subseteq accepted'
          /\ c.item # {} => c.pc \in {"mark", "write"}
          /\ \A f, g \in c.item : f = g
          /\ c.pc = "write" => \A b \in c.item : Tried(b, c.loaded.attempts)
      BY <1>6, <3>1 DEF IInv, DeliverySound, DrainSound
    <3>3. c.item \subseteq Alerts \ {a}
      BY <2>1, <3>1 DEF DrainType, Pending
    <3> QED  BY <2>3, <3>1, <3>2, <3>3 DEF DrainSound
  <2>5. ASSUME NEW b \in Alerts PROVE RowSound(b)'
    <3>1. CASE b = a
      <4>1. Tried(a, y.attempts)'
        BY <2>1, <2>2 DEF Tried
      <4> QED  BY <1>9, <2>1, <3>1, <4>1 DEF RowSound, Open
    <3>2. CASE b # a
      BY <1>6, <1>9, <2>3, <3>2 DEF IInv, DeliverySound, RowSound
    <3> QED  BY <3>1, <3>2
  <2> QED  BY <1>6, <1>7, <2>4, <2>5, IngestKept DEF IInv, DeliverySound
<1>11. CASE ~Restarts(a)
  <2>1. tries' = tries /\ twice' = twice
    BY <1>1, <1>11
  <2>2. \A b, n : Tried(b, n)' = Tried(b, n)
    BY <1>8, <2>1 DEF Tried
  <2>3. \A d \in Drains : DrainSound(drain[d])'
    BY <1>6, <2>2 DEF IInv, DeliverySound, DrainSound
  <2>4. ASSUME NEW b \in Alerts PROVE RowSound(b)'
    <3>1. CASE b = a
      <4>1. RowSound(a) /\ x.attempts \in Nat /\ tries[a] \in Nat /\ twice[a] \in Nat
        BY <1>2 DEF IInv, DeliverySound, DeliveryTypes, Row
      <4>2. Tried(a, 0)
        BY <1>3, <4>1, PendingFinite, WorkerAssumption DEF RowSound, Tried
      <4>3. Tried(a, y.attempts)'
        BY <1>3, <1>4, <2>2, <4>1, <4>2 DEF RowSound
      <4> QED  BY <1>3, <1>4, <1>6, <1>9, <2>1, <3>1, <4>1, <4>3 DEF RowSound
    <3>2. CASE b # a
      BY <1>6, <1>9, <2>1, <2>2, <3>2 DEF IInv, DeliverySound, RowSound
    <3> QED  BY <3>1, <3>2
  <2> QED  BY <1>6, <1>7, <2>3, <2>4, IngestKept DEF IInv, DeliverySound
<1> QED  BY <1>10, <1>11

-----------------------------------------------------------------------------
(* Theorems *)

\* No step of a request, a drain or a manager breaks the invariant.
LEMMA NextInv == IInv /\ [Next]_vars => IInv'
<1> SUFFICES ASSUME IInv, [Next]_vars PROVE IInv'
  OBVIOUS
<1>1. CASE UNCHANGED vars
  <2>1. UNCHANGED delivery /\ UNCHANGED ingest
    BY <1>1 DEF vars, delivery, ingest
  <2> QED  BY <2>1, DeliveryKept, IngestKept DEF IInv
<1>2. CASE Tick
  BY <1>2, TickInv
<1>3. CASE \E q \in Requests : Ingest(q)
  BY <1>3, IngestInv
<1>4. CASE \E d \in Drains : List(d) \/ Deliver(d) \/ MarkRaises(d) \/ Kill(d)
  BY <1>4, ListInv, SendInv, MarkLoadInv, MarkWriteInv, MarkFailsInv, MarkUnheardInv,
          EndInv DEF Deliver, MarkRaises
<1>5. CASE \E m \in Managers : RequeueLoad(m) \/ RequeueWrite(m)
  BY <1>5, RequeueLoadInv, RequeueWriteInv
<1> QED  BY <1>1, <1>2, <1>3, <1>4, <1>5 DEF Next

\* Whatever the requests, drains and managers interleave to, the invariant holds.
THEOREM InvHolds == Spec => []IInv
BY InitInv, NextInv, PTL DEF Spec

-----------------------------------------------------------------------------
(* Occurrences and types *)

\* Requests that have their answer.
Over == {q \in Requests : req[q].pc = "done"}

\* An event was brought as often as requests were answered, at most, and no request
\* has seen more.
CountsCovered ==
  /\ \A a \in Alerts : count[a] <= Cardinality(Over)
  /\ \A q \in Requests : req[q].loaded <= Cardinality(Over)
  /\ faults \in 0 .. MaxFaults /\ accepted \in SUBSET Alerts
  /\ \A a \in Alerts : twice[a] <= faults

\* There are as many answers as requests, at most.
LEMMA OverCounts ==
  /\ IsFiniteSet(Over) /\ Cardinality(Over) \in Nat
  /\ Cardinality(Over) <= Cardinality(Requests) /\ Cardinality(Requests) \in Nat
BY WorkerAssumption, FS_Subset, FS_CardinalityType DEF Over

\* Where no request moves, only faults and the receiver do.
LEMMA CountsStill ==
  ASSUME CountsCovered, UNCHANGED ingest, faults' \in 0 .. MaxFaults, accepted' \in SUBSET Alerts,
         \A a \in Alerts : twice'[a] <= faults'
  PROVE  CountsCovered'
<1>1. Over' = Over
  BY DEF ingest, Over
<1> QED  BY <1>1 DEF ingest, CountsCovered

\* An answer is one more, and counts its event once at most.
LEMMA IngestCovered ==
  ASSUME IInv, CountsCovered, NEW q \in Requests, Ingest(q)
  PROVE  CountsCovered'
<1> DEFINE n == Cardinality(Over)
<1>1. n \in Nat /\ IsFiniteSet(Over)
  BY OverCounts
<1>2. UNCHANGED <<faults, accepted, twice>>
  BY DEF Ingest, Find, Insert, BumpOccurrence, delivery
<1>3. req \in [Requests -> ReqType] /\ count \in [Alerts -> Nat]
  BY DEF IInv, IngestTypes
<1>4. CASE Find(q)
  <2>1. PICK a \in Alerts :
          req' = [req EXCEPT ![q] = [pc |-> IF count[a] = 0 THEN "insert" ELSE "bump",
                                     event |-> {a}, loaded |-> count[a]]]
    BY <1>4 DEF Find
  <2>2. req[q].pc = "idle" /\ count' = count
    BY <1>4 DEF Find
  <2>3. Over' = Over
    BY <1>3, <2>1, <2>2 DEF Over
  <2> QED  BY <1>2, <1>3, <2>1, <2>2, <2>3 DEF CountsCovered
<1>5. CASE Insert(q) \/ BumpOccurrence(q)
  <2>1. /\ req' = [req EXCEPT ![q] = [pc |-> "done", event |-> {}, loaded |-> 0]]
        /\ req[q].pc # "done"
        /\ \A a \in Alerts : count'[a] \in {count[a], 1, req[q].loaded + 1}
    BY <1>3, <1>5 DEF Insert, BumpOccurrence, Answer
  <2>2. Over' = Over \cup {q} /\ q \notin Over
    BY <1>3, <2>1 DEF Over
  <2>3. Cardinality(Over') = n + 1
    BY <1>1, <2>2, FS_AddElement
  <2>4. \A p \in Requests : req'[p].loaded \in {req[p].loaded, 0} /\ req[p].loaded \in Nat
    BY <1>3, <2>1 DEF ReqType
  <2>5. \A a \in Alerts : count[a] \in Nat /\ count[a] <= n
    BY <1>3 DEF CountsCovered
  <2>6. \A p \in Requests : req[p].loaded <= n
    BY DEF CountsCovered
  <2> HIDE DEF n
  <2>7. \A a \in Alerts : count'[a] <= n + 1
    BY <1>1, <2>1, <2>4, <2>5, <2>6
  <2>8. \A p \in Requests : req'[p].loaded <= n + 1
    BY <1>1, <2>4, <2>6
  <2> QED  BY <1>2, <2>3, <2>7, <2>8 DEF CountsCovered
<1> QED  BY <1>4, <1>5 DEF Ingest

\* No step brings an event more often than requests were answered.
LEMMA CountsKept == IInv /\ CountsCovered /\ [Next]_vars => CountsCovered'
<1> SUFFICES ASSUME IInv, CountsCovered, [Next]_vars PROVE CountsCovered'
  OBVIOUS
<1>1. CASE \E q \in Requests : Ingest(q)
  BY <1>1, IngestCovered
<1>2. CASE ~\E q \in Requests : Ingest(q)
  <2>1. UNCHANGED ingest
    BY <1>2 DEF Next, vars, ingest, Tick, List, Deliver, Send, MarkLoad, MarkWrite, Finish,
                MarkRaises, MarkFails, MarkUnheard, AfterRaise, Kill, RequeueLoad, RequeueWrite
  <2>2. /\ faults' \in 0 .. MaxFaults
        /\ \A a \in Alerts : twice'[a] <= faults'
    <3>1. twice \in [Alerts -> Nat] /\ faults \in 0 .. MaxFaults
          /\ \A a \in Alerts : twice[a] <= faults
      BY DEF IInv, DeliveryTypes, CountsCovered
    <3>2. CASE \E d \in Drains : MarkRaises(d) \/ Kill(d)
      <4>1. PICK d \in Drains : MarkFails(d) \/ MarkUnheard(d) \/ Kill(d)
        BY <3>2 DEF MarkRaises
      <4>2. faults' = faults + 1 /\ faults' \in 0 .. MaxFaults
        BY <3>1, <4>1, WorkerAssumption DEF MarkFails, MarkUnheard, AfterRaise, Kill
      <4>3. \A a \in Alerts : twice'[a] \in {twice[a], twice[a] + 1}
        <5>1. CASE UNCHANGED twice
          BY <5>1
        <5>2. CASE \E b \in drain[d].item : twice' = [twice EXCEPT ![b] = @ + 1]
          BY <3>1, <5>2
        <5> QED  BY <4>1, <5>1, <5>2 DEF MarkFails, MarkUnheard, Kill
      <4> QED  BY <3>1, <4>2, <4>3
    <3>3. CASE \E m \in Managers : RequeueWrite(m)
      <4>1. faults' = faults
        BY <3>3 DEF RequeueWrite
      <4>2. \A a \in Alerts : twice'[a] \in {twice[a], 0}
        BY <3>1, <3>3 DEF RequeueWrite
      <4> QED  BY <3>1, <4>1, <4>2
    <3>4. CASE /\ ~\E d \in Drains : MarkRaises(d) \/ Kill(d)
               /\ ~\E m \in Managers : RequeueWrite(m)
      <4>1. UNCHANGED <<faults, twice>>
        BY <1>2, <3>4 DEF Next, vars, Tick, List, Deliver, Send, MarkLoad, MarkWrite, Finish,
                          RequeueLoad
      <4> QED  BY <3>1, <4>1
    <3> QED  BY <3>2, <3>3, <3>4
  <2>3. accepted' \in SUBSET Alerts
    <3>1. CASE \E d \in Drains : Send(d)
      <4>1. PICK d \in Drains : Send(d)
        BY <3>1
      <4>2. drain[d].todo \subseteq Alerts
        BY DEF IInv, DeliveryTypes, DrainType
      <4> QED  BY <4>1, <4>2 DEF Send, CountsCovered
    <3>2. CASE ~\E d \in Drains : Send(d)
      BY <1>2, <3>2 DEF CountsCovered, Next, vars, Tick, List, Deliver, MarkLoad, MarkWrite, Finish,
                        MarkRaises, MarkFails, MarkUnheard, AfterRaise, Kill, RequeueLoad, RequeueWrite
    <3> QED  BY <3>1, <3>2
  <2> QED  BY <2>1, <2>2, <2>3, CountsStill
<1> QED  BY <1>1, <1>2

\* store.py: the columns keep their types whatever merges into them, and an event is
\* counted at most once for each request that brought it.
THEOREM TypesHold == Spec => []TypeOK
<1>1. Init => CountsCovered
  BY OverCounts, WorkerAssumption DEF Init, CountsCovered
<1>2. IInv /\ CountsCovered => TypeOK
  <2> SUFFICES ASSUME IInv, CountsCovered PROVE TypeOK
    OBVIOUS
  <2> DEFINE n == Cardinality(Over)
             m == Cardinality(Requests)
  <2>1. n \in Nat /\ m \in Nat /\ n <= m
    BY OverCounts
  <2>2. \A a \in Alerts : count[a] \in Nat /\ count[a] <= n
    BY DEF IInv, IngestTypes, CountsCovered
  <2>3. req \in [Requests -> ReqType] /\ \A q \in Requests : req[q].loaded <= n
    BY DEF IInv, IngestTypes, CountsCovered
  <2> HIDE DEF n, m
  <2>4. count \in [Alerts -> 0 .. m]
    BY <2>1, <2>2 DEF IInv, IngestTypes
  <2>5. \A q \in Requests :
          req[q] \in [pc: {"idle", "insert", "bump", "done"}, event: SUBSET Alerts, loaded: 0 .. m]
    BY <2>1, <2>3 DEF ReqType
  <2>6. req \in [Requests -> [pc: {"idle", "insert", "bump", "done"}, event: SUBSET Alerts,
                              loaded: 0 .. m]]
    BY <2>3, <2>5
  <2>7. twice \in [Alerts -> 0 .. MaxFaults]
    <3>1. \A a \in Alerts : twice[a] \in Nat /\ twice[a] <= faults /\ faults <= MaxFaults
      BY DEF IInv, DeliveryTypes, CountsCovered
    <3>2. \A a \in Alerts : twice[a] \in 0 .. MaxFaults
      BY <3>1, WorkerAssumption DEF CountsCovered
    <3> QED  BY <3>2 DEF IInv, DeliveryTypes
  <2> QED  BY <2>4, <2>6, <2>7 DEF m, TypeOK, IInv, IngestTypes, DeliveryTypes, DrainType, MgrType,
                             CountsCovered
<1> QED  BY <1>1, <1>2, CountsKept, NextInv, InitInv, PTL DEF Spec

-----------------------------------------------------------------------------
(* What follows *)

\* create_alert: of all requests that bring one event, one is told that it is new.
THEOREM NewToOne == Spec => []NewOnce
<1>1. IInv => NewOnce
  <2> SUFFICES ASSUME IInv, NEW a \in Alerts PROVE news[a] = (IF answered[a] > 0 THEN 1 ELSE 0)
    BY DEF NewOnce
  <2> QED  BY DEF IInv, IngestSound
<1> QED  BY <1>1, InvHolds, PTL

\* mark_alert_delivery: the row says delivered only of a notification that was taken.
THEOREM DeliveredIsEarned == Spec => []DeliveredWasSent
<1>1. IInv => DeliveredWasSent
  BY DEF IInv, DeliverySound, RowSound, DeliveredWasSent
<1> QED  BY <1>1, InvHolds, PTL

\* mark_alert_delivery: nobody dead-letters what was tried less than MaxAttempts
\* times, although marks of several drains overwrite each other; only a delivery
\* that was committed and then marked as a failure makes two attempts of one try.
THEOREM DeadLettersAreEarned == Spec => []DeadLetterEarned
<1>1. IInv => DeadLetterEarned
  BY DEF IInv, DeliverySound, RowSound, DeadLetterEarned
<1> QED  BY <1>1, InvHolds, PTL
=============================================================================
