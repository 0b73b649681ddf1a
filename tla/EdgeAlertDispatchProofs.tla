----------------------- MODULE EdgeAlertDispatchProofs -----------------------
(***************************************************************************)
(* Safety of scheduled alert delivery for every number of alerts, runs,    *)
(* tokens, faults and requeues: the implementation of AlertDelivery, the   *)
(* exclusiveness of a live lease and the finality of delivered rows.       *)
(***************************************************************************)
EXTENDS EdgeAlertDispatch, Sums

\* The shape of a row.  What `attempts` and `wait` hold is the subject of the
\* last section.
IsRow(x) ==
  /\ x = [status |-> x.status, attempts |-> x.attempts, wait |-> x.wait,
          lease |-> x.lease, token |-> x.token]
  /\ x.status \in DeliveryStatus /\ x.lease \in 0 .. Lease
  /\ x.token \in Tokens \cup {NoToken}
RowsShaped == row = [a \in Alerts |-> row[a]] /\ \A a \in Alerts : IsRow(row[a])

Typed ==
  /\ RowsShaped /\ RunsTyped
  /\ taken \in SUBSET Alerts
  /\ pending \in SUBSET Item
  /\ mails \in [Alerts -> 0 .. 1]

\* A claim is only on an open row, and a delivered row has nothing left to run.
ClaimsOpen ==
  \A a \in Alerts :
    /\ row[a].token # NoToken => row[a].status \in {"pending", "retry"}
    /\ row[a].status = "delivered" => row[a].wait = 0 /\ row[a].lease = 0

\* The provider has seen exactly the keys of the alerts it mailed.
MailsTaken == \A a \in Alerts : mails[a] = 1 <=> a \in taken

\* What a run is about to mark as delivered, and what is so marked, was mailed.
DeliveredMailed ==
  /\ \A a \in Alerts : row[a].status = "delivered" => a \in taken
  /\ \A r \in Runs : run[r].ok => \A i \in run[r].item : i.id \in taken

\* The alerts of a run: each once, and under tokens no other run holds.
Held(r) == run[r].todo \cup run[r].item
RunsDisjoint ==
  \A r \in Runs :
    /\ run[r].pc = "idle" => Held(r) = {}
    /\ run[r].pc = "sending" => run[r].item = {}
    /\ run[r].todo \cap run[r].item = {}
    /\ \A i, j \in Held(r) : i.id = j.id => i = j
    /\ \A s \in Runs : r # s => \A i \in Held(r), j \in Held(s) : i.token # j.token

\* A live lease is the lease of the row.
LeaseHeld ==
  \A r \in Runs : run[r].left > 0 =>
    \A i \in Held(r) : row[i.id].token = i.token /\ row[i.id].lease = run[r].left

IInv ==
  /\ Typed /\ ClaimsOpen /\ MailsTaken /\ DeliveredMailed /\ RunsDisjoint /\ LeaseHeld

\* No alert raised, no run started: the invariant holds.
LEMMA InitInv == Init => IInv
  BY DispatchAssumption DEF Init, IInv, Typed, RowsShaped, RunsTyped, ClaimsOpen, MailsTaken,
     DeliveredMailed, RunsDisjoint, LeaseHeld, Held, IsRow, Run, Item, IdleRun, DeliveryStatus

\* Time runs down the lease of a row and of the run that holds it together.
LEMMA TickInv ==
  ASSUME IInv, Tick
  PROVE  IInv'
  <1> USE DispatchAssumption DEF IInv
  <1>1. ASSUME NEW a \in Alerts
        PROVE  /\ IsRow(row'[a])
               /\ row'[a].status = row[a].status /\ row'[a].token = row[a].token
               /\ row'[a].wait = Monus(row[a].wait) /\ row'[a].lease = Monus(row[a].lease)
    <2>1. IsRow(row[a])
      BY DEF Typed, RowsShaped
    <2>2. row'[a] = [row[a] EXCEPT !.wait = Monus(@), !.lease = Monus(@)]
      BY DEF Tick
    <2>3. Monus(row[a].lease) \in 0 .. Lease
      BY <2>1 DEF IsRow, Monus
    <2> QED
      BY <2>1, <2>2, <2>3 DEF IsRow
  <1>2. ASSUME NEW r \in Runs
        PROVE  /\ run'[r] \in Run
               /\ run'[r].pc = run[r].pc /\ run'[r].todo = run[r].todo
               /\ run'[r].item = run[r].item /\ run'[r].ok = run[r].ok
               /\ run'[r].left = Monus(run[r].left)
    <2>1. run[r] \in Run
      BY DEF Typed, RunsTyped
    <2>2. run'[r] = [run[r] EXCEPT !.left = Monus(@)]
      BY DEF Tick
    <2> QED
      BY <2>1, <2>2 DEF Run, Monus
  <1>3. /\ row' = [a \in Alerts |-> row'[a]] /\ run' = [r \in Runs |-> run'[r]]
        /\ UNCHANGED <<taken, pending, mails>>
    BY DEF Tick
  <1>4. Typed'
    BY <1>1, <1>2, <1>3 DEF Typed, RowsShaped, RunsTyped
  <1>5. ClaimsOpen'
    BY <1>1 DEF ClaimsOpen, Monus
  <1>6. MailsTaken'
    BY <1>3 DEF MailsTaken
  <1>7. DeliveredMailed'
    BY <1>1, <1>2, <1>3 DEF DeliveredMailed
  <1>8. RunsDisjoint'
    BY <1>2 DEF RunsDisjoint, Held
  <1>9. LeaseHeld'
    <2> SUFFICES ASSUME NEW r \in Runs, run'[r].left > 0, NEW i \in Held(r)'
                 PROVE  row'[i.id].token = i.token /\ row'[i.id].lease = run'[r].left
      BY DEF LeaseHeld
    <2>1. i \in Held(r) /\ i.id \in Alerts /\ run[r].left > 0
      BY <1>2 DEF Held, Typed, RunsTyped, Run, Item, Monus
    <2>2. row[i.id].token = i.token /\ row[i.id].lease = run[r].left
      BY <2>1 DEF LeaseHeld
    <2> QED
      BY <2>1, <2>2, <1>1, <1>2
  <1> QED
    BY <1>4, <1>5, <1>6, <1>7, <1>8, <1>9

\* A request the provider takes late mails an alert at most once.
LEMMA LateInv ==
  ASSUME IInv, ArriveLate
  PROVE  IInv'
  <1> USE DispatchAssumption DEF IInv, ArriveLate, Take, Key
  <1>a. RowsShaped'
    BY DEF Typed, RowsShaped, IsRow, DeliveryStatus
  <1>b. RunsTyped'
    BY DEF Typed, RunsTyped, Run, Item
  <1>c. taken' \in SUBSET Alerts /\ pending' \in SUBSET Item /\ mails' \in [Alerts -> 0 .. 1]
    <2>1. PICK i \in pending : pending' = pending \ {i} /\ Take(i)
      BY DEF ArriveLate
    <2>2. i.id \in Alerts /\ (i.id \notin taken => mails[i.id] = 0)
      BY DEF Typed, Item, MailsTaken
    <2> QED
      BY <2>1, <2>2 DEF Typed, Take, Key
  <1>1. Typed'
    BY <1>a, <1>b, <1>c DEF Typed
  <1>2. ClaimsOpen'
    BY DEF Typed, RowsShaped, IsRow, ClaimsOpen, DeliveryStatus
  <1>3. MailsTaken'
    BY DEF Typed, MailsTaken, Item
  <1>4. DeliveredMailed'
    BY DEF Typed, RowsShaped, RunsTyped, IsRow, Run, Item, DeliveredMailed
  <1>5. RunsDisjoint'
    BY DEF Typed, RunsTyped, Run, Item, RunsDisjoint, Held
  <1>6. LeaseHeld'
    BY DEF Typed, RowsShaped, RunsTyped, IsRow, Run, Item, LeaseHeld, Held, RunsDisjoint
  <1> QED
    BY <1>1, <1>2, <1>3, <1>4, <1>5, <1>6

\* A request that never arrives changes nothing the invariant speaks of.
LEMMA LoseInv ==
  ASSUME IInv, LoseRequest
  PROVE  IInv'
  <1> USE DispatchAssumption DEF IInv, LoseRequest
  <1>a. RowsShaped'
    BY DEF Typed, RowsShaped, IsRow, DeliveryStatus
  <1>b. RunsTyped'
    BY DEF Typed, RunsTyped, Run, Item
  <1>c. taken' \in SUBSET Alerts /\ pending' \in SUBSET Item /\ mails' \in [Alerts -> 0 .. 1]
    BY DEF Typed, Item
  <1>1. Typed'
    BY <1>a, <1>b, <1>c DEF Typed
  <1>2. ClaimsOpen'
    BY DEF Typed, RowsShaped, IsRow, ClaimsOpen, DeliveryStatus
  <1>3. MailsTaken'
    BY DEF Typed, MailsTaken, Item
  <1>4. DeliveredMailed'
    BY DEF Typed, RowsShaped, RunsTyped, IsRow, Run, Item, DeliveredMailed
  <1>5. RunsDisjoint'
    BY DEF Typed, RunsTyped, Run, Item, RunsDisjoint, Held
  <1>6. LeaseHeld'
    BY DEF Typed, RowsShaped, RunsTyped, IsRow, Run, Item, LeaseHeld, Held, RunsDisjoint
  <1> QED
    BY <1>1, <1>2, <1>3, <1>4, <1>5, <1>6

\* A raised alert is open and unclaimed.
LEMMA RaiseInv ==
  ASSUME IInv, NEW a \in Alerts, Raise(a)
  PROVE  IInv'
  <1> USE DispatchAssumption DEF IInv, Raise
  <1>a. RowsShaped'
    BY DEF Typed, RowsShaped, IsRow, DeliveryStatus
  <1>b. RunsTyped'
    BY DEF Typed, RunsTyped, Run, Item
  <1>c. taken' \in SUBSET Alerts /\ pending' \in SUBSET Item /\ mails' \in [Alerts -> 0 .. 1]
    BY DEF Typed, Item
  <1>1. Typed'
    BY <1>a, <1>b, <1>c DEF Typed
  <1>2. ClaimsOpen'
    BY DEF Typed, RowsShaped, IsRow, ClaimsOpen, DeliveryStatus
  <1>3. MailsTaken'
    BY DEF Typed, MailsTaken, Item
  <1>4. DeliveredMailed'
    BY DEF Typed, RowsShaped, RunsTyped, IsRow, Run, Item, DeliveredMailed
  <1>5. RunsDisjoint'
    BY DEF Typed, RunsTyped, Run, Item, RunsDisjoint, Held
  <1>6. LeaseHeld'
    BY DEF Typed, RowsShaped, RunsTyped, IsRow, Run, Item, LeaseHeld, Held, RunsDisjoint
  <1> QED
    BY <1>1, <1>2, <1>3, <1>4, <1>5, <1>6

\* What the manual requeue of 016 leaves of a row: its claim.
LEMMA RequeuedRow ==
  ASSUME NEW x, IsRow(x)
  PROVE  IsRow([x EXCEPT !.status = "pending", !.attempts = 0, !.wait = 0])
  <1> DEFINE r1 == [x EXCEPT !.status = "pending"]
             r2 == [r1 EXCEPT !.attempts = 0]
             r3 == [r2 EXCEPT !.wait = 0]
  <1>1. IsRow(r1)
    BY DEF IsRow, DeliveryStatus
  <1> HIDE DEF r1
  <1>2. IsRow(r2)
    BY <1>1 DEF IsRow
  <1> HIDE DEF r2
  <1>3. IsRow(r3)
    BY <1>2 DEF IsRow
  <1> USE DEF r1, r2
  <1>4. [x EXCEPT !.status = "pending", !.attempts = 0, !.wait = 0] = r3
    BY Zenon
  <1> QED
    BY <1>3, <1>4

\* A requeue reopens a row without taking it from the run that holds it.
LEMMA RequeueInv ==
  ASSUME IInv, NEW a \in Alerts, Requeue(a)
  PROVE  IInv'
  <1> USE DispatchAssumption DEF IInv, Requeue, Requeueable
  <1>a. RowsShaped'
    <2>1. IsRow(row[a])
      BY DEF Typed, RowsShaped
    <2>2. row' = [row EXCEPT ![a] = [row[a] EXCEPT !.status = "pending", !.attempts = 0, !.wait = 0]]
      BY DEF Typed, RowsShaped
    <2>3. IsRow([row[a] EXCEPT !.status = "pending", !.attempts = 0, !.wait = 0])
      BY <2>1, RequeuedRow
    <2> QED
      BY <2>2, <2>3 DEF Typed, RowsShaped
  <1>b. RunsTyped'
    BY DEF Typed, RunsTyped, Run, Item
  <1>c. taken' \in SUBSET Alerts /\ pending' \in SUBSET Item /\ mails' \in [Alerts -> 0 .. 1]
    BY DEF Typed, Item
  <1>1. Typed'
    BY <1>a, <1>b, <1>c DEF Typed
  <1>2. ClaimsOpen'
    BY DEF Typed, RowsShaped, IsRow, ClaimsOpen, DeliveryStatus
  <1>3. MailsTaken'
    BY DEF Typed, MailsTaken, Item
  <1>4. DeliveredMailed'
    BY DEF Typed, RowsShaped, RunsTyped, IsRow, Run, Item, DeliveredMailed
  <1>5. RunsDisjoint'
    BY DEF Typed, RunsTyped, Run, Item, RunsDisjoint, Held
  <1>6. LeaseHeld'
    <2>1. \A b \in Alerts : row'[b].token = row[b].token /\ row'[b].lease = row[b].lease
      BY DEF Typed, RowsShaped, IsRow
    <2>2. \A r \in Runs : \A i \in Held(r) : i.id \in Alerts
      BY DEF Typed, RunsTyped, Run, Item, Held
    <2> QED
      BY <2>1, <2>2 DEF LeaseHeld, Held
  <1> QED
    BY <1>1, <1>2, <1>3, <1>4, <1>5, <1>6

\* A mark whose claim is gone ('delivery claim not found') changes no row.
LEMMA RefusedInv ==
  ASSUME IInv, NEW r \in Runs, MarkRefused(r)
  PROVE  IInv'
  <1> USE DispatchAssumption DEF IInv, MarkRefused, NextAlert
  <1>a. RowsShaped'
    BY DEF Typed, RowsShaped, IsRow, DeliveryStatus
  <1>b. RunsTyped'
    BY DEF Typed, RunsTyped, Run, Item
  <1>c. taken' \in SUBSET Alerts /\ pending' \in SUBSET Item /\ mails' \in [Alerts -> 0 .. 1]
    BY DEF Typed, Item
  <1>1. Typed'
    BY <1>a, <1>b, <1>c DEF Typed
  <1>2. ClaimsOpen'
    BY DEF Typed, RowsShaped, IsRow, ClaimsOpen, DeliveryStatus
  <1>3. MailsTaken'
    BY DEF Typed, MailsTaken, Item
  <1>4. DeliveredMailed'
    BY DEF Typed, RowsShaped, RunsTyped, IsRow, Run, Item, DeliveredMailed
  <1>5. RunsDisjoint'
    BY DEF Typed, RunsTyped, Run, Item, RunsDisjoint, Held
  <1>6. LeaseHeld'
    BY DEF Typed, RowsShaped, RunsTyped, IsRow, Run, Item, LeaseHeld, Held, RunsDisjoint
  <1> QED
    BY <1>1, <1>2, <1>3, <1>4, <1>5, <1>6

\* A mark that never reaches the database leaves the row to its lease.
LEMMA LostInv ==
  ASSUME IInv, NEW r \in Runs, MarkLost(r)
  PROVE  IInv'
  <1> USE DispatchAssumption DEF IInv, MarkLost, NextAlert, LostCount
  <1>a. RowsShaped'
    BY DEF Typed, RowsShaped, IsRow, DeliveryStatus
  <1>b. RunsTyped'
    <2>1. run[r] \in Run
      BY DEF Typed, RunsTyped
    <2>2. [run[r] EXCEPT !.pc = "sending", !.item = {}, !.ok = FALSE, !.settled = TRUE,
                         !.delivered = IF LostCount THEN @ + 1 ELSE @] \in Run
      BY <2>1 DEF Run
    <2> QED
      BY <2>2 DEF Typed, RunsTyped
  <1>c. taken' \in SUBSET Alerts /\ pending' \in SUBSET Item /\ mails' \in [Alerts -> 0 .. 1]
    BY DEF Typed, Item
  <1>1. Typed'
    BY <1>a, <1>b, <1>c DEF Typed
  <1>2. ClaimsOpen'
    BY DEF Typed, RowsShaped, IsRow, ClaimsOpen, DeliveryStatus
  <1>3. MailsTaken'
    BY DEF Typed, MailsTaken, Item
  <1>4. DeliveredMailed'
    BY DEF Typed, RowsShaped, RunsTyped, IsRow, Run, Item, DeliveredMailed
  <1>5. RunsDisjoint'
    BY DEF Typed, RunsTyped, Run, Item, RunsDisjoint, Held
  <1>6. LeaseHeld'
    BY DEF Typed, RowsShaped, RunsTyped, IsRow, Run, Item, LeaseHeld, Held, RunsDisjoint
  <1> QED
    BY <1>1, <1>2, <1>3, <1>4, <1>5, <1>6

\* A run that ends holds nothing.
LEMMA BeatInv ==
  ASSUME IInv, NEW r \in Runs, Heartbeat(r)
  PROVE  IInv'
  <1> USE DispatchAssumption DEF IInv, Heartbeat, IdleRun
  <1>a. RowsShaped'
    BY DEF Typed, RowsShaped, IsRow, DeliveryStatus
  <1>b. RunsTyped'
    BY DEF Typed, RunsTyped, Run, Item
  <1>c. taken' \in SUBSET Alerts /\ pending' \in SUBSET Item /\ mails' \in [Alerts -> 0 .. 1]
    BY DEF Typed, Item
  <1>1. Typed'
    BY <1>a, <1>b, <1>c DEF Typed
  <1>2. ClaimsOpen'
    BY DEF Typed, RowsShaped, IsRow, ClaimsOpen, DeliveryStatus
  <1>3. MailsTaken'
    BY DEF Typed, MailsTaken, Item
  <1>4. DeliveredMailed'
    BY DEF Typed, RowsShaped, RunsTyped, IsRow, Run, Item, DeliveredMailed
  <1>5. RunsDisjoint'
    BY DEF Typed, RunsTyped, Run, Item, RunsDisjoint, Held
  <1>6. LeaseHeld'
    BY DEF Typed, RowsShaped, RunsTyped, IsRow, Run, Item, LeaseHeld, Held, RunsDisjoint
  <1> QED
    BY <1>1, <1>2, <1>3, <1>4, <1>5, <1>6

\* A killed run holds nothing; its rows wait for their leases to end.
LEMMA KillInv ==
  ASSUME IInv, NEW r \in Runs, Kill(r)
  PROVE  IInv'
  <1> USE DispatchAssumption DEF IInv, Kill, IdleRun
  <1>a. RowsShaped'
    BY DEF Typed, RowsShaped, IsRow, DeliveryStatus
  <1>b. RunsTyped'
    BY DEF Typed, RunsTyped, Run, Item
  <1>c. taken' \in SUBSET Alerts /\ pending' \in SUBSET Item /\ mails' \in [Alerts -> 0 .. 1]
    BY DEF Typed, Item
  <1>1. Typed'
    BY <1>a, <1>b, <1>c DEF Typed
  <1>2. ClaimsOpen'
    BY DEF Typed, RowsShaped, IsRow, ClaimsOpen, DeliveryStatus
  <1>3. MailsTaken'
    BY DEF Typed, MailsTaken, Item
  <1>4. DeliveredMailed'
    BY DEF Typed, RowsShaped, RunsTyped, IsRow, Run, Item, DeliveredMailed
  <1>5. RunsDisjoint'
    BY DEF Typed, RunsTyped, Run, Item, RunsDisjoint, Held
  <1>6. LeaseHeld'
    BY DEF Typed, RowsShaped, RunsTyped, IsRow, Run, Item, LeaseHeld, Held, RunsDisjoint
  <1> QED
    BY <1>1, <1>2, <1>3, <1>4, <1>5, <1>6


\* What a mark does to a row.
LEMMA MarkedRow ==
  ASSUME NEW x, IsRow(x), NEW ok \in BOOLEAN
  PROVE  /\ IsRow(Marked(x, ok))
         /\ Marked(x, ok).token = NoToken
         /\ Marked(x, ok).lease = 0
         /\ Marked(x, ok).status = "delivered" <=> ok
         /\ Marked(x, ok).status \in {"delivered", "dead_letter", "retry"}
         /\ Marked(x, ok).status = "delivered" => Marked(x, ok).wait = 0
  <1> DEFINE n == x.attempts + 1
             s == IF ok THEN "delivered" ELSE IF Exhausted(n) THEN "dead_letter" ELSE "retry"
             w == IF s = "retry" THEN Backoff(n) ELSE 0
  <1>1. Marked(x, ok) = [status |-> s, attempts |-> n, wait |-> w, lease |-> 0, token |-> NoToken]
    BY DEF Marked, IsRow
  <1>2. s \in {"delivered", "dead_letter", "retry"} /\ (s = "delivered" <=> ok)
        /\ (s = "delivered" => w = 0)
    OBVIOUS
  <1> HIDE DEF n, s, w
  <1> QED
    BY <1>1, <1>2, DispatchAssumption DEF IsRow, DeliveryStatus

\* A committed mark, whether or not the run hears of it.
MarkStep(r, i, heard) ==
  /\ run[r].pc = "marking" /\ i \in run[r].item /\ HoldsClaim(i)
  /\ row' = [row EXCEPT ![i.id] = Marked(@, run[r].ok)]
  /\ NextAlert(r, heard)
  /\ UNCHANGED <<taken, pending, mails>>

\* A mark frees the claim, and only a mailed alert becomes delivered.
LEMMA MarkStepInv ==
  ASSUME IInv, NEW r \in Runs, NEW i, NEW heard \in BOOLEAN, MarkStep(r, i, heard)
  PROVE  IInv'
  <1> USE DispatchAssumption DEF IInv
  <1>1. /\ i \in Item /\ i.id \in Alerts /\ i.token \in Tokens /\ i \in Held(r)
        /\ IsRow(row[i.id]) /\ run[r] \in Run /\ run[r].ok \in BOOLEAN
        /\ row[i.id].token = i.token /\ i.token # NoToken
    BY DEF MarkStep, HoldsClaim, Typed, RowsShaped, RunsTyped, Run, Item, Held
  <1> DEFINE y == Marked(row[i.id], run[r].ok)
  <1>2. /\ IsRow(y) /\ y.token = NoToken /\ y.lease = 0
        /\ y.status = "delivered" => run[r].ok /\ y.wait = 0
    BY <1>1, MarkedRow
  <1>3. row' = [row EXCEPT ![i.id] = y]
    BY DEF MarkStep
  <1>4. /\ run' = [run EXCEPT ![r] = run'[r]] /\ run'[r] \in Run
        /\ run'[r].pc = "sending" /\ run'[r].item = {} /\ run'[r].ok = FALSE
        /\ run'[r].todo = run[r].todo /\ run'[r].left = run[r].left
    BY <1>1 DEF MarkStep, NextAlert, Typed, RunsTyped, Run
  <1>5. UNCHANGED <<taken, pending, mails>>
    BY DEF MarkStep
  <1> HIDE DEF y
  <1>6. Typed'
    BY <1>1, <1>2, <1>3, <1>4, <1>5 DEF Typed, RowsShaped, RunsTyped
  <1>7. ClaimsOpen'
    BY <1>1, <1>2, <1>3 DEF Typed, RowsShaped, ClaimsOpen
  <1>8. MailsTaken'
    BY <1>5 DEF MailsTaken
  <1>9. DeliveredMailed'
    <2>1. \A a \in Alerts : row'[a].status = "delivered" => a \in taken'
      BY <1>1, <1>2, <1>3, <1>5 DEF Typed, RowsShaped, DeliveredMailed, MarkStep
    <2>2. \A s \in Runs : run'[s].ok => \A j \in run'[s].item : j.id \in taken'
      BY <1>4, <1>5 DEF Typed, RunsTyped, DeliveredMailed
    <2> QED
      BY <2>1, <2>2 DEF DeliveredMailed
  <1>10. \A s \in Runs : Held(s)' \subseteq Held(s) /\ run'[s].left = run[s].left
    BY <1>4 DEF Held, Typed, RunsTyped
  <1>11. RunsDisjoint'
    BY <1>4, <1>10 DEF RunsDisjoint, Typed, RunsTyped, Held
  <1>12. LeaseHeld'
    <2> SUFFICES ASSUME NEW s \in Runs, run'[s].left > 0, NEW j \in Held(s)'
                 PROVE  row'[j.id].token = j.token /\ row'[j.id].lease = run'[s].left
      BY DEF LeaseHeld
    <2>1. j \in Held(s) /\ j \in Item /\ row[j.id].token = j.token /\ row[j.id].lease = run[s].left
      BY <1>10 DEF LeaseHeld, Held, Typed, RunsTyped, Run
    <2>2. j # i
      BY <1>1, <1>4, <2>1 DEF Held, RunsDisjoint, Typed, RunsTyped, MarkStep, Item
    <2>3. j.id # i.id
      BY <1>1, <2>1, <2>2 DEF RunsDisjoint, Item
    <2> QED
      BY <1>1, <1>3, <1>10, <2>1, <2>3 DEF Typed, RowsShaped, Item
  <1> QED
    BY <1>6, <1>7, <1>8, <1>9, <1>11, <1>12

\* A request answered or given up on: the run holds the alert for marking.
SendStep(r, i, ok) ==
  /\ run[r].pc = "sending" /\ i \in run[r].todo
  /\ Answered(r, i, ok)
  /\ UNCHANGED row
  /\ \/ Take(i) /\ UNCHANGED pending
     \/ ~ok /\ UNCHANGED <<taken, mails>> /\ pending' \in SUBSET (pending \cup {i})

\* What the provider answers decides what the run marks next.
LEMMA SendStepInv ==
  ASSUME IInv, NEW r \in Runs, NEW i, NEW ok \in BOOLEAN, SendStep(r, i, ok)
  PROVE  IInv'
  <1> USE DispatchAssumption DEF IInv
  <1>1. /\ i \in Item /\ i.id \in Alerts /\ i \in Held(r)
        /\ run[r] \in Run /\ run[r].item = {}
    BY DEF SendStep, Typed, RunsTyped, Run, Item, Held, RunsDisjoint
  <1>2. /\ run' = [run EXCEPT ![r] = run'[r]] /\ run'[r] \in Run
        /\ run'[r].pc = "marking" /\ run'[r].item = {i} /\ run'[r].ok = ok
        /\ run'[r].todo = run[r].todo \ {i} /\ run'[r].left = run[r].left
    BY <1>1 DEF SendStep, Answered, Typed, RunsTyped, Run
  <1>3. /\ row' = row /\ taken \subseteq taken' /\ taken' \in SUBSET Alerts
        /\ pending' \in SUBSET Item
        /\ ok => i.id \in taken'
    BY <1>1 DEF SendStep, Take, Key, Typed
  <1>4. mails' \in [Alerts -> 0 .. 1] /\ MailsTaken'
    <2>1. CASE Take(i)
      <3>1. i.id \notin taken => mails[i.id] = 0
        BY <1>1 DEF MailsTaken, Typed
      <3> QED
        BY <1>1, <2>1, <3>1 DEF Take, Key, MailsTaken, Typed
    <2>2. CASE UNCHANGED <<taken, mails>>
      BY <2>2 DEF MailsTaken, Typed
    <2> QED
      BY <2>1, <2>2 DEF SendStep
  <1>5. Typed'
    BY <1>2, <1>3, <1>4 DEF Typed, RowsShaped, RunsTyped
  <1>6. ClaimsOpen'
    BY <1>3 DEF ClaimsOpen
  <1>7. DeliveredMailed'
    BY <1>2, <1>3 DEF DeliveredMailed, Typed, RunsTyped
  <1>8. \A s \in Runs : Held(s)' = Held(s) /\ run'[s].left = run[s].left
    <2>1. Held(r)' = Held(r)
      BY <1>1, <1>2 DEF Held, SendStep
    <2>2. \A s \in Runs : s # r => run'[s] = run[s]
      BY <1>2 DEF Typed, RunsTyped
    <2> QED
      BY <1>2, <2>1, <2>2 DEF Held
  <1>9. RunsDisjoint'
    BY <1>2, <1>8 DEF RunsDisjoint, Typed, RunsTyped
  <1>10. LeaseHeld'
    BY <1>3, <1>8 DEF LeaseHeld
  <1> QED
    BY <1>4, <1>5, <1>6, <1>7, <1>9, <1>10

\* Sending keeps the invariant whichever way the provider answers.
LEMMA SendInv ==
  ASSUME IInv, NEW r \in Runs, Send(r)
  PROVE  IInv'
  <1>1. PICK i \in run[r].todo : SendAccepted(r, i) \/ SendRefused(r, i) \/ SendUnanswered(r, i)
    BY DEF Send
  <1>2. CASE SendAccepted(r, i)
    <2>1. SendStep(r, i, TRUE)
      BY <1>1, <1>2 DEF Send, SendStep, SendAccepted
    <2> QED
      BY <2>1, SendStepInv
  <1>3. CASE SendRefused(r, i)
    <2>1. SendStep(r, i, FALSE)
      BY <1>1, <1>3 DEF Send, SendStep, SendRefused
    <2> QED
      BY <2>1, SendStepInv
  <1>4. CASE SendUnanswered(r, i)
    <2>1. SendStep(r, i, FALSE)
      BY <1>1, <1>4 DEF Send, SendStep, SendUnanswered, UnansweredIsOk
    <2> QED
      BY <2>1, SendStepInv
  <1> QED
    BY <1>1, <1>2, <1>3, <1>4

\* A claim: a set of claimable alerts, each under its own fresh token.
ClaimStep(r, C, tok) ==
  /\ run[r].pc = "idle"
  /\ C \in SUBSET {a \in Alerts : Claimable(a)}
  /\ tok \in [C -> Tokens \ TokensInUse]
  /\ \A a, b \in C : tok[a] = tok[b] => a = b
  /\ row' = [a \in Alerts |->
               IF a \in C
                 THEN [row[a] EXCEPT !.token = tok[a], !.lease = Lease, !.wait = Lease]
                 ELSE row[a]]
  /\ run' = [run EXCEPT ![r] =
               [IdleRun EXCEPT !.pc = "sending", !.left = Lease,
                               !.todo = {[id |-> a, token |-> tok[a]] : a \in C}]]
  /\ UNCHANGED <<taken, pending, mails>>

ClaimedAs(x, t) == [x EXCEPT !.token = t, !.lease = Lease, !.wait = Lease]

\* What the claim statement of 017 leaves of a row.
LEMMA ClaimedRow ==
  ASSUME NEW x, IsRow(x), NEW t \in Tokens
  PROVE  /\ IsRow(ClaimedAs(x, t))
         /\ ClaimedAs(x, t).token = t /\ ClaimedAs(x, t).lease = Lease
         /\ ClaimedAs(x, t).status = x.status
  <1> DEFINE r1 == [x EXCEPT !.token = t]
             r2 == [r1 EXCEPT !.lease = Lease]
             r3 == [r2 EXCEPT !.wait = Lease]
  <1> USE DispatchAssumption
  <1>1. IsRow(r1) /\ r1.token = t /\ r1.status = x.status
    BY DEF IsRow
  <1> HIDE DEF r1
  <1>2. IsRow(r2) /\ r2.token = t /\ r2.status = x.status /\ r2.lease = Lease
    BY <1>1 DEF IsRow
  <1> HIDE DEF r2
  <1>3. IsRow(r3) /\ r3.token = t /\ r3.status = x.status /\ r3.lease = Lease
    BY <1>2 DEF IsRow
  <1> USE DEF r1, r2
  <1>4. ClaimedAs(x, t) = r3
    BY Zenon DEF ClaimedAs
  <1> QED
    BY <1>3, <1>4

\* A claim takes only rows that no run holds, under tokens no run uses.
LEMMA ClaimStepInv ==
  ASSUME IInv, NEW r \in Runs, NEW C, NEW tok, ClaimStep(r, C, tok)
  PROVE  IInv'
  <1> USE DispatchAssumption DEF IInv
  <1> DEFINE New == {[id |-> a, token |-> tok[a]] : a \in C}
  <1>1. ASSUME NEW a \in Alerts
        PROVE  /\ IsRow(row'[a]) /\ row'[a].status = row[a].status
               /\ a \in C => /\ row'[a].token = tok[a] /\ row'[a].lease = Lease
                             /\ row[a].status \in {"pending", "retry"} /\ row[a].lease = 0
               /\ a \notin C => row'[a] = row[a]
    <2>1. IsRow(row[a])
      BY DEF Typed, RowsShaped
    <2>2. CASE a \notin C
      BY <2>1, <2>2 DEF ClaimStep
    <2>3. CASE a \in C
      <3>1. tok[a] \in Tokens /\ Claimable(a)
        BY <2>3 DEF ClaimStep
      <3>2. row'[a] = ClaimedAs(row[a], tok[a])
        BY <2>3 DEF ClaimStep, ClaimedAs
      <3> QED
        BY <2>1, <2>3, <3>1, <3>2, ClaimedRow DEF Claimable
    <2> QED
      BY <2>2, <2>3
  <1>2. /\ New \in SUBSET Item
        /\ \A i \in New : i.id \in C /\ i.token = tok[i.id] /\ i.token \notin TokensInUse
        /\ \A i, j \in New : i.token = j.token => i = j
        /\ \A i, j \in New : i.id = j.id => i = j
    <2>1. ASSUME NEW i \in New
          PROVE  /\ i.id \in C /\ i.id \in Alerts
                 /\ i.token = tok[i.id] /\ i = [id |-> i.id, token |-> tok[i.id]]
                 /\ tok[i.id] \in Tokens /\ tok[i.id] \notin TokensInUse
      <3>1. PICK a \in C : i = [id |-> a, token |-> tok[a]]
        OBVIOUS
      <3> QED
        BY <3>1 DEF ClaimStep
    <2> HIDE DEF New
    <2>2. New \in SUBSET Item
      BY <2>1 DEF Item
    <2>3. \A i, j \in New : i.id = j.id => i = j
      BY <2>1
    <2>4. \A i, j \in New : i.token = j.token => i = j
      <3>1. \A a, b \in C : tok[a] = tok[b] => a = b
        BY DEF ClaimStep
      <3> QED
        BY <2>1, <2>3, <3>1
    <2> QED
      BY <2>1, <2>2, <2>3, <2>4
  <1>3. /\ run' = [run EXCEPT ![r] = run'[r]]
        /\ run'[r] = [IdleRun EXCEPT !.pc = "sending", !.left = Lease, !.todo = New]
    BY DEF ClaimStep, Typed, RunsTyped
  <1> HIDE DEF New
  <1>4. /\ run'[r] \in Run /\ run'[r].pc = "sending" /\ run'[r].todo = New
        /\ run'[r].item = {} /\ run'[r].ok = FALSE /\ run'[r].left = Lease
    <2>1. run'[r] = [pc |-> "sending", todo |-> New, item |-> {}, ok |-> FALSE,
                     left |-> Lease, settled |-> FALSE, delivered |-> 0]
      BY <1>3 DEF IdleRun
    <2> QED
      BY <1>2, <2>1 DEF Run
  <1>5. \A s \in Runs : s # r => run'[s] = run[s] /\ Held(s)' = Held(s)
    BY <1>3 DEF Held, Typed, RunsTyped
  <1>6. Held(r)' = New
    BY <1>4 DEF Held
  <1>7. \A s \in Runs : \A i \in Held(s) : i \in Item /\ i.token \in TokensInUse
    BY DEF Held, TokensInUse, Items, Typed, RunsTyped, Run
  <1>8. Typed'
    <2>1. RowsShaped'
      BY <1>1 DEF RowsShaped, ClaimStep
    <2>2. RunsTyped'
      BY <1>3, <1>4 DEF RunsTyped, Typed
    <2> QED
      BY <2>1, <2>2 DEF Typed, ClaimStep
  <1>9. ClaimsOpen'
    <2> SUFFICES ASSUME NEW a \in Alerts
                 PROVE  /\ row'[a].token # NoToken => row'[a].status \in {"pending", "retry"}
                        /\ row'[a].status = "delivered" => row'[a].wait = 0 /\ row'[a].lease = 0
      BY DEF ClaimsOpen
    <2> QED
      BY <1>1 DEF ClaimsOpen
  <1>10. MailsTaken'
    BY DEF MailsTaken, ClaimStep
  <1>11. DeliveredMailed'
    BY <1>1, <1>4, <1>5 DEF DeliveredMailed, ClaimStep
  <1>12. RunsDisjoint'
    <2> SUFFICES ASSUME NEW s \in Runs
                 PROVE  /\ run'[s].pc = "idle" => Held(s)' = {}
                        /\ run'[s].pc = "sending" => run'[s].item = {}
                        /\ run'[s].todo \cap run'[s].item = {}
                        /\ \A i, j \in Held(s)' : i.id = j.id => i = j
                        /\ \A q \in Runs : s # q =>
                             \A i \in Held(s)', j \in Held(q)' : i.token # j.token
      BY DEF RunsDisjoint
    <2>1. CASE s = r
      BY <1>2, <1>4, <1>5, <1>6, <1>7, <2>1
    <2>2. CASE s # r
      BY <1>2, <1>4, <1>5, <1>6, <1>7, <2>2 DEF RunsDisjoint
    <2> QED
      BY <2>1, <2>2
  <1>13. LeaseHeld'
    <2> SUFFICES ASSUME NEW s \in Runs, run'[s].left > 0, NEW i \in Held(s)'
                 PROVE  row'[i.id].token = i.token /\ row'[i.id].lease = run'[s].left
      BY DEF LeaseHeld
    <2>1. CASE s = r
      BY <1>1, <1>2, <1>4, <1>6, <2>1 DEF Item
    <2>2. CASE s # r
      <3>1. i \in Held(s) /\ run[s].left > 0 /\ i.id \in Alerts
        BY <1>5, <1>7, <2>2 DEF Item
      <3>2. row[i.id].token = i.token /\ row[i.id].lease = run[s].left
        BY <3>1 DEF LeaseHeld
      <3> QED
        BY <1>1, <1>5, <2>2, <3>1, <3>2
    <2> QED
      BY <2>1, <2>2
  <1> QED
    BY <1>8, <1>9, <1>10, <1>11, <1>12, <1>13

\* Every step of every run, operator and of time keeps the invariant.
LEMMA NextInv == IInv /\ [Next]_vars => IInv'
  <1> SUFFICES ASSUME IInv, [Next]_vars
               PROVE  IInv'
    OBVIOUS
  <1>1. CASE Tick \/ ArriveLate \/ LoseRequest
    BY <1>1, TickInv, LateInv, LoseInv
  <1>2. ASSUME NEW a \in Alerts, Raise(a) \/ Requeue(a)
        PROVE  IInv'
    BY <1>2, RaiseInv, RequeueInv
  <1>3. ASSUME NEW r \in Runs, Claim(r)
        PROVE  IInv'
    <2>1. PICK C, tok : ClaimStep(r, C, tok)
      BY <1>3 DEF Claim, ClaimStep
    <2> QED
      BY <2>1, ClaimStepInv
  <1>4. ASSUME NEW r \in Runs, Mark(r) \/ MarkUnheard(r)
        PROVE  IInv'
    <2>1. PICK i \in run[r].item : \E heard \in BOOLEAN : MarkStep(r, i, heard)
      <3>1. run[r].ok \in BOOLEAN
        BY DEF IInv, Typed, RunsTyped, Run
      <3> QED
        BY <1>4, <3>1 DEF Mark, MarkUnheard, MarkStep, LostCount
    <2> QED
      BY <2>1, MarkStepInv
  <1>5. ASSUME NEW r \in Runs,
               Send(r) \/ MarkRefused(r) \/ MarkLost(r) \/ Heartbeat(r) \/ Kill(r)
        PROVE  IInv'
    BY <1>5, SendInv, RefusedInv, LostInv, BeatInv, KillInv
  <1>6. CASE UNCHANGED vars
    BY <1>6 DEF vars, IInv, Typed, RowsShaped, RunsTyped, ClaimsOpen, MailsTaken,
       DeliveredMailed, RunsDisjoint, LeaseHeld, Held
  <1> QED
    BY <1>1, <1>2, <1>3, <1>4, <1>5, <1>6 DEF Next, Work

\* What 013, 016, 017 and runDispatch keep true between any two steps of any
\* overlapping runs, for every number of alerts, runs, tokens and faults.
THEOREM InvHolds == Spec => []IInv
  BY InitInv, NextInv, PTL DEF Spec

\* For every number of alerts, runs and tokens: a live lease is exclusive.  An
\* alert that a run still has to send or mark within its lease is claimed by it
\* and open, whatever requeues, kills and other runs did (LeaseExclusive).
THEOREM ExclusiveLease == Spec => []LeaseExclusive
  <1>1. ASSUME IInv
        PROVE  LeaseExclusive
    <2> SUFFICES ASSUME NEW r \in Runs, run[r].left > 0, NEW i \in run[r].todo \cup run[r].item
                 PROVE  row[i.id].token = i.token /\ row[i.id].status \in {"pending", "retry"}
      BY DEF LeaseExclusive
    <2>1. i \in Held(r) /\ i.id \in Alerts /\ i.token # NoToken
      BY <1>1, DispatchAssumption DEF IInv, Held, Typed, RunsTyped, Run, Item
    <2>2. row[i.id].token = i.token
      BY <1>1, <2>1 DEF IInv, LeaseHeld
    <2> QED
      BY <1>1, <2>1, <2>2 DEF IInv, ClaimsOpen
  <1> QED
    BY <1>1, InvHolds, PTL

\* A delivered row is free and has nothing left to run, so nothing applies to it.
LEMMA DeliveredStays ==
  ASSUME IInv, [Next]_vars, NEW a \in Alerts, row[a].status = "delivered"
  PROVE  row'[a] = row[a]
  <1>1. /\ IsRow(row[a]) /\ row[a].token = NoToken /\ row[a].wait = 0 /\ row[a].lease = 0
        /\ row = [b \in Alerts |-> row[b]]
    BY DEF IInv, Typed, RowsShaped, ClaimsOpen
  <1>2. CASE Tick
    <2>1. row'[a] = [row[a] EXCEPT !.wait = Monus(row[a].wait), !.lease = Monus(row[a].lease)]
      BY <1>2 DEF Tick
    <2>2. Monus(row[a].wait) = row[a].wait /\ Monus(row[a].lease) = row[a].lease
      BY <1>1 DEF Monus
    <2> QED
      BY <1>1, <2>1, <2>2 DEF IsRow
  <1>3. ASSUME NEW b \in Alerts, Raise(b) \/ Requeue(b)
        PROVE  row'[a] = row[a]
    BY <1>1, <1>3 DEF Raise, Requeue, Requeueable
  <1>4. ASSUME NEW r \in Runs, Claim(r)
        PROVE  row'[a] = row[a]
    BY <1>4 DEF Claim, Claimable
  <1>5. ASSUME NEW r \in Runs, Mark(r) \/ MarkUnheard(r)
        PROVE  row'[a] = row[a]
    <2>1. PICK i \in run[r].item :
            HoldsClaim(i) /\ row' = [row EXCEPT ![i.id] = Marked(@, run[r].ok)]
      BY <1>5 DEF Mark, MarkUnheard
    <2>2. i.token # NoToken
      BY DispatchAssumption DEF IInv, Typed, RunsTyped, Run, Item
    <2> QED
      BY <1>1, <2>1, <2>2 DEF HoldsClaim
  <1>6. CASE UNCHANGED row
    BY <1>6
  <1> QED
    BY <1>2, <1>3, <1>4, <1>5, <1>6
    DEF Next, Work, ArriveLate, LoseRequest, Send, MarkRefused, MarkLost, Heartbeat, Kill, vars

\* For every number of alerts, runs and tokens: no step of a run, an operator or
\* the provider touches a delivered row (DeliveredIsFinal).
THEOREM DeliveredForGood == Spec => DeliveredIsFinal
  <1>1. ASSUME IInv, [Next]_vars
        PROVE  [\A a \in Alerts : row[a].status = "delivered" => row'[a] = row[a]]_vars
    BY <1>1, DeliveredStays
  <1> QED
    BY <1>1, InvHolds, PTL DEF Spec, DeliveredIsFinal

-----------------------------------------------------------------------------
(* Refinement of AlertDelivery *)

phases == [a \in Alerts |-> Phase(row[a].status)]

\* A status has one phase.
LEMMA PhaseOfStatus ==
  /\ Phase("absent") = "absent" /\ Phase("pending") = "open" /\ Phase("retry") = "open"
  /\ Phase("delivered") = "delivered" /\ Phase("dead_letter") = "given_up"
  BY DEF Phase

\* Rewriting one row moves one phase.
LEMMA PhaseOfRow ==
  ASSUME RowsShaped, NEW a \in Alerts, NEW y, row' = [row EXCEPT ![a] = y]
  PROVE  phases' = [phases EXCEPT ![a] = Phase(y.status)]
  BY DEF phases, RowsShaped

\* A request taken by the provider is one mail, or a repetition.
LEMMA TakeMails ==
  ASSUME IInv, NEW i \in Item, Take(i), UNCHANGED row
  PROVE  [Promise!ANext]_(Promise!avars)
  <1>1. CASE i.id \in taken
    BY <1>1 DEF Take, Key, Promise!avars
  <1>2. CASE i.id \notin taken
    <2>1. i.id \in Alerts /\ mails[i.id] = 0 /\ mails \in [Alerts -> 0 .. 1]
      BY <1>2 DEF IInv, MailsTaken, Typed, Item
    <2>2. mails' = [mails EXCEPT ![i.id] = 1]
      BY <1>2, <2>1 DEF Take, Key
    <2>3. Promise!AMail(i.id)
      BY <2>1, <2>2 DEF Promise!AMail
    <2> QED
      BY <2>1, <2>3 DEF Promise!ANext
  <1> QED
    BY <1>1, <1>2

\* A mark is a step of AlertDelivery.
LEMMA MarkMoves ==
  ASSUME IInv, NEW r \in Runs, NEW i, NEW heard \in BOOLEAN, MarkStep(r, i, heard)
  PROVE  [Promise!ANext]_(Promise!avars)
  <1> DEFINE a == i.id
             y == Marked(row[a], run[r].ok)
  <1>1. /\ a \in Alerts /\ i.token # NoToken /\ run[r].ok \in BOOLEAN /\ IsRow(row[a])
        /\ row[a].token = i.token
    BY DispatchAssumption DEF MarkStep, HoldsClaim, IInv, Typed, RowsShaped, RunsTyped, Run, Item
  <1>2. phases[a] = "open"
    BY <1>1, PhaseOfStatus DEF IInv, ClaimsOpen, phases
  <1>3. phases' = [phases EXCEPT ![a] = Phase(y.status)] /\ mails' = mails
    <2>1. row' = [row EXCEPT ![a] = y] /\ RowsShaped
      BY DEF MarkStep, IInv, Typed
    <2> QED
      BY <1>1, <2>1, PhaseOfRow DEF MarkStep
  <1>4. /\ y.status \in {"delivered", "dead_letter", "retry"}
        /\ y.status = "delivered" => mails[a] = 1
    BY <1>1, MarkedRow DEF MarkStep, IInv, DeliveredMailed, MailsTaken
  <1> HIDE DEF a, y
  <1>5. CASE y.status = "delivered"
    <2>1. Promise!ADeliver(a)
      BY <1>2, <1>3, <1>4, <1>5, PhaseOfStatus DEF Promise!ADeliver, Promise!Move, phases
    <2> QED
      BY <1>1, <2>1 DEF Promise!ANext, a
  <1>6. CASE y.status = "dead_letter"
    <2>1. Promise!AGiveUp(a)
      BY <1>2, <1>3, <1>6, PhaseOfStatus DEF Promise!AGiveUp, Promise!Move, phases
    <2> QED
      BY <1>1, <2>1 DEF Promise!ANext, a
  <1>7. CASE y.status = "retry"
    BY <1>2, <1>3, <1>7, PhaseOfStatus DEF Promise!avars, phases
  <1> QED
    BY <1>4, <1>5, <1>6, <1>7

\* Every step is a step of AlertDelivery or changes nothing it speaks of.
LEMMA StepPromise ==
  ASSUME IInv, [Next]_vars
  PROVE  [Promise!ANext]_(Promise!avars)
  <1>1. CASE UNCHANGED <<row, mails>>
    BY <1>1 DEF Promise!avars
  <1>2. ASSUME UNCHANGED mails, \A a \in Alerts : row'[a].status = row[a].status
        PROVE  [Promise!ANext]_(Promise!avars)
    BY <1>2 DEF Promise!avars
  <1>3. CASE Tick
    <2>1. \A a \in Alerts : row'[a].status = row[a].status
      <3> TAKE a \in Alerts
      <3>1. IsRow(row[a])
        BY DEF IInv, Typed, RowsShaped
      <3>2. row'[a] = [row[a] EXCEPT !.wait = Monus(@), !.lease = Monus(@)]
        BY <1>3 DEF Tick
      <3> QED
        BY <3>1, <3>2 DEF IsRow
    <2> QED
      BY <1>2, <1>3, <2>1 DEF Tick
  <1>4. CASE ArriveLate
    <2>1. PICK i \in pending : Take(i)
      BY <1>4 DEF ArriveLate
    <2> QED
      BY <1>4, <2>1, TakeMails DEF ArriveLate, IInv, Typed
  <1>5. ASSUME NEW a \in Alerts, Raise(a)
        PROVE  [Promise!ANext]_(Promise!avars)
    <2>1. IsRow(row[a]) /\ RowsShaped
      BY DEF IInv, Typed, RowsShaped
    <2> DEFINE y == [row[a] EXCEPT !.status = "pending"]
    <2>2. phases' = [phases EXCEPT ![a] = "open"]
      <3>1. row' = [row EXCEPT ![a] = y] /\ y.status = "pending"
        BY <1>5, <2>1 DEF Raise, IsRow, RowsShaped
      <3> HIDE DEF y
      <3>2. phases' = [phases EXCEPT ![a] = Phase(y.status)]
        BY <2>1, <3>1, PhaseOfRow
      <3> QED
        BY <3>1, <3>2, PhaseOfStatus
    <2>3. Promise!ARaise(a)
      BY <1>5, <2>2, PhaseOfStatus DEF Raise, Promise!ARaise, Promise!Move, phases
    <2> QED
      BY <2>3 DEF Promise!ANext
  <1>6. ASSUME NEW a \in Alerts, Requeue(a)
        PROVE  [Promise!ANext]_(Promise!avars)
    <2> DEFINE y == [row[a] EXCEPT !.status = "pending", !.attempts = 0, !.wait = 0]
    <2>1. IsRow(row[a]) /\ RowsShaped
      BY DEF IInv, Typed, RowsShaped
    <2>2. phases' = [phases EXCEPT ![a] = "open"] /\ mails' = mails
      <3>1. row' = [row EXCEPT ![a] = y] /\ y.status = "pending"
        BY <1>6, <2>1 DEF Requeue, IsRow, RowsShaped
      <3> HIDE DEF y
      <3>2. phases' = [phases EXCEPT ![a] = Phase(y.status)]
        BY <2>1, <3>1, PhaseOfRow
      <3> QED
        BY <1>6, <3>1, <3>2, PhaseOfStatus DEF Requeue
    <2>3. CASE row[a].status = "retry"
      BY <2>2, <2>3, PhaseOfStatus DEF phases, Promise!avars
    <2>4. CASE row[a].status = "dead_letter"
      <3>1. Promise!AReopen(a)
        BY <2>2, <2>4, PhaseOfStatus DEF phases, Promise!AReopen, Promise!Move
      <3> QED
        BY <3>1 DEF Promise!ANext
    <2> QED
      BY <1>6, <2>3, <2>4 DEF Requeue, Requeueable
  <1>7. ASSUME NEW r \in Runs, Claim(r)
        PROVE  [Promise!ANext]_(Promise!avars)
    <2>1. PICK C, tok : ClaimStep(r, C, tok)
      BY <1>7 DEF Claim, ClaimStep
    <2>2. \A a \in Alerts : row'[a].status = row[a].status
      <3> TAKE a \in Alerts
      <3>1. IsRow(row[a])
        BY DEF IInv, Typed, RowsShaped
      <3>2. CASE a \in C
        <4>1. row'[a] = ClaimedAs(row[a], tok[a]) /\ tok[a] \in Tokens
          BY <2>1, <3>2 DEF ClaimStep, ClaimedAs
        <4> QED
          BY <3>1, <4>1, ClaimedRow
      <3>3. CASE a \notin C
        BY <2>1, <3>3 DEF ClaimStep
      <3> QED
        BY <3>2, <3>3
    <2> QED
      BY <1>2, <1>7, <2>2 DEF Claim
  <1>8. ASSUME NEW r \in Runs, Send(r)
        PROVE  [Promise!ANext]_(Promise!avars)
    <2>1. PICK i \in run[r].todo : Take(i) \/ UNCHANGED mails
      BY <1>8 DEF Send, SendAccepted, SendRefused, SendUnanswered
    <2>2. i \in Item
      BY DEF IInv, Typed, RunsTyped, Run
    <2> QED
      BY <1>1, <1>8, <2>1, <2>2, TakeMails DEF Send
  <1>9. ASSUME NEW r \in Runs, Mark(r) \/ MarkUnheard(r)
        PROVE  [Promise!ANext]_(Promise!avars)
    <2>1. PICK i \in run[r].item : \E heard \in BOOLEAN : MarkStep(r, i, heard)
      <3>1. run[r].ok \in BOOLEAN
        BY DEF IInv, Typed, RunsTyped, Run
      <3> QED
        BY <1>9, <3>1 DEF Mark, MarkUnheard, MarkStep, LostCount
    <2> QED
      BY <2>1, MarkMoves
  <1> QED
    BY <1>1, <1>3, <1>4, <1>5, <1>6, <1>7, <1>8, <1>9
    DEF Next, Work, LoseRequest, MarkRefused, MarkLost, Heartbeat, Kill, vars

\* For every number of alerts, runs and tokens: the dispatcher keeps the promise
\* of AlertDelivery (KeepsPromise).  An alert is mailed at most once, is called
\* delivered only once mailed, and for good.
THEOREM ImplementsDelivery == Spec => KeepsPromise
  <1>1. Init => Promise!AInit
    BY PhaseOfStatus DEF Init, Promise!AInit
  <1>2. IInv /\ [Next]_vars => [Promise!ANext]_(Promise!avars)
    BY StepPromise
  <1> QED
    BY <1>1, <1>2, InvHolds, PTL DEF Spec, KeepsPromise, Promise!ASpec

-----------------------------------------------------------------------------
(* Attempts and backoff *)

Longest == Max({Lease, RetryCap})

\* The longest wait is the lease or the cap of the backoff.
LEMMA LongestWait == Longest \in Nat /\ Lease <= Longest /\ RetryCap <= Longest
  <1> USE DispatchAssumption
  <1>1. \E m \in {Lease, RetryCap} : \A n \in {Lease, RetryCap} : n <= m
    OBVIOUS
  <1>2. /\ Max({Lease, RetryCap}) \in {Lease, RetryCap}
        /\ \A n \in {Lease, RetryCap} : n <= Max({Lease, RetryCap})
    BY <1>1 DEF Max
  <1> QED
    BY <1>2 DEF Longest

\* The doubled delay is capped, however often it was doubled.
LEMMA BackoffBound == ASSUME NEW n \in Nat PROVE Backoff(n + 1) \in 0 .. RetryCap
  <1>1. 2 ^ n \in Nat
    <2>1. IsFiniteSet(1 .. n) /\ Cardinality(1 .. n) = n
      BY FS_Interval
    <2>2. Cardinality(SUBSET (1 .. n)) = 2 ^ n /\ IsFiniteSet(SUBSET (1 .. n))
      BY <2>1, FS_SUBSET
    <2> QED
      BY <2>2, FS_CardinalityType
  <1>2. PICK d \in Nat : d = RetryBase * 2 ^ (n + 1 - 1)
    BY <1>1, DispatchAssumption
  <1> QED
    BY <1>2, DispatchAssumption DEF Backoff

\* What the attempts of a row say about its status.
Tallied(x) ==
  /\ x.attempts \in 0 .. MaxAttempts /\ x.wait \in 0 .. Longest
  /\ x.status \in {"absent", "pending"} => x.attempts = 0
  /\ x.status = "retry" => x.attempts \in 1 .. MaxAttempts - 1
  /\ x.status = "dead_letter" => x.attempts = MaxAttempts

RowsTallied == \A a \in Alerts : Tallied(row[a])

Ticked(x) == [x EXCEPT !.wait = Monus(x.wait), !.lease = Monus(x.lease)]
Requeued(x) == [x EXCEPT !.status = "pending", !.attempts = 0, !.wait = 0]

\* All that can happen to a row in one step.
LEMMA RowMoves ==
  ASSUME IInv, [Next]_vars, NEW a \in Alerts
  PROVE  \/ row'[a] = row[a]
         \/ row'[a] = Ticked(row[a])
         \/ row[a].status = "absent" /\ row'[a] = [row[a] EXCEPT !.status = "pending"]
         \/ row'[a] = Requeued(row[a])
         \/ \E t \in Tokens : row'[a] = ClaimedAs(row[a], t)
         \/ /\ row[a].status \in {"pending", "retry"}
            /\ \E ok \in BOOLEAN : row'[a] = Marked(row[a], ok)
  <1> DEFINE Goal == \/ row'[a] = row[a]
                     \/ row'[a] = Ticked(row[a])
                     \/ row[a].status = "absent" /\ row'[a] = [row[a] EXCEPT !.status = "pending"]
                     \/ row'[a] = Requeued(row[a])
                     \/ \E t \in Tokens : row'[a] = ClaimedAs(row[a], t)
                     \/ /\ row[a].status \in {"pending", "retry"}
                        /\ \E ok \in BOOLEAN : row'[a] = Marked(row[a], ok)
  <1>1. RowsShaped /\ ClaimsOpen
    BY DEF IInv, Typed
  <1>2. CASE Tick
    BY <1>2 DEF Tick, Ticked
  <1>3. ASSUME NEW b \in Alerts, Raise(b) PROVE Goal
    BY <1>1, <1>3 DEF Raise, RowsShaped
  <1>4. ASSUME NEW b \in Alerts, Requeue(b) PROVE Goal
    <2>1. row' = [row EXCEPT ![b] = Requeued(row[b])]
      BY <1>1, <1>4 DEF Requeue, Requeued, RowsShaped
    <2> QED
      BY <1>1, <2>1 DEF RowsShaped
  <1>5. ASSUME NEW r \in Runs, Claim(r) PROVE Goal
    <2>1. PICK C, tok : ClaimStep(r, C, tok)
      BY <1>5 DEF Claim, ClaimStep
    <2>2. CASE a \in C
      BY <2>1, <2>2 DEF ClaimStep, ClaimedAs
    <2>3. CASE a \notin C
      BY <2>1, <2>3 DEF ClaimStep
    <2> QED
      BY <2>2, <2>3
  <1>6. ASSUME NEW r \in Runs, Mark(r) \/ MarkUnheard(r) PROVE Goal
    <2>1. PICK i \in run[r].item : HoldsClaim(i) /\ row' = [row EXCEPT ![i.id] = Marked(@, run[r].ok)]
      BY <1>6 DEF Mark, MarkUnheard
    <2>2. i \in Item /\ run[r].ok \in BOOLEAN
      BY DEF IInv, Typed, RunsTyped, Run
    <2>3. row[i.id].status \in {"pending", "retry"}
      BY <1>1, <2>1, <2>2, DispatchAssumption DEF HoldsClaim, ClaimsOpen, Item
    <2> QED
      BY <1>1, <2>1, <2>2, <2>3 DEF RowsShaped
  <1>7. CASE UNCHANGED row
    BY <1>7
  <1> QED
    BY <1>2, <1>3, <1>4, <1>5, <1>6, <1>7
    DEF Next, Work, ArriveLate, LoseRequest, Send, MarkRefused, MarkLost, Heartbeat, Kill, vars

\* The mark that uses up the last attempt dead-letters, and no other does.
LEMMA MarkTallied ==
  ASSUME NEW x, IsRow(x), Tallied(x), x.status \in {"pending", "retry"}, NEW ok \in BOOLEAN
  PROVE  Tallied(Marked(x, ok))
  <1>1. PICK n \in 0 .. MaxAttempts - 1 : n = x.attempts
    BY DispatchAssumption DEF Tallied
  <1>2. PICK w \in 0 .. RetryCap : w = Backoff(n + 1)
    BY BackoffBound, DispatchAssumption
  <1> DEFINE s == IF ok THEN "delivered" ELSE IF Exhausted(n + 1) THEN "dead_letter" ELSE "retry"
             v == IF s = "retry" THEN w ELSE 0
  <1>3. Marked(x, ok) = [status |-> s, attempts |-> n + 1, wait |-> v, lease |-> 0,
                         token |-> NoToken]
    BY <1>1, <1>2 DEF Marked, IsRow
  <1>4. v \in 0 .. Longest
    BY LongestWait, DispatchAssumption
  <1>5. /\ s = "retry" => n + 1 \in 1 .. MaxAttempts - 1
        /\ s = "dead_letter" => n + 1 = MaxAttempts
        /\ s \notin {"absent", "pending"} /\ n + 1 \in 0 .. MaxAttempts
    BY DispatchAssumption DEF Exhausted
  <1> HIDE DEF s, v
  <1> QED
    BY <1>3, <1>4, <1>5 DEF Tallied

\* Every step keeps the tally of every row.
LEMMA TallyKept == IInv /\ RowsTallied /\ [Next]_vars => RowsTallied'
  <1> SUFFICES ASSUME IInv, RowsTallied, [Next]_vars, NEW a \in Alerts
               PROVE  Tallied(row'[a])
    BY DEF RowsTallied
  <1>1. IsRow(row[a]) /\ Tallied(row[a])
    BY DEF IInv, Typed, RowsShaped, RowsTallied
  <1>2. CASE row'[a] = row[a]
    BY <1>1, <1>2
  <1>3. CASE row'[a] = Ticked(row[a])
    <2>1. /\ row'[a].status = row[a].status /\ row'[a].attempts = row[a].attempts
          /\ row'[a].wait = Monus(row[a].wait)
      BY <1>1, <1>3 DEF Ticked, IsRow
    <2> QED
      BY <1>1, <2>1, LongestWait DEF Tallied, Monus
  <1>4. CASE row[a].status = "absent" /\ row'[a] = [row[a] EXCEPT !.status = "pending"]
    <2>1. /\ row'[a].status = "pending" /\ row'[a].attempts = row[a].attempts
          /\ row'[a].wait = row[a].wait
      BY <1>1, <1>4 DEF IsRow
    <2> QED
      BY <1>1, <1>4, <2>1 DEF Tallied
  <1>5. CASE row'[a] = Requeued(row[a])
    <2>1. row'[a].status = "pending" /\ row'[a].attempts = 0 /\ row'[a].wait = 0
      BY <1>1, <1>5 DEF Requeued, IsRow
    <2> QED
      BY <2>1, LongestWait, DispatchAssumption DEF Tallied
  <1>6. ASSUME NEW t \in Tokens, row'[a] = ClaimedAs(row[a], t)
        PROVE  Tallied(row'[a])
    <2>1. /\ row'[a].status = row[a].status /\ row'[a].attempts = row[a].attempts
          /\ row'[a].wait = Lease
      BY <1>1, <1>6 DEF ClaimedAs, IsRow
    <2> QED
      BY <1>1, <2>1, LongestWait, DispatchAssumption DEF Tallied
  <1>7. ASSUME row[a].status \in {"pending", "retry"}, NEW ok \in BOOLEAN,
               row'[a] = Marked(row[a], ok)
        PROVE  Tallied(row'[a])
    BY <1>1, <1>7, MarkTallied
  <1> QED
    BY <1>2, <1>3, <1>4, <1>5, <1>6, <1>7, RowMoves

\* The counters stay within their bounds.
LEMMA CountsKept == IInv /\ CountsTyped /\ [Next]_vars => CountsTyped'
  <1> SUFFICES ASSUME IInv, CountsTyped, [Next]_vars
               PROVE  CountsTyped'
    OBVIOUS
  <1>1. ASSUME NEW r \in Runs, Heartbeat(r)
        PROVE  CountsTyped'
    <2>1. run[r].delivered \in Nat
      BY DEF IInv, Typed, RunsTyped, Run
    <2> QED
      BY <1>1, <2>1 DEF Heartbeat, CountsTyped
  <1>2. ASSUME NEW r \in Runs, MarkUnheard(r) \/ MarkLost(r) \/ Kill(r)
        PROVE  CountsTyped'
    BY <1>2, DispatchAssumption DEF MarkUnheard, MarkLost, Kill, CountsTyped
  <1>3. ASSUME NEW a \in Alerts, Requeue(a)
        PROVE  CountsTyped'
    BY <1>3, DispatchAssumption DEF Requeue, CountsTyped
  <1>4. CASE UNCHANGED <<reported, faults, requeues>>
    BY <1>4 DEF CountsTyped
  <1> QED
    BY <1>1, <1>2, <1>3, <1>4
    DEF Next, Work, Tick, ArriveLate, LoseRequest, Raise, Claim, Send, Mark, MarkRefused, vars

\* What holds beside IInv of attempts, waits and counters in every run.
LEMMA TallyHolds == Spec => [](IInv /\ RowsTallied /\ CountsTyped)
  <1>1. Init => RowsTallied /\ CountsTyped
    BY LongestWait, DispatchAssumption DEF Init, RowsTallied, Tallied, CountsTyped
  <1> QED
    BY <1>1, InitInv, NextInv, TallyKept, CountsKept, PTL DEF Spec

\* For every number of allowed attempts, runs and faults: an alert is retried
\* while attempts are left and dead-lettered by the last one, however marks,
\* requeues and expired leases interleave (AttemptsMatchStatus).
THEOREM AttemptsAgree == Spec => []AttemptsMatchStatus
  <1>1. RowsTallied => AttemptsMatchStatus
    BY DEF RowsTallied, Tallied, AttemptsMatchStatus
  <1> QED
    BY <1>1, TallyHolds, PTL

\* Types of rows, runs and mails, with attempts and waits within their bounds
\* however often a backoff was doubled (TypeOK).
THEOREM TypesHold == Spec => []TypeOK
  <1>1. IInv /\ RowsTallied /\ CountsTyped => TypeOK
    <2> SUFFICES ASSUME IInv, RowsTallied, CountsTyped
                 PROVE  TypeOK
      OBVIOUS
    <2>1. RowsTyped
      <3>1. ASSUME NEW a \in Alerts PROVE row[a] \in Row
        <4>1. IsRow(row[a]) /\ row[a].attempts \in Nat /\ row[a].wait \in Nat
          BY LongestWait DEF IInv, Typed, RowsShaped, RowsTallied, Tallied
        <4> QED
          BY <4>1 DEF IsRow, Row
      <3> QED
        BY <3>1 DEF RowsTyped, IInv, Typed, RowsShaped
    <2>2. Bounded
      <3>1. Bounded <=>
              \A a \in Alerts : row[a].attempts <= MaxAttempts /\ row[a].wait <= Longest
        BY DEF Bounded, Longest
      <3> QED
        BY <3>1, LongestWait DEF RowsTallied, Tallied
    <2>3. RunsTyped /\ MailTyped
      BY DEF IInv, Typed, MailTyped
    <2> QED
      BY <2>1, <2>2, <2>3 DEF TypeOK
  <1> QED
    BY <1>1, TallyHolds, PTL

-----------------------------------------------------------------------------
(* Reports *)

DeliveredAlerts == {a \in Alerts : row[a].status = "delivered"}
CountOf == [r \in Runs |-> run[r].delivered]
CountsAll == SumOf(CountOf, Runs)

\* What the heartbeats have reported and will report is delivered.
ReportsCovered ==
  IsFiniteSet(DeliveredAlerts) /\ reported + CountsAll <= Cardinality(DeliveredAlerts)

\* The sum of the property is the sum over the counters.
LEMMA CountsAdded ==
  ASSUME IInv
  PROVE  MapThenSumSet(LAMBDA r : run[r].delivered, Runs) = CountsAll
  <1> DEFINE Solves(g) == g = [s \in SUBSET Runs |->
                            IF s = {} THEN 0
                            ELSE run[CHOOSE x \in s : TRUE].delivered
                                   + g[s \ {CHOOSE x \in s : TRUE}]]
  <1>1. \A s \in SUBSET Runs : s # {} =>
          CountOf[CHOOSE x \in s : TRUE] = run[CHOOSE x \in s : TRUE].delivered
    BY DEF CountOf
  <1>2. ASSUME NEW g PROVE Solves(g) <=> Adds(g, CountOf, Runs)
    BY <1>1 DEF Adds
  <1>3. MapThenSumSet(LAMBDA r : run[r].delivered, Runs) = (CHOOSE g : Solves(g))[Runs]
    BY DEF MapThenSumSet, MapThenFoldSet
  <1>4. (CHOOSE g : Solves(g)) = CHOOSE g : Adds(g, CountOf, Runs)
    <2> HIDE DEF Solves
    <2> QED
      BY <1>2
  <1> QED
    BY <1>3, <1>4, SumIsFold DEF CountsAll, SumOf

\* A step of one run changes the sum as it changes that run's counter.
LEMMA CountMoves ==
  ASSUME IInv, IInv', NEW r \in Runs,
         \A s \in Runs \ {r} : run'[s].delivered = run[s].delivered
  PROVE  /\ CountsAll \in Nat /\ CountsAll' \in Nat
         /\ run[r].delivered \in Nat /\ run'[r].delivered \in Nat
         /\ CountsAll' + run[r].delivered = CountsAll + run'[r].delivered
  <1>1. /\ \A s \in Runs : CountOf[s] \in Nat /\ CountOf[s] = run[s].delivered
        /\ \A s \in Runs : CountOf'[s] \in Nat /\ CountOf'[s] = run'[s].delivered
    BY DEF IInv, Typed, RunsTyped, Run, CountOf
  <1>2. IsFiniteSet(Runs)
    BY DispatchAssumption
  <1>3. SumOf(CountOf, Runs) \in Nat /\ SumOf(CountOf', Runs) \in Nat
    BY <1>1, <1>2, SumType
  <1>4. \A s \in Runs \ {r} : CountOf'[s] = CountOf[s]
    BY <1>1
  <1>5. SumOf(CountOf', Runs) + CountOf[r] = SumOf(CountOf, Runs) + CountOf'[r]
    BY <1>1, <1>2, <1>4, SumChange
  <1> QED
    BY <1>1, <1>3, <1>5 DEF CountsAll

\* A committed mark that the run may count delivers an alert that was open.
LEMMA MarkCovered ==
  ASSUME IInv, IInv', CountsTyped, ReportsCovered, NEW r \in Runs, NEW i, NEW heard \in BOOLEAN,
         MarkStep(r, i, heard), heard => run[r].ok, UNCHANGED reported
  PROVE  ReportsCovered'
  <1>1. /\ i \in Item /\ i.id \in Alerts /\ IsRow(row[i.id]) /\ RowsShaped
        /\ run[r] \in Run /\ run[r].ok \in BOOLEAN /\ row[i.id].token # NoToken
    BY DispatchAssumption DEF MarkStep, HoldsClaim, IInv, Typed, RowsShaped, RunsTyped, Run, Item
  <1>2. row[i.id].status # "delivered"
    BY <1>1 DEF IInv, ClaimsOpen
  <1> DEFINE y == Marked(row[i.id], run[r].ok)
  <1>3. row' = [row EXCEPT ![i.id] = y] /\ (y.status = "delivered" <=> run[r].ok)
    BY <1>1, MarkedRow DEF MarkStep
  <1> HIDE DEF y
  <1>4. DeliveredAlerts' = IF run[r].ok THEN DeliveredAlerts \cup {i.id} ELSE DeliveredAlerts
    BY <1>1, <1>2, <1>3 DEF DeliveredAlerts, RowsShaped
  <1>5. i.id \notin DeliveredAlerts
    BY <1>2 DEF DeliveredAlerts
  <1>6. /\ IsFiniteSet(DeliveredAlerts') /\ Cardinality(DeliveredAlerts) \in Nat
        /\ Cardinality(DeliveredAlerts') = Cardinality(DeliveredAlerts) + IF run[r].ok THEN 1 ELSE 0
    BY <1>1, <1>4, <1>5, FS_AddElement, FS_CardinalityType DEF ReportsCovered
  <1>7. /\ \A s \in Runs \ {r} : run'[s].delivered = run[s].delivered
        /\ run'[r].delivered = run[r].delivered + IF heard THEN 1 ELSE 0
    BY <1>1 DEF MarkStep, NextAlert, IInv, Typed, RunsTyped, Run
  <1>8. /\ CountsAll \in Nat /\ CountsAll' \in Nat /\ run[r].delivered \in Nat
        /\ CountsAll' + run[r].delivered = CountsAll + run'[r].delivered
    BY <1>7, CountMoves
  <1>9. CountsAll' = CountsAll + IF heard THEN 1 ELSE 0
    BY <1>7, <1>8
  <1> QED
    BY <1>1, <1>6, <1>8, <1>9 DEF ReportsCovered, CountsTyped

\* A step that delivers nothing and counts nothing.
LEMMA IdleCovered ==
  ASSUME IInv, IInv', CountsTyped, ReportsCovered,
         \A a \in Alerts : row'[a].status = "delivered" <=> row[a].status = "delivered",
         NEW r \in Runs, \A s \in Runs \ {r} : run'[s].delivered = run[s].delivered,
         reported' + run'[r].delivered <= reported + run[r].delivered, reported' \in Nat
  PROVE  ReportsCovered'
  <1>1. DeliveredAlerts' = DeliveredAlerts
    BY DEF DeliveredAlerts
  <1>2. Cardinality(DeliveredAlerts) \in Nat
    BY FS_CardinalityType DEF ReportsCovered
  <1>3. /\ CountsAll \in Nat /\ CountsAll' \in Nat
        /\ run[r].delivered \in Nat /\ run'[r].delivered \in Nat
        /\ CountsAll' + run[r].delivered = CountsAll + run'[r].delivered
    BY CountMoves
  <1> QED
    BY <1>1, <1>2, <1>3 DEF ReportsCovered, CountsTyped

\* No step makes the heartbeats report what is not delivered.
LEMMA ReportsKept == IInv /\ CountsTyped /\ ReportsCovered /\ [Next]_vars => ReportsCovered'
  <1> SUFFICES ASSUME IInv, CountsTyped, ReportsCovered, [Next]_vars
               PROVE  ReportsCovered'
    OBVIOUS
  <1>1. IInv' /\ CountsTyped'
    BY NextInv, CountsKept
  <1>2. \A s \in Runs : run[s] \in Run /\ run[s].delivered \in Nat
    BY DEF IInv, Typed, RunsTyped, Run
  <1>3. reported \in Nat /\ reported' \in Nat
    BY <1>1 DEF CountsTyped
  <1>4. ASSUME UNCHANGED reported, \A s \in Runs : run'[s].delivered = run[s].delivered,
               \A a \in Alerts : row'[a].status = "delivered" <=> row[a].status = "delivered"
        PROVE  ReportsCovered'
    <2>1. CASE Runs = {}
      <3>1. CountsAll = 0 /\ CountsAll' = 0
        BY <2>1, SumEmpty DEF CountsAll
      <3>2. DeliveredAlerts' = DeliveredAlerts
        BY <1>4 DEF DeliveredAlerts
      <3> QED
        BY <1>4, <3>1, <3>2 DEF ReportsCovered
    <2>2. ASSUME NEW r \in Runs PROVE ReportsCovered'
      BY <1>1, <1>2, <1>3, <1>4, <2>2, IdleCovered
    <2> QED
      BY <2>1, <2>2
  <1>5. CASE Tick
    <2>1. ASSUME NEW a \in Alerts PROVE row'[a].status = row[a].status
      <3>1. IsRow(row[a]) /\ row'[a] = [row[a] EXCEPT !.wait = Monus(@), !.lease = Monus(@)]
        BY <1>5 DEF Tick, IInv, Typed, RowsShaped
      <3> QED
        BY <3>1 DEF IsRow
    <2>2. ASSUME NEW s \in Runs PROVE run'[s].delivered = run[s].delivered
      BY <1>2, <1>5 DEF Tick, Run
    <2> QED
      BY <1>4, <1>5, <2>1, <2>2 DEF Tick
  <1>6. ASSUME NEW a \in Alerts, Raise(a) \/ Requeue(a)
        PROVE  ReportsCovered'
    <2>1. row = [b \in Alerts |-> row[b]] /\ IsRow(row[a])
      BY DEF IInv, Typed, RowsShaped
    <2>2. \A b \in Alerts : row'[b].status = "delivered" <=> row[b].status = "delivered"
      BY <1>6, <2>1 DEF Raise, Requeue, Requeueable, IsRow
    <2> QED
      BY <1>4, <1>6, <2>2 DEF Raise, Requeue
  <1>7. ASSUME NEW r \in Runs, Claim(r)
        PROVE  ReportsCovered'
    <2>1. PICK C, tok : ClaimStep(r, C, tok)
      BY <1>7 DEF Claim, ClaimStep
    <2>2. ASSUME NEW a \in Alerts PROVE row'[a].status = row[a].status
      <3>1. IsRow(row[a])
        BY DEF IInv, Typed, RowsShaped
      <3>2. CASE a \in C
        <4>1. row'[a] = ClaimedAs(row[a], tok[a]) /\ tok[a] \in Tokens
          BY <2>1, <3>2 DEF ClaimStep, ClaimedAs
        <4> QED
          BY <3>1, <4>1, ClaimedRow
      <3>3. CASE a \notin C
        BY <2>1, <3>3 DEF ClaimStep
      <3> QED
        BY <3>2, <3>3
    <2>3. run'[r].delivered = 0 /\ \A s \in Runs \ {r} : run'[s].delivered = run[s].delivered
      BY <2>1 DEF ClaimStep, IdleRun, IInv, Typed, RunsTyped
    <2>4. UNCHANGED reported
      BY <1>7 DEF Claim
    <2> QED
      BY <1>1, <1>2, <1>3, <2>2, <2>3, <2>4, IdleCovered
  <1>8. ASSUME NEW r \in Runs, Send(r)
        PROVE  ReportsCovered'
    <2>1. PICK i, ok : Answered(r, i, ok)
      BY <1>8 DEF Send, SendAccepted, SendRefused, SendUnanswered
    <2>2. \A s \in Runs : run'[s].delivered = run[s].delivered
      BY <1>2, <2>1 DEF Answered, IInv, Typed, RunsTyped, Run
    <2> QED
      BY <1>4, <1>8, <2>2 DEF Send
  <1>9. ASSUME NEW r \in Runs, Mark(r) \/ MarkUnheard(r)
        PROVE  ReportsCovered'
    <2>1. PICK i \in run[r].item :
            \E heard \in BOOLEAN : MarkStep(r, i, heard) /\ (heard => run[r].ok)
      BY <1>2, <1>9 DEF Mark, MarkUnheard, MarkStep, LostCount, Run
    <2> QED
      BY <1>1, <1>9, <2>1, MarkCovered DEF Mark, MarkUnheard
  <1>10. ASSUME NEW r \in Runs, MarkRefused(r) \/ MarkLost(r)
         PROVE  ReportsCovered'
    <2>1. \A s \in Runs : run'[s].delivered = run[s].delivered
      BY <1>2, <1>10 DEF MarkRefused, MarkLost, NextAlert, LostCount, IInv, Typed, RunsTyped, Run
    <2> QED
      BY <1>4, <1>10, <2>1 DEF MarkRefused, MarkLost
  <1>11. ASSUME NEW r \in Runs, Heartbeat(r) \/ Kill(r)
         PROVE  ReportsCovered'
    <2>1. run'[r].delivered = 0 /\ \A s \in Runs \ {r} : run'[s].delivered = run[s].delivered
      BY <1>11 DEF Heartbeat, Kill, IdleRun, IInv, Typed, RunsTyped
    <2>2. UNCHANGED row /\ reported' <= reported + run[r].delivered
      BY <1>2, <1>3, <1>11 DEF Heartbeat, Kill
    <2> QED
      BY <1>1, <1>2, <1>3, <2>1, <2>2, IdleCovered
  <1>12. CASE ArriveLate \/ LoseRequest \/ UNCHANGED vars
    BY <1>4, <1>12 DEF ArriveLate, LoseRequest, vars
  <1> QED
    BY <1>5, <1>6, <1>7, <1>8, <1>9, <1>10, <1>11, <1>12 DEF Next, Work

\* For every number of alerts, runs and faults: the heartbeats of all runs
\* together never report more deliveries than there are delivered alerts,
\* although marks are lost, refused or unanswered (ReportedIsReal).
THEOREM ReportsAreReal == Spec => []ReportedIsReal
  <1>1. Init => ReportsCovered
    <2> SUFFICES ASSUME Init PROVE ReportsCovered
      OBVIOUS
    <2>1. DeliveredAlerts = {}
      BY DEF Init, DeliveredAlerts
    <2>2. CountsAll = 0
      BY SumZero, DispatchAssumption DEF Init, IdleRun, CountOf, CountsAll
    <2> QED
      BY <2>1, <2>2, FS_EmptySet DEF Init, ReportsCovered
  <1>2. IInv /\ ReportsCovered => ReportedIsReal
    BY CountsAdded DEF ReportsCovered, ReportedIsReal, DeliveredAlerts
  <1> QED
    BY <1>1, <1>2, InitInv, NextInv, TallyHolds, ReportsKept, PTL DEF Spec

=============================================================================
