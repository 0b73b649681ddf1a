--------------------------- MODULE MonitorsProofs ---------------------------
(***************************************************************************)
(* Proofs about Monitors: for any number of checks, entities and blocks,   *)
(* alarms are real, no change is passed over in silence, and the status is *)
(* that of the analysis beside it.                                         *)
(***************************************************************************)
EXTENDS Monitors, FiniteSetTheorems, TLAPS

-----------------------------------------------------------------------------
(* The inductive invariant *)

Pending == {Reported(check[k]) : k \in {j \in Checks : check[j].pc = "alert" /\ check[j].alarm}}
Reports == alerts \cup Pending \cup lost

\* Every change of e up to block b that came after its baseline is in some report.
Covered(e, b) ==
  \A c \in changes[e] : baseline[e] < c /\ c <= b =>
    \E a \in Reports : a.entity = e /\ a.from < c /\ c <= a.to

Real(a) == a.from < a.to /\ a.to <= head /\ Code(a.entity, a.from) # Code(a.entity, a.to)

\* What a check holds: what it compares with is covered until it is stored again,
\* what it found is newer, and it raises the alarm if there is a change between.
Sound(c) ==
  /\ c.pc = "analyse" => c.entity \in Entities
  /\ c.previous # NoSnapshot => c.previous.block <= head
  /\ c.snapshot # NoSnapshot => c.snapshot.block <= head
  /\ c.alarm => /\ c.pc \in {"load", "flush", "alert"}
                /\ c.previous # NoSnapshot /\ c.snapshot # NoSnapshot
                /\ Real(Reported(c))
  /\ c.previous # NoSnapshot /\ c.snapshot # NoSnapshot =>
       /\ c.previous.entity = c.snapshot.entity
       /\ ~c.alarm => \A x \in changes[c.snapshot.entity] :
                        ~(c.previous.block < x /\ x <= c.snapshot.block)
  /\ monitor.exists /\ c.pc \in {"analyse", "load", "flush"} /\ c.previous # NoSnapshot =>
       Covered(c.previous.entity, c.previous.block)

RowSound ==
  monitor.snapshot # NoSnapshot =>
    /\ monitor.snapshot.block <= head
    /\ monitor.exists => Covered(monitor.snapshot.entity, monitor.snapshot.block)

StatusSound ==
  monitor.analysis # None =>
    /\ check[monitor.analysis].pc \in {"alert", "done"}
    /\ ~monitor.mixed => monitor.status = check[monitor.analysis].status

IInv ==
  /\ TypeOK
  /\ \A e \in Entities : changes[e] \subseteq 1 .. head
  /\ \A k \in Checks : Sound(check[k])
  /\ RowSound
  /\ \A a \in alerts : Real(a)
  /\ StatusSound

\* A missing snapshot is told from every stored one.
LEMMA NotASnapshot == NoSnapshot \notin Snapshot
BY DEF NoSnapshot, Snapshot

\* The counts of two blocks differ as soon as one change lies between them.
LEMMA CountsDiffer ==
  ASSUME IInv, NEW e \in Entities, NEW p \in Nat, NEW b \in Nat, NEW x \in changes[e],
         p < x, x <= b
  PROVE  Code(e, p) # Code(e, b)
<1> DEFINE P == {c \in changes[e] : c <= p}
           B == {c \in changes[e] : c <= b}
<1>1. head \in Nat /\ changes[e] \subseteq 1 .. head
  BY MonitorsAssumption DEF IInv, TypeOK
<1>2. IsFiniteSet(B)
  BY <1>1, FS_Interval, FS_Subset
<1>3. P \subseteq B /\ x \in B /\ x \notin P
  BY <1>1
<1>4. Cardinality(P) # Cardinality(B)
  BY <1>2, <1>3, FS_Subset
<1> QED  BY <1>4 DEF Code

-----------------------------------------------------------------------------
(* Steps *)

\* A new monitor that nobody has checked yet.
LEMMA InitInv == Init => IInv
<1> SUFFICES ASSUME Init PROVE IInv
  OBVIOUS
<1> USE MonitorsAssumption, NotASnapshot
<1>1. Idle \in CheckState
  BY DEF Idle, CheckState, Statuses
<1>2. TypeOK
  BY <1>1 DEF Init, TypeOK, Row
<1>3. \A e \in Entities : changes[e] \subseteq 1 .. head
  BY DEF Init
<1>4. \A k \in Checks : Sound(check[k])
  BY DEF Init, Sound, Idle
<1>5. RowSound /\ StatusSound /\ \A a \in alerts : Real(a)
  BY DEF Init, RowSound, StatusSound
<1> QED  BY <1>2, <1>3, <1>4, <1>5 DEF IInv

\* A check moves on to r: the rest of what it changes has to be sound, and no
\* report may be forgotten while the monitor is there.
LEMMA StepInv ==
  ASSUME IInv, NEW k \in Checks, NEW r \in CheckState,
         check' = [check EXCEPT ![k] = r],
         UNCHANGED <<head, changes, edits>>, crashes' \in 0 .. MaxCrashes,
         monitor' \in Row, monitor'.exists = monitor.exists,
         baseline' \in [Entities -> 0 .. MaxBlock],
         \A e \in Entities : baseline[e] <= baseline'[e],
         alerts' \subseteq Stretch, lost' \subseteq Stretch,
         \A a \in alerts' : Real(a),
         monitor.exists => Reports \subseteq Reports',
         Sound(r)', RowSound', StatusSound'
  PROVE  IInv'
<1>1. TypeOK'
  BY DEF IInv, TypeOK
<1>2. \A e \in Entities : changes'[e] \subseteq 1 .. head'
  BY DEF IInv
<1>3. ASSUME NEW e \in Entities, NEW b \in Nat, Covered(e, b), monitor.exists
      PROVE  Covered(e, b)'
  <2> SUFFICES ASSUME NEW c \in changes[e], baseline'[e] < c, c <= b
               PROVE  \E a \in Reports' : a.entity = e /\ a.from < c /\ c <= a.to
    BY DEF Covered
  <2>1. baseline[e] < c
    <3>1. c \in Nat /\ baseline[e] \in Nat /\ baseline'[e] \in Nat
      BY MonitorsAssumption DEF IInv, TypeOK
    <3> QED  BY <3>1
  <2> QED  BY <1>3, <2>1 DEF Covered
<1>4. ASSUME NEW j \in Checks PROVE Sound(check[j])'
  <2>1. CASE j = k
    BY <2>1 DEF IInv, TypeOK
  <2>2. CASE j # k
    <3>1. check'[j] = check[j] /\ check[j] \in CheckState
      BY <2>2 DEF IInv, TypeOK
    <3>2. Sound(check[j])
      BY DEF IInv
    <3> DEFINE c == check[j]
    <3>3. c.previous # NoSnapshot => c.previous.entity \in Entities /\ c.previous.block \in Nat
      BY <3>1 DEF CheckState, Snapshot
    <3>4. Real(Reported(c)) => Real(Reported(c))'
      BY <3>1 DEF Real, Reported, Code
    <3> QED  BY <1>3, <3>1, <3>2, <3>3, <3>4 DEF Sound
  <2> QED  BY <2>1, <2>2
<1>5. \A a \in alerts' : Real(a)'
  BY DEF Real, Code
<1> QED  BY <1>1, <1>2, <1>4, <1>5 DEF IInv

\* The chain goes on beyond everything that was read of it.
LEMMA AdvanceInv == IInv /\ Advance => IInv'
<1> SUFFICES ASSUME IInv, Advance PROVE IInv'
  OBVIOUS
<1> USE MonitorsAssumption, NotASnapshot
<1>1. head \in 1 .. MaxBlock /\ head' = head + 1 /\ head' \in 1 .. MaxBlock
  BY DEF IInv, TypeOK, Advance
<1>2. PICK S \in SUBSET Entities :
        changes' = [e \in Entities |-> IF e \in S THEN changes[e] \cup {head + 1} ELSE changes[e]]
  BY DEF Advance
<1>3. UNCHANGED <<monitor, check, alerts, baseline, lost, edits, crashes>>
  BY DEF Advance
<1>4. \A e \in Entities : changes[e] \subseteq 1 .. head
  BY DEF IInv
<1>5. \A e \in Entities : changes'[e] \subseteq 1 .. head'
  BY <1>1, <1>2, <1>4
<1>6. \A e \in Entities : changes'[e] \subseteq 1 .. MaxBlock
  BY <1>1, <1>5
<1>7. changes' \in [Entities -> SUBSET (1 .. MaxBlock)]
  BY <1>2, <1>6
<1>8. TypeOK'
  BY <1>1, <1>3, <1>7 DEF IInv, TypeOK
<1>9. \A e \in Entities, b \in Nat :
        b <= head => {c \in changes'[e] : c <= b} = {c \in changes[e] : c <= b}
  BY <1>1, <1>2, <1>4
<1>10. \A e \in Entities, b \in Nat : b <= head => Code(e, b)' = Code(e, b)
  BY <1>9 DEF Code
<1>11. \A e \in Entities, b \in Nat : b <= head /\ Covered(e, b) => Covered(e, b)'
  <2> SUFFICES ASSUME NEW e \in Entities, NEW b \in Nat, b <= head, Covered(e, b),
                      NEW c \in changes'[e], baseline'[e] < c, c <= b
               PROVE  \E a \in Reports' : a.entity = e /\ a.from < c /\ c <= a.to
    BY DEF Covered
  <2>1. c \in changes[e]
    BY <1>9
  <2>2. Reports' = Reports
    BY <1>3 DEF Reports, Pending, Reported
  <2> QED  BY <1>3, <2>1, <2>2 DEF Covered
<1>12. \A a \in Stretch : Real(a) => Real(a)'
  <2> SUFFICES ASSUME NEW a \in Stretch, Real(a) PROVE Real(a)'
    OBVIOUS
  <2>1. a.entity \in Entities /\ a.from \in Nat /\ a.to \in Nat
    BY DEF Stretch
  <2>2. a.from <= head /\ a.to <= head /\ a.to <= head'
    BY <1>1, <2>1 DEF Real
  <2> QED  BY <1>10, <2>1, <2>2 DEF Real
<1>13. ASSUME NEW k \in Checks PROVE Sound(check[k])'
  <2>1. PICK c \in CheckState : c = check[k] /\ Sound(c) /\ check'[k] = c
    BY <1>3 DEF IInv, TypeOK
  <2>2. /\ c.previous # NoSnapshot => c.previous \in Snapshot
        /\ c.snapshot # NoSnapshot => c.snapshot \in Snapshot
    BY <2>1 DEF CheckState
  <2>3. c.previous # NoSnapshot =>
          c.previous.block \in Nat /\ c.previous.block <= head /\ c.previous.entity \in Entities
    BY <2>1, <2>2 DEF Sound, Snapshot
  <2>4. c.snapshot # NoSnapshot =>
          c.snapshot.block \in Nat /\ c.snapshot.block <= head /\ c.snapshot.entity \in Entities
    BY <2>1, <2>2 DEF Sound, Snapshot
  <2>5. c.alarm => Reported(c) \in Stretch
    BY <2>1, <2>2 DEF Sound, Reported, Stretch, Snapshot
  <2>6. c.alarm => Real(Reported(c))'
    BY <1>12, <2>1, <2>5 DEF Sound, Reported
  <2>7. c.snapshot # NoSnapshot =>
          \A x \in changes'[c.snapshot.entity] : x <= c.snapshot.block =>
            x \in changes[c.snapshot.entity]
    BY <1>9, <2>4
  <2>8. monitor'.exists /\ c.pc \in {"analyse", "load", "flush"} /\ c.previous # NoSnapshot =>
          Covered(c.previous.entity, c.previous.block)'
    BY <1>3, <1>11, <2>1, <2>3 DEF Sound
  <2>9. /\ c.previous # NoSnapshot => c.previous.block <= head'
        /\ c.snapshot # NoSnapshot => c.snapshot.block <= head'
    BY <1>1, <2>3, <2>4
  <2>10. Sound(c)'
    BY <2>1, <2>6, <2>7, <2>8, <2>9 DEF Sound
  <2> QED  BY <2>1, <2>10
<1>14. RowSound'
  <2>1. monitor.snapshot # NoSnapshot => monitor.snapshot \in Snapshot
    BY DEF IInv, TypeOK, Row
  <2>2. monitor.snapshot # NoSnapshot =>
          monitor.snapshot.block \in Nat /\ monitor.snapshot.entity \in Entities
    BY <2>1 DEF Snapshot
  <2> QED  BY <1>1, <1>3, <1>11, <2>2 DEF IInv, RowSound
<1>15. \A a \in alerts' : Real(a)'
  BY <1>3, <1>12 DEF IInv, TypeOK
<1>16. StatusSound'
  BY <1>3 DEF IInv, StatusSound
<1> QED  BY <1>5, <1>8, <1>13, <1>14, <1>15, <1>16 DEF IInv

\* A step that moves one check forgets no report if it passes on the one it held.
LEMMA ReportsKept ==
  ASSUME IInv, NEW k \in Checks, NEW r, check' = [check EXCEPT ![k] = r],
         alerts \subseteq alerts', lost \subseteq lost',
         check[k].pc = "alert" /\ check[k].alarm => Reported(check[k]) \in alerts' \cup lost'
  PROVE  Reports \subseteq Reports'
<1> SUFFICES ASSUME NEW a \in Pending PROVE a \in Reports'
  BY DEF Reports
<1>1. PICK j \in Checks : check[j].pc = "alert" /\ check[j].alarm /\ a = Reported(check[j])
  BY DEF Pending
<1>2. CASE j = k
  BY <1>1, <1>2 DEF Reports
<1>3. CASE j # k
  <2>1. check'[j] = check[j]
    BY <1>3 DEF IInv, TypeOK
  <2> QED  BY <1>1, <2>1 DEF Reports, Pending, Reported
<1> QED  BY <1>2, <1>3

\* What stays the same when a step changes no more than one check.
LEMMA MoveInv ==
  ASSUME IInv, NEW k \in Checks, NEW r \in CheckState,
         check' = [check EXCEPT ![k] = r],
         UNCHANGED <<head, changes, monitor, baseline, alerts, lost, edits, crashes>>,
         check[k].pc \notin {"alert", "done"},
         Reports \subseteq Reports' => Sound(r)'
  PROVE  IInv'
<1>1. Reports \subseteq Reports'
  BY ReportsKept
<1>2. RowSound'
  <2> SUFFICES ASSUME monitor.snapshot # NoSnapshot, monitor.exists
               PROVE  Covered(monitor.snapshot.entity, monitor.snapshot.block)'
    BY DEF IInv, RowSound
  <2> QED  BY <1>1 DEF IInv, RowSound, Covered
<1>3. StatusSound'
  <2>1. monitor.analysis # k
    BY MonitorsAssumption DEF IInv, StatusSound
  <2> QED  BY <2>1 DEF IInv, StatusSound, TypeOK, Row
<1>4. \A e \in Entities : baseline[e] <= baseline'[e]
  BY MonitorsAssumption DEF IInv, TypeOK
<1> QED  BY <1>1, <1>2, <1>3, <1>4, StepInv DEF IInv, TypeOK

\* Begin: what the row's snapshot covers, the check's past covers.
LEMMA BeginInv == ASSUME IInv, NEW k \in Checks, Begin(k) PROVE IInv'
<1>1. PICK r : r = [pc |-> "analyse", entity |-> monitor.entity, feed |-> monitor.feed,
                    previous |-> monitor.snapshot, snapshot |-> NoSnapshot, status |-> "none",
                    loaded |-> "none", alarm |-> FALSE]
  OBVIOUS
<1>2. check' = [check EXCEPT ![k] = r]
  BY <1>1 DEF Begin
<1>3. r \in CheckState
  BY <1>1, MonitorsAssumption DEF CheckState, IInv, TypeOK, Row, Statuses
<1>4. UNCHANGED <<head, changes, monitor, baseline, alerts, lost, edits, crashes>>
  BY DEF Begin, outside
<1>5. check[k].pc = "idle"
  BY DEF Begin
<1>6. ASSUME Reports \subseteq Reports' PROVE Sound(r)'
  <2>1. monitor.entity \in Entities
    BY DEF IInv, TypeOK, Row
  <2>2. monitor.snapshot # NoSnapshot =>
          /\ monitor.snapshot.block <= head
          /\ monitor.exists => Covered(monitor.snapshot.entity, monitor.snapshot.block)'
    BY <1>4, <1>6 DEF IInv, RowSound, Covered
  <2> QED  BY <1>1, <1>4, <2>1, <2>2 DEF Sound
<1> QED  BY <1>2, <1>3, <1>4, <1>5, <1>6, MoveInv

\* An analysis that found nothing, or was refused, has nothing to answer for.
LEMMA NothingFound ==
  ASSUME IInv, NEW k \in Checks, check[k].pc = "analyse", NEW s \in Statuses,
         Analysed(k, NoSnapshot, s, FALSE)
  PROVE  IInv'
<1>1. PICK r : r = [pc |-> "load", entity |-> None, feed |-> FALSE, previous |-> NoSnapshot,
                    snapshot |-> NoSnapshot, status |-> s, loaded |-> "none", alarm |-> FALSE]
  OBVIOUS
<1>2. check' = [check EXCEPT ![k] = r]
  BY <1>1 DEF Analysed
<1>3. r \in CheckState
  BY <1>1, MonitorsAssumption DEF CheckState, Statuses
<1>4. UNCHANGED <<head, changes, monitor, baseline, alerts, lost, edits, crashes>>
  BY DEF Analysed, outside
<1>5. ASSUME Reports \subseteq Reports' PROVE Sound(r)'
  BY <1>1, <1>4 DEF Sound
<1> QED  BY <1>2, <1>3, <1>4, <1>5, MoveInv

\* An analysis that found a snapshot raises the alarm when it differs from the past.
LEMMA SnapshotFound ==
  ASSUME IInv, NEW k \in Checks, check[k].pc = "analyse", ~Foreign(check[k]),
         NEW b \in 1 .. head, NEW oracle \in {FALSE, check[k].feed},
         Analysed(k, [entity |-> check[k].entity, block |-> b, oracle |-> oracle], "PARTIAL",
           /\ Compared(check[k], b)
           /\ Code(check[k].previous.entity, check[k].previous.block) # Code(check[k].entity, b))
  PROVE  IInv'
<1> USE MonitorsAssumption, NotASnapshot
<1>1. PICK c \in CheckState : c = check[k] /\ Sound(c)
  BY DEF IInv, TypeOK
<1>2. PICK s : s = [entity |-> c.entity, block |-> b, oracle |-> oracle]
  OBVIOUS
<1>3. PICK alarm \in BOOLEAN :
        alarm = (/\ Compared(c, b)
                 /\ Code(c.previous.entity, c.previous.block) # Code(c.entity, b))
  BY DEF Compared
<1>4. PICK r : r = [pc |-> "load", entity |-> None, feed |-> FALSE, previous |-> c.previous,
                    snapshot |-> s, status |-> "PARTIAL", loaded |-> "none", alarm |-> alarm]
  OBVIOUS
<1>5. c.entity \in Entities
  BY <1>1 DEF Sound
<1>6. head \in 1 .. MaxBlock
  BY DEF IInv, TypeOK
<1>7. s \in Snapshot
  <2>1. c.feed \in BOOLEAN
    BY DEF CheckState
  <2>2. oracle \in BOOLEAN
    BY <1>1, <2>1
  <2>3. b \in 1 .. MaxBlock
    BY <1>6
  <2> QED  BY <1>2, <1>5, <2>2, <2>3 DEF Snapshot
<1>8. check' = [check EXCEPT ![k] = r]
  BY <1>1, <1>2, <1>3, <1>4, <1>7 DEF Analysed
<1>9. r \in CheckState
  BY <1>1, <1>4, <1>7 DEF CheckState, Statuses
<1>10. UNCHANGED <<head, changes, monitor, baseline, alerts, lost, edits, crashes>>
  BY DEF Analysed, outside
<1>11. c.previous # NoSnapshot =>
         /\ c.previous \in Snapshot /\ c.previous.entity = c.entity
         /\ c.previous.block \in Nat /\ c.previous.block <= head
  BY <1>1 DEF Foreign, Sound, CheckState, Snapshot
<1>12. alarm => Real(Reported(r)) /\ c.previous # NoSnapshot
  <2> SUFFICES ASSUME alarm PROVE Real(Reported(r)) /\ c.previous # NoSnapshot
    OBVIOUS
  <2>1. /\ c.previous # NoSnapshot /\ c.previous.block < b
        /\ Code(c.previous.entity, c.previous.block) # Code(c.entity, b)
    BY <1>3 DEF Compared
  <2>2. Reported(r) = [entity |-> c.entity, from |-> c.previous.block, to |-> b]
    BY <1>2, <1>4 DEF Reported
  <2> QED  BY <1>6, <1>11, <2>1, <2>2 DEF Real
<1>13. ASSUME c.previous # NoSnapshot, ~alarm, NEW x \in changes[c.entity],
              c.previous.block < x, x <= b
       PROVE  FALSE
  <2>1. x \in Nat /\ b \in Nat
    BY <1>5, <1>6 DEF IInv
  <2>2. Code(c.entity, c.previous.block) # Code(c.entity, b)
    BY <1>5, <1>11, <1>13, <2>1, CountsDiffer
  <2> QED  BY <1>3, <1>11, <1>13, <2>1, <2>2 DEF Compared
<1>14. ASSUME Reports \subseteq Reports' PROVE Sound(r)'
  <2>1. Reported(r)' = Reported(r) /\ (Real(Reported(r)) => Real(Reported(r))')
    BY <1>10 DEF Reported, Real, Code
  <2>2. monitor.exists /\ c.previous # NoSnapshot => Covered(c.previous.entity, c.previous.block)'
    BY <1>1, <1>10, <1>14 DEF Sound, Covered
  <2>3. r.snapshot = s /\ s.block = b /\ s.entity = c.entity /\ b <= head /\ s # NoSnapshot
    BY <1>2, <1>4, <1>6, <1>7
  <2>4. c.previous # NoSnapshot =>
          /\ c.previous.entity = s.entity
          /\ ~alarm => \A x \in changes'[s.entity] : ~(c.previous.block < x /\ x <= s.block)
    BY <1>10, <1>11, <1>13, <2>3
  <2> QED  BY <1>4, <1>10, <1>11, <1>12, <2>1, <2>2, <2>3, <2>4 DEF Sound
<1> QED  BY <1>1, <1>8, <1>9, <1>10, <1>14, MoveInv

\* Whatever the analysis of B3 ends in.
LEMMA AnalyseInv == ASSUME IInv, NEW k \in Checks, Analyse(k) PROVE IInv'
<1>1. check[k].pc = "analyse"
  BY DEF Analyse
<1>2. {"INSUFFICIENT_DATA", "PROVIDER_UNAVAILABLE"} \subseteq Statuses
  BY DEF Statuses
<1> QED  BY <1>1, <1>2, NothingFound, SnapshotFound DEF Analyse

\* A request that ends leaves its status behind, and what it reported.
LEMMA EndInv ==
  ASSUME IInv, NEW k \in Checks, check' = Ended(k),
         UNCHANGED <<head, changes, monitor, baseline, edits>>, crashes' \in 0 .. MaxCrashes,
         alerts' \subseteq Stretch, lost' \subseteq Stretch,
         \A a \in alerts' : Real(a),
         monitor.exists => Reports \subseteq Reports'
  PROVE  IInv'
<1> USE MonitorsAssumption, NotASnapshot
<1>1. PICK r : r = [pc |-> "done", entity |-> None, feed |-> FALSE, previous |-> NoSnapshot,
                    snapshot |-> NoSnapshot, status |-> check[k].status, loaded |-> "none",
                    alarm |-> FALSE]
  OBVIOUS
<1>2. check' = [check EXCEPT ![k] = r]
  BY <1>1 DEF Ended
<1>3. check[k].status \in Statuses
  BY DEF IInv, TypeOK, CheckState
<1>4. r \in CheckState
  BY <1>1, <1>3 DEF CheckState, Statuses
<1>5. Sound(r)'
  BY <1>1 DEF Sound
<1>6. RowSound'
  <2> SUFFICES ASSUME monitor.snapshot # NoSnapshot, monitor.exists
               PROVE  Covered(monitor.snapshot.entity, monitor.snapshot.block)'
    BY DEF IInv, RowSound
  <2> QED  BY DEF IInv, RowSound, Covered
<1>7. StatusSound'
  <2>1. CASE monitor.analysis = k
    <3>1. check'[k] = r
      BY <1>2 DEF IInv, TypeOK
    <3> QED  BY <1>1, <2>1, <3>1 DEF IInv, StatusSound
  <2>2. CASE monitor.analysis # k
    BY <1>2, <2>2 DEF IInv, StatusSound, TypeOK, Row
  <2> QED  BY <2>1, <2>2
<1>8. \A e \in Entities : baseline[e] <= baseline'[e]
  BY DEF IInv, TypeOK
<1> QED  BY <1>2, <1>4, <1>5, <1>6, <1>7, <1>8, StepInv DEF IInv, TypeOK

Stages == {"idle", "analyse", "load", "flush", "alert", "done"}

\* What an update makes of a check: its stage and what it loaded, nothing else.
LEMMA Restaged ==
  ASSUME NEW c \in CheckState, NEW l \in Statuses, NEW p \in Stages
  PROVE  LET r == [c EXCEPT !.pc = p, !.loaded = l]
         IN  /\ r \in CheckState
             /\ r.pc = p /\ r.loaded = l
             /\ r.previous = c.previous /\ r.snapshot = c.snapshot
             /\ r.status = c.status /\ r.alarm = c.alarm
<1> DEFINE r1 == [c EXCEPT !.pc = p]
           r2 == [r1 EXCEPT !.loaded = l]
<1>1. /\ r1 \in CheckState /\ r1.pc = p
      /\ r1.previous = c.previous /\ r1.snapshot = c.snapshot
      /\ r1.status = c.status /\ r1.alarm = c.alarm
  BY DEF CheckState, Stages
<1> HIDE DEF r1
<1>2. /\ r2 \in CheckState /\ r2.pc = r1.pc /\ r2.loaded = l
      /\ r2.previous = r1.previous /\ r2.snapshot = r1.snapshot
      /\ r2.status = r1.status /\ r2.alarm = r1.alarm
  BY <1>1 DEF CheckState
<1> QED  BY <1>1, <1>2 DEF r1

\* The alarm of a check that is staged anew is as real as before.
LEMMA SameAlarm ==
  ASSUME NEW c, NEW r, r.previous = c.previous, r.snapshot = c.snapshot,
         UNCHANGED <<head, changes>>, Real(Reported(c))
  PROVE  Real(Reported(r))'
BY DEF Real, Reported, Code

\* update_monitor loads the row, or finds it deleted.
LEMMA LoadInv == ASSUME IInv, NEW k \in Checks, Load(k) PROVE IInv'
<1>1. PICK c \in CheckState : c = check[k] /\ Sound(c) /\ c.pc = "load"
  BY DEF IInv, TypeOK, Load
<1>2. PICK p \in Stages : p = IF monitor.exists THEN "flush" ELSE "alert"
  BY DEF Stages
<1>3. PICK r \in CheckState :
        /\ check' = [check EXCEPT ![k] = r]
        /\ r.pc = p
        /\ r.previous = c.previous /\ r.snapshot = c.snapshot
        /\ r.status = c.status /\ r.alarm = c.alarm
  <2>1. PICK l \in Statuses : l = monitor.status
    BY DEF IInv, TypeOK, Row
  <2> DEFINE new == [c EXCEPT !.pc = p, !.loaded = l]
  <2>2. check' = [check EXCEPT ![k] = new]
    BY <1>1, <1>2, <2>1 DEF Load
  <2>3. /\ new \in CheckState
        /\ new.pc = p /\ new.loaded = l
        /\ new.previous = c.previous /\ new.snapshot = c.snapshot
        /\ new.status = c.status /\ new.alarm = c.alarm
    BY Restaged, Zenon
  <2> HIDE DEF new
  <2> QED  BY <2>2, <2>3
<1>4. UNCHANGED <<head, changes, monitor, baseline, alerts, lost, edits, crashes>>
  BY DEF Load, outside
<1>5. ASSUME Reports \subseteq Reports' PROVE Sound(r)'
  <2>1. monitor.exists /\ c.previous # NoSnapshot => Covered(c.previous.entity, c.previous.block)'
    BY <1>1, <1>4, <1>5 DEF Sound, Covered
  <2>2. c.alarm => Real(Reported(r))'
    BY <1>1, <1>3, <1>4, SameAlarm DEF Sound
  <2> QED  BY <1>1, <1>2, <1>3, <1>4, <2>1, <2>2 DEF Sound
<1> QED  BY <1>1, <1>3, <1>4, <1>5, MoveInv

\* The commit of an update on a row that is still there.
LEMMA StoreInv == ASSUME IInv, NEW k \in Checks, Flush(k), monitor.exists PROVE IInv'
<1> USE MonitorsAssumption, NotASnapshot
<1>1. PICK c \in CheckState : c = check[k] /\ Sound(c) /\ c.pc = "flush"
  BY DEF IInv, TypeOK, Flush
<1>2. PICK r \in CheckState :
        /\ check' = [check EXCEPT ![k] = r]
        /\ r.pc = "alert"
        /\ r.previous = c.previous /\ r.snapshot = c.snapshot
        /\ r.status = c.status /\ r.alarm = c.alarm
  <2> DEFINE new == [c EXCEPT !.pc = "alert", !.loaded = "none"]
  <2>1. check' = [check EXCEPT ![k] = new]
    BY <1>1 DEF Flush
  <2>2. "none" \in Statuses /\ "alert" \in Stages
    BY DEF Statuses, Stages
  <2>3. /\ new \in CheckState
        /\ new.pc = "alert" /\ new.loaded = "none"
        /\ new.previous = c.previous /\ new.snapshot = c.snapshot
        /\ new.status = c.status /\ new.alarm = c.alarm
    BY <2>2, Restaged
  <2> HIDE DEF new
  <2> QED  BY <2>1, <2>3
<1>3. PICK s : s = IF c.snapshot = NoSnapshot THEN monitor.snapshot ELSE c.snapshot
  OBVIOUS
<1>4. PICK mixed \in BOOLEAN : mixed = (monitor.status # c.loaded)
  OBVIOUS
<1>5. PICK status : status = StatusWritten(c)
  OBVIOUS
<1>6. monitor' = [monitor EXCEPT !.snapshot = s, !.analysis = k, !.status = status, !.mixed = mixed]
  BY <1>1, <1>3, <1>4, <1>5 DEF Flush
<1>7. monitor \in Row /\ s \in Snapshot \cup {NoSnapshot} /\ status \in Statuses
  BY <1>3, <1>5 DEF IInv, TypeOK, Row, CheckState, StatusWritten
<1>8. /\ monitor' \in Row /\ monitor'.exists = monitor.exists
      /\ monitor'.snapshot = s /\ monitor'.analysis = k
      /\ monitor'.status = status /\ monitor'.mixed = mixed
  <2> DEFINE m1 == [monitor EXCEPT !.snapshot = s]
             m2 == [m1 EXCEPT !.analysis = k]
             m3 == [m2 EXCEPT !.status = status]
             m4 == [m3 EXCEPT !.mixed = mixed]
  <2>1. m1 \in Row /\ m1.exists = monitor.exists /\ m1.snapshot = s
    BY <1>7 DEF Row
  <2> HIDE DEF m1
  <2>2. m2 \in Row /\ m2.exists = m1.exists /\ m2.snapshot = m1.snapshot /\ m2.analysis = k
    BY <2>1 DEF Row
  <2> HIDE DEF m2
  <2>3. /\ m3 \in Row /\ m3.exists = m2.exists /\ m3.snapshot = m2.snapshot
        /\ m3.analysis = m2.analysis /\ m3.status = status
    BY <1>7, <2>2 DEF Row
  <2> HIDE DEF m3
  <2>4. /\ m4 \in Row /\ m4.exists = m3.exists /\ m4.snapshot = m3.snapshot
        /\ m4.analysis = m3.analysis /\ m4.status = m3.status /\ m4.mixed = mixed
    BY <2>3 DEF Row
  <2>5. monitor' = m4
    BY <1>6 DEF m1, m2, m3
  <2> QED  BY <2>1, <2>2, <2>3, <2>4, <2>5
<1>9. UNCHANGED <<head, changes, alerts, lost, edits, crashes>>
  BY DEF Flush, outside
<1>10. c.snapshot # NoSnapshot => c.snapshot \in Snapshot
  BY DEF CheckState
<1>11. c.snapshot # NoSnapshot => c.snapshot.entity \in Entities /\ c.snapshot.block \in 1 .. MaxBlock
  BY <1>10 DEF Snapshot
<1>12. baseline \in [Entities -> 0 .. MaxBlock]
  BY DEF IInv, TypeOK
<1>13. /\ c.snapshot # NoSnapshot /\ c.previous = NoSnapshot =>
            baseline'[c.snapshot.entity] >= c.snapshot.block
       /\ ~(c.snapshot # NoSnapshot /\ c.previous = NoSnapshot) => baseline' = baseline
       /\ baseline' \in [Entities -> 0 .. MaxBlock]
       /\ \A e \in Entities : baseline[e] <= baseline'[e]
  <2>1. CASE /\ c.snapshot # NoSnapshot /\ c.previous = NoSnapshot
             /\ baseline[c.snapshot.entity] < c.snapshot.block
    <3>1. baseline' = [baseline EXCEPT ![c.snapshot.entity] = c.snapshot.block]
      BY <1>1, <2>1 DEF Flush
    <3> QED  BY <1>11, <1>12, <2>1, <3>1
  <2>2. CASE ~(/\ c.snapshot # NoSnapshot /\ c.previous = NoSnapshot
               /\ baseline[c.snapshot.entity] < c.snapshot.block)
    <3>1. baseline' = baseline
      BY <1>1, <2>2 DEF Flush
    <3> QED  BY <1>11, <1>12, <2>2, <3>1
  <2> QED  BY <2>1, <2>2
<1>14. Reports \subseteq Reports'
  BY <1>1, <1>2, <1>9, ReportsKept
<1>15. Sound(r)'
  <2>1. c.alarm => Real(Reported(r))'
    BY <1>1, <1>2, <1>9, SameAlarm DEF Sound
  <2> QED  BY <1>1, <1>2, <1>9, <2>1 DEF Sound
<1>16. RowSound'
  <2>1. CASE c.snapshot = NoSnapshot
    <3> SUFFICES ASSUME monitor.snapshot # NoSnapshot
                 PROVE  /\ monitor.snapshot.block <= head
                        /\ Covered(monitor.snapshot.entity, monitor.snapshot.block)'
      BY <1>3, <1>8, <1>9, <2>1 DEF RowSound
    <3>1. /\ monitor.snapshot.block <= head
          /\ Covered(monitor.snapshot.entity, monitor.snapshot.block)
      BY DEF IInv, RowSound
    <3>2. baseline' = baseline
      BY <1>13, <2>1
    <3>3. monitor'.snapshot = monitor.snapshot
      BY <1>3, <1>8, <2>1
    <3> QED  BY <1>9, <1>14, <3>1, <3>2, <3>3 DEF Covered
  <2>2. CASE c.snapshot # NoSnapshot
    <3>1. s = c.snapshot /\ s.block <= head
      BY <1>1, <1>3, <2>2 DEF Sound
    <3>2. ASSUME NEW x \in changes[s.entity], baseline'[s.entity] < x, x <= s.block
          PROVE  \E a \in Reports' : a.entity = s.entity /\ a.from < x /\ x <= a.to
      <4>1. x \in Nat /\ s.block \in Nat
        BY <1>11, <2>2, <3>1 DEF IInv, TypeOK
      <4>2. c.previous # NoSnapshot /\ c.previous.entity = s.entity /\ baseline'= baseline
        BY <1>1, <1>11, <1>12, <1>13, <2>2, <3>1, <3>2, <4>1 DEF Sound
      <4>3. c.previous.block \in Nat
        BY <4>2 DEF CheckState, Snapshot
      <4>4. CASE x <= c.previous.block
        <5>1. Covered(c.previous.entity, c.previous.block)
          BY <1>1, <4>2 DEF Sound
        <5> QED  BY <1>14, <3>2, <4>2, <4>4, <5>1 DEF Covered
      <4>5. CASE c.previous.block < x
        <5>1. c.alarm
          BY <1>1, <2>2, <3>1, <3>2, <4>2, <4>5 DEF Sound
        <5>2. check'[k] = r
          BY <1>2 DEF IInv, TypeOK
        <5>3. Reported(r) \in Reports'
          BY <1>2, <5>1, <5>2 DEF Reports, Pending, Reported
        <5>4. /\ Reported(r).entity = s.entity /\ Reported(r).from = c.previous.block
              /\ Reported(r).to = s.block
          BY <1>2, <3>1 DEF Reported
        <5> QED  BY <3>2, <4>5, <5>3, <5>4
      <4> QED  BY <4>1, <4>3, <4>4, <4>5
    <3>3. Covered(s.entity, s.block)'
      BY <1>9, <3>2 DEF Covered
    <3> QED  BY <1>8, <1>9, <3>1, <3>3 DEF RowSound
  <2> QED  BY <2>1, <2>2
<1>17. StatusSound'
  <2>1. check'[k] = r
    BY <1>2 DEF IInv, TypeOK
  <2>2. ~mixed => status = c.status
    BY <1>4, <1>5 DEF StatusWritten
  <2> QED  BY <1>2, <1>8, <2>1, <2>2 DEF StatusSound
<1> QED  BY <1>2, <1>8, <1>9, <1>13, <1>14, <1>15, <1>16, <1>17, StepInv DEF IInv, TypeOK

\* The commit of an update, on a row that is there or not.
LEMMA FlushInv == ASSUME IInv, NEW k \in Checks, Flush(k) PROVE IInv'
<1>1. CASE monitor.exists
  BY <1>1, StoreInv
<1>2. CASE ~monitor.exists
  <2>1. /\ check' = Ended(k)
        /\ UNCHANGED <<head, changes, monitor, baseline, alerts, lost, edits, crashes>>
    BY <1>2 DEF Flush, outside
  <2> QED  BY <1>2, <2>1, EndInv DEF IInv, TypeOK
<1> QED  BY <1>1, <1>2

\* What a check reports at the end is a stretch of blocks, and real.
LEMMA ReportIsReal ==
  ASSUME IInv, NEW k \in Checks, check[k].alarm
  PROVE  Reported(check[k]) \in Stretch /\ Real(Reported(check[k]))
<1>1. PICK c \in CheckState : c = check[k] /\ Sound(c)
  BY DEF IInv, TypeOK
<1>2. c.previous \in Snapshot /\ c.snapshot \in Snapshot /\ Real(Reported(c))
  BY <1>1 DEF Sound, CheckState
<1> QED  BY <1>1, <1>2 DEF Snapshot, Stretch, Reported

\* create_alert, and the end of the request.
LEMMA RaiseInv == ASSUME IInv, NEW k \in Checks, Raise(k) PROVE IInv'
<1>1. /\ check' = Ended(k)
      /\ UNCHANGED <<head, changes, monitor, baseline, lost, edits, crashes>>
  BY DEF Raise, outside
<1>2. alerts' = IF check[k].alarm /\ monitor.exists THEN alerts \cup {Reported(check[k])} ELSE alerts
  BY DEF Raise, Alerts
<1>3. alerts' \subseteq Stretch /\ \A a \in alerts' : Real(a)
  BY <1>2, ReportIsReal DEF IInv, TypeOK
<1>4. monitor.exists => Reports \subseteq Reports'
  BY <1>1, <1>2, ReportsKept DEF Ended
<1> QED  BY <1>1, <1>3, <1>4, EndInv DEF IInv, TypeOK

\* A request that dies.
LEMMA CrashInv == ASSUME IInv, NEW k \in Checks, Crash(k) PROVE IInv'
<1>1. /\ check' = Ended(k)
      /\ UNCHANGED <<head, changes, monitor, alerts, baseline, edits>>
  BY DEF Crash
<1>2. lost' = IF check[k].pc = "alert" /\ check[k].alarm
                THEN lost \cup {Reported(check[k])} ELSE lost
  BY DEF Crash
<1>3. lost' \subseteq Stretch
  BY <1>2, ReportIsReal DEF IInv, TypeOK
<1>4. Reports \subseteq Reports'
  BY <1>1, <1>2, ReportsKept DEF Ended
<1>5. crashes' \in 0 .. MaxCrashes
  BY MonitorsAssumption DEF Crash, IInv, TypeOK
<1>6. alerts' \subseteq Stretch /\ \A a \in alerts' : Real(a)
  BY <1>1 DEF IInv, TypeOK
<1> QED  BY <1>1, <1>3, <1>4, <1>5, <1>6, EndInv

\* An edit changes neither what was found nor what was reported.
LEMMA PatchInv == IInv /\ Patch => IInv'
<1> SUFFICES ASSUME IInv, Patch PROVE IInv'
  OBVIOUS
<1>1. PICK e \in Entities, feed \in Feeds :
        monitor' = [monitor EXCEPT !.entity = e, !.feed = feed]
  BY DEF Patch
<1>2. /\ UNCHANGED <<head, changes, check, alerts, baseline, lost, crashes>>
      /\ edits' \in 0 .. MaxEdits
  BY MonitorsAssumption DEF Patch, IInv, TypeOK
<1>3. /\ monitor' \in Row /\ monitor'.exists = monitor.exists
      /\ monitor'.snapshot = monitor.snapshot /\ monitor'.analysis = monitor.analysis
      /\ monitor'.status = monitor.status /\ monitor'.mixed = monitor.mixed
  <2> DEFINE m1 == [monitor EXCEPT !.entity = e]
             m2 == [m1 EXCEPT !.feed = feed]
  <2>1. /\ m1 \in Row /\ m1.exists = monitor.exists
        /\ m1.snapshot = monitor.snapshot /\ m1.analysis = monitor.analysis
        /\ m1.status = monitor.status /\ m1.mixed = monitor.mixed
    BY DEF IInv, TypeOK, Row
  <2>2. monitor' = m2
    BY <1>1
  <2> HIDE DEF m1
  <2>3. /\ m2 \in Row /\ m2.exists = m1.exists
        /\ m2.snapshot = m1.snapshot /\ m2.analysis = m1.analysis
        /\ m2.status = m1.status /\ m2.mixed = m1.mixed
    BY <2>1 DEF Row
  <2> QED  BY <2>1, <2>2, <2>3
<1>4. TypeOK'
  BY <1>2, <1>3 DEF IInv, TypeOK
<1>5. Reports' = Reports
  BY <1>2 DEF Reports, Pending, Reported
<1>6. \A k \in Checks : Sound(check[k])'
  <2> SUFFICES ASSUME NEW k \in Checks PROVE Sound(check[k])'
    OBVIOUS
  <2>1. PICK c : c = check[k] /\ check'[k] = c /\ Sound(c)
    BY <1>2 DEF IInv
  <2>2. Real(Reported(c)) => Real(Reported(c))'
    BY <1>2 DEF Real, Reported, Code
  <2>3. Sound(c)'
    BY <1>2, <1>3, <1>5, <2>1, <2>2 DEF Sound, Covered
  <2> QED  BY <2>1, <2>3
<1>7. RowSound'
  BY <1>2, <1>3, <1>5 DEF IInv, RowSound, Covered
<1>8. StatusSound'
  BY <1>2, <1>3 DEF IInv, StatusSound
<1>9. \A a \in alerts' : Real(a)'
  BY <1>2 DEF IInv, Real, Code
<1> QED  BY <1>2, <1>4, <1>6, <1>7, <1>8, <1>9 DEF IInv

\* Nothing is asked of a monitor that is gone.
LEMMA DeleteInv == IInv /\ Delete => IInv'
<1> SUFFICES ASSUME IInv, Delete PROVE IInv'
  OBVIOUS
<1>1. /\ monitor' = [monitor EXCEPT !.exists = FALSE] /\ alerts' = {}
      /\ UNCHANGED <<head, changes, check, baseline, lost, crashes>>
      /\ edits' \in 0 .. MaxEdits
  BY MonitorsAssumption DEF Delete, IInv, TypeOK
<1>2. /\ monitor' \in Row /\ ~monitor'.exists
      /\ monitor'.snapshot = monitor.snapshot /\ monitor'.analysis = monitor.analysis
      /\ monitor'.status = monitor.status /\ monitor'.mixed = monitor.mixed
  BY <1>1 DEF IInv, TypeOK, Row
<1>3. TypeOK'
  BY <1>1, <1>2 DEF IInv, TypeOK
<1>4. \A k \in Checks : Sound(check[k])'
  <2> SUFFICES ASSUME NEW k \in Checks PROVE Sound(check[k])'
    OBVIOUS
  <2>1. PICK c : c = check[k] /\ check'[k] = c /\ Sound(c)
    BY <1>1 DEF IInv
  <2>2. Real(Reported(c)) => Real(Reported(c))'
    BY <1>1 DEF Real, Reported, Code
  <2>3. Sound(c)'
    BY <1>1, <1>2, <2>1, <2>2 DEF Sound
  <2> QED  BY <2>1, <2>3
<1>5. RowSound' /\ StatusSound' /\ \A a \in alerts' : Real(a)'
  BY <1>1, <1>2 DEF IInv, RowSound, StatusSound
<1> QED  BY <1>1, <1>3, <1>4, <1>5 DEF IInv

-----------------------------------------------------------------------------
(* Theorems *)

\* Steps that change nothing of the monitor.
LEMMA StutterInv == IInv /\ UNCHANGED vars => IInv'
<1> SUFFICES ASSUME IInv, UNCHANGED vars PROVE IInv'
  OBVIOUS
<1>1. UNCHANGED <<head, changes, monitor, check, alerts, baseline, lost, edits, crashes>>
  BY DEF vars
<1>2. TypeOK'
  BY <1>1 DEF IInv, TypeOK
<1>3. Reports' = Reports
  BY <1>1 DEF Reports, Pending, Reported
<1>4. \A k \in Checks : Sound(check[k])'
  <2> SUFFICES ASSUME NEW k \in Checks PROVE Sound(check[k])'
    OBVIOUS
  <2>1. PICK c : c = check[k] /\ check'[k] = c /\ Sound(c)
    BY <1>1 DEF IInv
  <2>2. Real(Reported(c)) => Real(Reported(c))'
    BY <1>1 DEF Real, Reported, Code
  <2>3. Sound(c)'
    BY <1>1, <1>3, <2>1, <2>2 DEF Sound, Covered
  <2> QED  BY <2>1, <2>3
<1>5. RowSound' /\ StatusSound'
  BY <1>1, <1>3 DEF IInv, RowSound, StatusSound, Covered
<1>6. \A a \in alerts' : Real(a)'
  BY <1>1 DEF IInv, Real, Code
<1> QED  BY <1>1, <1>2, <1>4, <1>5, <1>6 DEF IInv

\* Whatever the checks, edits and crashes interleave to, the invariant holds.
THEOREM InvHolds == Spec => []IInv
<1>1. IInv /\ [Next]_vars => IInv'
  <2> SUFFICES ASSUME IInv, [Next]_vars PROVE IInv'
    OBVIOUS
  <2>1. CASE Advance
    BY <2>1, AdvanceInv
  <2>2. CASE Patch
    BY <2>2, PatchInv
  <2>3. CASE Delete
    BY <2>3, DeleteInv
  <2>4. CASE \E k \in Checks : Begin(k) \/ Analyse(k) \/ Load(k) \/ Flush(k) \/ Raise(k) \/ Crash(k)
    BY <2>4, BeginInv, AnalyseInv, LoadInv, FlushInv, RaiseInv, CrashInv
  <2>5. CASE UNCHANGED vars
    BY <2>5, StutterInv
  <2> QED  BY <2>1, <2>2, <2>3, <2>4, <2>5 DEF Next
<1> QED  BY <1>1, InitInv, PTL DEF Spec

\* The variables keep their types (monitor_check, _patch, _delete).
THEOREM TypesHold == Spec => []TypeOK
<1>1. IInv => TypeOK
  BY DEF IInv
<1> QED  BY <1>1, InvHolds, PTL

\* No false alarm: the code of the monitored entity did change between the two
\* blocks that an alert of monitor_check names.
THEOREM AlarmsAreReal == Spec => []AlarmIsReal
<1>1. IInv => AlarmIsReal
  BY DEF IInv, AlarmIsReal, Real
<1> QED  BY <1>1, InvHolds, PTL

\* No silent change: what the stored snapshot has moved past is reported, or the
\* check that moved it is about to, or died after its commit.
THEOREM ChangesAreReported == Spec => []NoSilentChange
<1>1. IInv => NoSilentChange
  BY DEF IInv, RowSound, Covered, Reports, Pending, NoSilentChange
<1> QED  BY <1>1, InvHolds, PTL

\* last_status is the status of last_analysis_id unless two updates crossed.
THEOREM StatusMatches == Spec => []StatusOfAnalysis
<1>1. IInv => StatusOfAnalysis
  BY DEF IInv, StatusSound, StatusOfAnalysis
<1> QED  BY <1>1, InvHolds, PTL

=============================================================================
