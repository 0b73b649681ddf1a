------------------------------ MODULE Monitors ------------------------------
(***************************************************************************)
(* One monitor and the checks that run it (main.py, monitor_check, _patch, *)
(* _delete): a check reads the row, analyses the entity against the last   *)
(* snapshot (B3) for as long as its providers take, and in later           *)
(* transactions stores the new snapshot and raises the alert.  Checks of   *)
(* several requests overlap each other, edits and a deletion.              *)
(*                                                                         *)
(* Of what B3 compares the model keeps the runtime code: its hash is the   *)
(* entity and the number of changes so far.                                *)
(***************************************************************************)
EXTENDS Integers, FiniteSets

CONSTANTS
  Checks,      \* requests that check the monitor
  None,        \* no check, or no entity
  Entities,    \* what the monitor may be pointed at
  Feeds,       \* whether its config may name an oracle feed
  Lag,         \* how many blocks the RPC node that answers may be behind
  MaxBlock,    \* bound: the newest block
  MaxEdits,    \* bound: edits of the monitor
  MaxCrashes   \* bound: requests that die half way

ASSUME MonitorsAssumption ==
  /\ None \notin Checks /\ None \notin Entities /\ Feeds \subseteq BOOLEAN
  /\ Entities # {} /\ IsFiniteSet(Entities) /\ IsFiniteSet(Checks)
  /\ {Lag, MaxEdits, MaxCrashes} \subseteq Nat /\ MaxBlock \in Nat \ {0}

VARIABLES
  head,      \* the newest block of the chain
  changes,   \* per entity, the blocks at which its code changed
  monitor,   \* the monitor's row
  check,     \* the state of each check
  alerts,    \* alerts of the monitor: the stretch of blocks each reports a change in
  baseline,  \* history: the newest block stored by a check that had nothing to compare with
  lost,      \* history: alarms of requests that died after storing their snapshot
  edits, crashes

vars == <<head, changes, monitor, check, alerts, baseline, lost, edits, crashes>>

NoSnapshot == [block |-> 0]
Snapshot == [entity: Entities, block: 1 .. MaxBlock, oracle: BOOLEAN]
Stretch == [entity: Entities, from: 1 .. MaxBlock, to: 1 .. MaxBlock]

Code(e, b) == <<e, Cardinality({c \in changes[e] : c <= b})>>

Statuses == {"none", "PARTIAL", "INSUFFICIENT_DATA", "PROVIDER_UNAVAILABLE"}

\* exists: not deleted; feed: config names an oracle feed; mixed: history, the last
\* update overwrote a row that had changed since it was loaded.
Row ==
  [exists: BOOLEAN, entity: Entities, feed: Feeds, snapshot: Snapshot \cup {NoSnapshot},
   analysis: Checks \cup {None}, status: Statuses, mixed: BOOLEAN]

\* previous and snapshot: what it compares and what it found; loaded: the status in
\* the row when the update loaded it; alarm: it found a change.
CheckState ==
  [pc: {"idle", "analyse", "load", "flush", "alert", "done"}, entity: Entities \cup {None},
   feed: BOOLEAN, previous: Snapshot \cup {NoSnapshot}, snapshot: Snapshot \cup {NoSnapshot},
   status: Statuses, loaded: Statuses, alarm: BOOLEAN]

Idle ==
  [pc |-> "idle", entity |-> None, feed |-> FALSE, previous |-> NoSnapshot,
   snapshot |-> NoSnapshot, status |-> "none", loaded |-> "none", alarm |-> FALSE]

TypeOK ==
  /\ head \in 1 .. MaxBlock
  /\ changes \in [Entities -> SUBSET (1 .. MaxBlock)]
  /\ monitor \in Row
  /\ check \in [Checks -> CheckState]
  /\ alerts \subseteq Stretch /\ lost \subseteq Stretch
  /\ baseline \in [Entities -> 0 .. MaxBlock]
  /\ edits \in 0 .. MaxEdits /\ crashes \in 0 .. MaxCrashes

Init ==
  /\ head = 1
  /\ changes = [e \in Entities |-> {}]
  /\ monitor \in {m \in Row : m.exists /\ m.snapshot = NoSnapshot /\ m.analysis = None
                                /\ m.status = "none" /\ ~m.mixed}
  /\ check = [k \in Checks |-> Idle]
  /\ alerts = {} /\ lost = {}
  /\ baseline = [e \in Entities |-> 0]
  /\ edits = 0 /\ crashes = 0

\* The chain goes on, and may change the code of any entity.
Advance ==
  /\ head < MaxBlock
  /\ head' = head + 1
  /\ \E S \in SUBSET Entities :
       changes' = [e \in Entities |-> IF e \in S THEN changes[e] \cup {head + 1} ELSE changes[e]]
  /\ UNCHANGED <<monitor, check, alerts, baseline, lost, edits, crashes>>

-----------------------------------------------------------------------------
(* A check *)

outside == <<head, changes, edits, crashes>>

\* get_monitor: entity, dependencies and last snapshot are read together.
Begin(k) ==
  /\ check[k].pc = "idle" /\ monitor.exists
  /\ check' = [check EXCEPT ![k] =
       [pc |-> "analyse", entity |-> monitor.entity, feed |-> monitor.feed,
        previous |-> monitor.snapshot, snapshot |-> NoSnapshot,
        status |-> "none", loaded |-> "none", alarm |-> FALSE]]
  /\ UNCHANGED <<monitor, alerts, baseline, lost, outside>>

\* The request ends; what is left of it is the status of its analysis.
Ended(k) ==
  [check EXCEPT ![k] =
    [pc |-> "done", entity |-> None, feed |-> FALSE, previous |-> NoSnapshot,
     snapshot |-> NoSnapshot, status |-> check[k].status, loaded |-> "none", alarm |-> FALSE]]

\* Variation: a snapshot of any entity will do.
ForeignFeed(c) == c.previous # NoSnapshot /\ c.feed /\ ~c.previous.oracle
\* _b3_snapshot_contract_error: the last snapshot is of another entity, or lacks
\* the feed that is monitored now.
Foreign(c) ==
  c.previous # NoSnapshot /\ (c.previous.entity # c.entity \/ (c.feed /\ ~c.previous.oracle))

Compared(c, b) == c.previous # NoSnapshot /\ c.previous.block < b

Analysed(k, snapshot, status, alarm) ==
  /\ check' = [check EXCEPT ![k] =
       [pc |-> "load", entity |-> None, feed |-> FALSE,
        previous |-> IF snapshot = NoSnapshot THEN NoSnapshot ELSE check[k].previous,
        snapshot |-> snapshot, status |-> status, loaded |-> "none", alarm |-> alarm]]
  /\ UNCHANGED <<monitor, alerts, baseline, lost, outside>>

\* The analysis is refused, or fails, and is saved without a snapshot; or it captures
\* the entity at one block, with the feed when that can be read.
Analyse(k) ==
  LET c == check[k] IN
  /\ c.pc = "analyse"
  /\ \/ Foreign(c) /\ Analysed(k, NoSnapshot, "INSUFFICIENT_DATA", FALSE)
     \/ ~Foreign(c) /\ Analysed(k, NoSnapshot, "PROVIDER_UNAVAILABLE", FALSE)
     \/ \E b \in {n \in 1 .. head : n >= head - Lag}, oracle \in {FALSE, c.feed} :
          /\ ~Foreign(c)
          /\ Analysed(k, [entity |-> c.entity, block |-> b, oracle |-> oracle], "PARTIAL",
               Compared(c, b) /\ Code(c.previous.entity, c.previous.block) # Code(c.entity, b))

\* update_monitor loads the row; a deleted monitor is passed over in silence.
Load(k) ==
  /\ check[k].pc = "load"
  /\ check' = [check EXCEPT ![k] =
       [check[k] EXCEPT !.pc = IF monitor.exists THEN "flush" ELSE "alert",
                        !.loaded = monitor.status]]
  /\ UNCHANGED <<monitor, alerts, baseline, lost, outside>>

\* Variation: a check without a snapshot leaves the status as it was.
StatusOfSnapshot(c) == IF c.snapshot = NoSnapshot THEN monitor.status ELSE c.status
\* The column is written when the session changed it.
StatusWritten(c) == IF c.status = c.loaded THEN monitor.status ELSE c.status

\* The commit: a missing snapshot keeps the old one.  On a row deleted since it was
\* loaded the request fails.
Flush(k) ==
  LET c == check[k] IN
  /\ c.pc = "flush"
  /\ check' =
       IF monitor.exists THEN [check EXCEPT ![k] = [c EXCEPT !.pc = "alert", !.loaded = "none"]]
       ELSE Ended(k)
  /\ monitor' =
       IF ~monitor.exists THEN monitor
       ELSE [monitor EXCEPT !.snapshot = IF c.snapshot = NoSnapshot THEN @ ELSE c.snapshot,
                            !.analysis = k, !.status = StatusWritten(c),
                            !.mixed = monitor.status # c.loaded]
  /\ baseline' =
       IF monitor.exists /\ c.snapshot # NoSnapshot /\ c.previous = NoSnapshot
          /\ baseline[c.snapshot.entity] < c.snapshot.block
       THEN [baseline EXCEPT ![c.snapshot.entity] = c.snapshot.block] ELSE baseline
  /\ UNCHANGED <<alerts, lost, outside>>

Reported(c) == [entity |-> c.snapshot.entity, from |-> c.previous.block, to |-> c.snapshot.block]

\* Variation: no alert for a change while another check, which may see it too, is at work.
AlertsOnce(c) == c.alarm /\ \A k \in Checks : check[k].pc \notin {"load", "flush"}
\* Variation: the first snapshot is a change too.
AlertsFirst(c) == c.snapshot # NoSnapshot
Alerts(c) == c.alarm

\* create_alert: the foreign key turns it away when the monitor is gone.
Raise(k) ==
  /\ check[k].pc = "alert"
  /\ check' = Ended(k)
  /\ alerts' = IF Alerts(check[k]) /\ monitor.exists THEN alerts \cup {Reported(check[k])} ELSE alerts
  /\ UNCHANGED <<monitor, baseline, lost, outside>>

\* The request dies between two of its transactions.
Crash(k) ==
  /\ check[k].pc \notin {"idle", "done"}
  /\ crashes < MaxCrashes /\ crashes' = crashes + 1
  /\ check' = Ended(k)
  /\ lost' = IF check[k].pc = "alert" /\ check[k].alarm THEN lost \cup {Reported(check[k])} ELSE lost
  /\ UNCHANGED <<head, changes, monitor, alerts, baseline, edits>>

-----------------------------------------------------------------------------
(* Edits: the columns of an edit and of a check are disjoint *)

Patch ==
  /\ monitor.exists /\ edits < MaxEdits /\ edits' = edits + 1
  /\ \E e \in Entities, feed \in Feeds :
       monitor' = [monitor EXCEPT !.entity = e, !.feed = feed]
  /\ UNCHANGED <<head, changes, check, alerts, baseline, lost, crashes>>

\* The alerts go with the monitor (ON DELETE CASCADE).
Delete ==
  /\ monitor.exists /\ edits < MaxEdits /\ edits' = edits + 1
  /\ monitor' = [monitor EXCEPT !.exists = FALSE]
  /\ alerts' = {}
  /\ UNCHANGED <<head, changes, check, baseline, lost, crashes>>

Next ==
  \/ Advance \/ Patch \/ Delete
  \/ \E k \in Checks : Begin(k) \/ Analyse(k) \/ Load(k) \/ Flush(k) \/ Raise(k) \/ Crash(k)

Spec == Init /\ [][Next]_vars

-----------------------------------------------------------------------------
(* Properties *)

\* No false alarm: where an alert says that the code changed, it did, between the
\* two blocks it names, however old the snapshot a check began from and whatever
\* the monitor was pointed at meanwhile.
AlarmIsReal ==
  \A a \in alerts : a.from < a.to /\ Code(a.entity, a.from) # Code(a.entity, a.to)

\* No silent change: once the stored snapshot has moved past a change of the code
\* that came after the monitor's first snapshots, the change is reported or about
\* to be, although older checks overwrite newer ones and nodes lag.  Only a request
\* that dies after storing its snapshot takes its alarm with it.
NoSilentChange ==
  LET s == monitor.snapshot
      pending == {Reported(check[k]) : k \in {j \in Checks : check[j].pc = "alert" /\ check[j].alarm}}
  IN  monitor.exists /\ s # NoSnapshot =>
        \A c \in changes[s.entity] : baseline[s.entity] < c /\ c <= s.block =>
          \E a \in alerts \cup pending \cup lost : a.entity = s.entity /\ a.from < c /\ c <= a.to

\* last_status is the status of last_analysis_id, except when two checks updated the
\* row at once and each wrote the columns it had changed.
StatusOfAnalysis ==
  monitor.analysis # None /\ ~monitor.mixed => monitor.status = check[monitor.analysis].status

\* The feed is optional evidence: a monitor that nobody edited goes on being checked
\* when one read of its feed fails.  (It does not: the snapshot stored then lacks the
\* feed, and every later check is refused because of it.)
NeverRefusesItself ==
  \A k \in Checks : check[k].status = "INSUFFICIENT_DATA" => edits > 0
=============================================================================
