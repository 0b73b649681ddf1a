----------------------------- MODULE AlertWorker -----------------------------
(***************************************************************************)
(* The alerts table of the FastAPI service as an outbound queue: external  *)
(* events ingested by create_alert, drained by process_due_alerts from the *)
(* worker process and from the manual endpoint at once, and requeued by    *)
(* managers.  There is no claim: every writer loads the row, and the ORM's *)
(* UPDATE writes the columns it changed over whatever is there by then.    *)
(* next_delivery_at is kept as the ticks left.                             *)
(***************************************************************************)
EXTENDS Integers, FiniteSets

CONSTANTS
  Alerts,       \* rows, one per external event key
  Requests,     \* ingest requests
  Drains,       \* the worker process and calls of the manual endpoint
  Worker,       \* the drain that polls for ever
  Configured,   \* drains in whose environment a usable webhook is configured
  Managers,     \* requeue requests
  MaxAttempts,  \* RIVEXIS_ALERT_MAX_ATTEMPTS
  RetryBase,    \* RIVEXIS_ALERT_RETRY_BASE_SECONDS, in ticks
  RetryCap,     \* 86400 seconds, in ticks
  MaxFaults     \* bound: drains killed and marks that raise

ASSUME WorkerAssumption ==
  /\ Worker \in Drains /\ Configured \subseteq Drains /\ IsFiniteSet(Drains) /\ IsFiniteSet(Requests)
  /\ MaxAttempts \in Nat \ {0} /\ RetryBase \in Nat \ {0} /\ RetryCap \in Nat \ {0}
  /\ MaxFaults \in Nat

VARIABLES
  row,       \* the delivery columns of each alert
  count,     \* occurrence_count; 0 while the row does not exist
  req,       \* the state of each ingest request
  drain,     \* the state of each drain
  mgr,       \* the state of each requeue
  accepted,  \* external: alerts whose notification the webhook receiver took
  answered,  \* history: ingest requests answered 202, per alert
  news,      \* history: those of them answered duplicate = False
  tries,     \* history: sends, up to MaxAttempts, since a requeue no mark overlapped
  twice,     \* history: sends of those that were marked a second time
  faults

vars == <<row, count, req, drain, mgr, accepted, answered, news, tries, twice, faults>>

Null == -1  \* next_delivery_at is null
DeliveryStatus == {"pending", "retry", "delivered", "dead_letter"}
Open == {"pending", "retry"}
\* The column is a plain integer: drains with old loads can reopen a row and write a
\* higher count back into it, so the attempts pass MaxAttempts, and more than once.
Row == [status: DeliveryStatus, attempts: Nat, next: Null .. RetryCap]
NewRow == [status |-> "pending", attempts |-> 0, next |-> Null]

IdleDrain == [pc |-> "idle", todo |-> {}, item |-> {}, ok |-> FALSE, loaded |-> NewRow]

TypeOK ==
  /\ row \in [Alerts -> Row]
  /\ count \in [Alerts -> 0 .. Cardinality(Requests)]
  /\ req \in [Requests -> [pc: {"idle", "insert", "bump", "done"}, event: SUBSET Alerts,
                       loaded: 0 .. Cardinality(Requests)]]
  /\ drain \in [Drains -> [pc: {"idle", "send", "mark", "write"}, todo: SUBSET Alerts,
                           item: SUBSET Alerts, ok: BOOLEAN, loaded: Row]]
  /\ mgr \in [Managers -> [pc: {"idle", "write", "done"}, item: SUBSET Alerts, loaded: Row]]
  /\ accepted \in SUBSET Alerts /\ tries \in [Alerts -> 0 .. MaxAttempts]
  /\ answered \in [Alerts -> Nat] /\ news \in [Alerts -> Nat]
  /\ twice \in [Alerts -> 0 .. MaxFaults] /\ faults \in 0 .. MaxFaults

Init ==
  /\ row = [a \in Alerts |-> NewRow] /\ count = [a \in Alerts |-> 0]
  /\ req = [q \in Requests |-> [pc |-> "idle", event |-> {}, loaded |-> 0]]
  /\ drain = [d \in Drains |-> IdleDrain]
  /\ mgr = [m \in Managers |-> [pc |-> "idle", item |-> {}, loaded |-> NewRow]]
  /\ accepted = {} /\ answered = [a \in Alerts |-> 0]
  /\ news = [a \in Alerts |-> 0] /\ tries = [a \in Alerts |-> 0]
  /\ twice = [a \in Alerts |-> 0] /\ faults = 0

-----------------------------------------------------------------------------
(* Ingest: create_alert for an event key *)

delivery == <<row, drain, mgr, accepted, tries, twice, faults>>

Answer(q, a, isNew) ==
  /\ req' = [req EXCEPT ![q] = [pc |-> "done", event |-> {}, loaded |-> 0]]
  /\ answered' = [answered EXCEPT ![a] = @ + 1]
  /\ news' = IF isNew THEN [news EXCEPT ![a] = @ + 1] ELSE news

\* A request brings an event, new or repeated, and looks for its row.
Find(q) ==
  /\ req[q].pc = "idle"
  /\ \E a \in Alerts :
       req' = [req EXCEPT ![q] = [pc |-> IF count[a] = 0 THEN "insert" ELSE "bump",
                                  event |-> {a}, loaded |-> count[a]]]
  /\ UNCHANGED <<count, answered, news, delivery>>

\* The event is known: count it on the row that was loaded.
BumpOccurrence(q) ==
  /\ req[q].pc = "bump"
  /\ \E a \in req[q].event :
       count' = [count EXCEPT ![a] = req[q].loaded + 1] /\ Answer(q, a, FALSE)
  /\ UNCHANGED delivery

\* Variation: no unique constraint on the event key.
NoConstraint(a) == FALSE
Conflicts(a) == count[a] > 0

\* The event was unknown: insert it, or answer with the row that another request
\* inserted meanwhile.
Insert(q) ==
  /\ req[q].pc = "insert"
  /\ \E a \in req[q].event :
       /\ count' = IF Conflicts(a) THEN count ELSE [count EXCEPT ![a] = 1]
       /\ Answer(q, a, ~Conflicts(a))
  /\ UNCHANGED delivery

-----------------------------------------------------------------------------
(* Delivery *)

\* A delay counts from now: the timestamp it gives is never the one that was loaded.
Changed(k, loaded, new) == new[k] # loaded[k] \/ (k = "next" /\ new[k] # Null)

\* What an ORM flush leaves of the current row: the changed columns are written.
Merge(cur, loaded, new) ==
  [k \in DOMAIN cur |-> IF Changed(k, loaded, new) THEN new[k] ELSE cur[k]]

ingest == <<count, req, answered, news>>

\* Variation: an alert to be retried is not looked at again.
DuePending(a) == count[a] > 0 /\ row[a].status = "pending" /\ row[a].next <= 0
Due(a) == count[a] > 0 /\ row[a].status \in Open /\ row[a].next <= 0

Tick ==
  /\ row' = [a \in Alerts |-> [row[a] EXCEPT !.next = IF @ > 0 THEN @ - 1 ELSE @]]
  /\ UNCHANGED <<ingest, drain, mgr, accepted, tries, twice, faults>>

\* validate_alert_webhook_configuration: a target that is missing or unsafe for the
\* environment is none at all.
HasWebhook(d) == d \in Configured

\* due_alerts: nothing is claimed, another drain may list the same rows.  Where no
\* usable webhook is configured every listed row is skipped and left as it is.
List(d) ==
  /\ HasWebhook(d)
  /\ drain[d].pc = "idle"
  /\ \E a \in Alerts : Due(a)
  /\ drain' = [drain EXCEPT ![d] = [IdleDrain EXCEPT !.pc = "send", !.todo = {a \in Alerts : Due(a)}]]
  /\ UNCHANGED <<ingest, row, mgr, accepted, tries, twice, faults>>

\* Variation: a timeout counts as a delivery.
TimeoutDelivers == TRUE
TimeoutIsOk == FALSE

Sent(d, a, ok) ==
  /\ drain' = [drain EXCEPT ![d] =
                 [@ EXCEPT !.pc = "mark", !.todo = drain[d].todo \ {a}, !.item = {a}, !.ok = ok]]
  /\ tries' = [tries EXCEPT ![a] = IF @ < MaxAttempts THEN @ + 1 ELSE @]

\* The webhook: taken and answered 2xx; refused or never arrived; taken, but the
\* answer did not come in time.
Send(d) ==
  /\ drain[d].pc = "send"
  /\ \E a \in drain[d].todo :
       \/ Sent(d, a, TRUE) /\ accepted' = accepted \cup {a}
       \/ Sent(d, a, FALSE) /\ UNCHANGED accepted
       \/ Sent(d, a, TimeoutIsOk) /\ accepted' \in {accepted, accepted \cup {a}}
  /\ UNCHANGED <<ingest, row, mgr, twice, faults>>

\* mark_alert_delivery loads the row, whatever its status is by now, ...
MarkLoad(d) ==
  /\ drain[d].pc = "mark"
  /\ \E a \in drain[d].item :
       drain' = [drain EXCEPT ![d] = [@ EXCEPT !.pc = "write", !.loaded = row[a]]]
  /\ UNCHANGED <<ingest, row, mgr, accepted, tries, twice, faults>>

\* Variation: the backoff is not capped.
DelayUncapped(n) == RetryBase * 2 ^ (n - 1)
Delay(n) == LET d == RetryBase * 2 ^ (n - 1) IN IF d < RetryCap THEN d ELSE RetryCap

\* Variation: one attempt too few.
ExhaustedEarly(n) == n + 1 >= MaxAttempts
Exhausted(n) == n >= MaxAttempts

Marked(x, ok) ==
  LET n == x.attempts + 1
  IN  IF ok THEN [status |-> "delivered", attempts |-> n, next |-> Null]
      ELSE IF Exhausted(n) THEN [status |-> "dead_letter", attempts |-> n, next |-> Null]
      ELSE [status |-> "retry", attempts |-> n, next |-> Delay(n)]

\* ... and writes what it changed.
Write(d, a) == row' = [row EXCEPT ![a] = Merge(@, drain[d].loaded, Marked(drain[d].loaded, drain[d].ok))]

\* The commit takes effect and the row is read back.
MarkWrite(d) ==
  /\ drain[d].pc = "write"
  /\ \E a \in drain[d].item : Write(d, a)
  /\ drain' = [drain EXCEPT ![d] =
                 [@ EXCEPT !.pc = "send", !.item = {}, !.ok = FALSE, !.loaded = NewRow]]
  /\ UNCHANGED <<ingest, mgr, accepted, tries, twice, faults>>

\* The mark of a delivery raises: the handler marks it as a failure instead.  The
\* mark of a failure raises: the drain ends.
AfterRaise(d) ==
  /\ faults < MaxFaults
  /\ drain' = [drain EXCEPT ![d] =
                 IF @.ok THEN [@ EXCEPT !.pc = "mark", !.ok = FALSE, !.loaded = NewRow] ELSE IdleDrain]
  /\ faults' = faults + 1
  /\ UNCHANGED <<ingest, mgr, accepted, tries>>

\* The load or the commit raises and nothing is written.
MarkFails(d) ==
  /\ drain[d].pc \in {"mark", "write"}
  /\ AfterRaise(d)
  /\ UNCHANGED <<row, twice>>

\* The commit took effect, but its answer is lost or the refresh behind it raises: a
\* delivery that the handler marks again counts as two attempts.
MarkUnheard(d) ==
  /\ drain[d].pc = "write"
  /\ \E a \in drain[d].item :
       /\ Write(d, a)
       /\ twice' = IF drain[d].ok THEN [twice EXCEPT ![a] = @ + 1] ELSE twice
  /\ AfterRaise(d)

MarkRaises(d) == MarkFails(d) \/ MarkUnheard(d)

Finish(d) ==
  /\ drain[d].pc = "send" /\ drain[d].todo = {}
  /\ drain' = [drain EXCEPT ![d] = IdleDrain]
  /\ UNCHANGED <<ingest, row, mgr, accepted, tries, twice, faults>>

Kill(d) ==
  /\ faults < MaxFaults
  /\ drain[d].pc # "idle"
  /\ drain' = [drain EXCEPT ![d] = IdleDrain]
  /\ faults' = faults + 1
  /\ UNCHANGED <<ingest, row, mgr, accepted, tries, twice>>

-----------------------------------------------------------------------------
(* requeue_alert: any row, whatever its status *)

RequeueLoad(m) ==
  /\ mgr[m].pc = "idle"
  /\ \E a \in Alerts :
       /\ count[a] > 0
       /\ mgr' = [mgr EXCEPT ![m] = [pc |-> "write", item |-> {a}, loaded |-> row[a]]]
  /\ UNCHANGED <<ingest, row, drain, accepted, tries, twice, faults>>

\* The requeue took effect, and no mark that loaded the row earlier can undo it.
Restarts(a) ==
  /\ row'[a].status \in Open /\ row'[a].attempts = 0
  /\ \A d \in Drains : a \notin drain[d].item

RequeueWrite(m) ==
  /\ mgr[m].pc = "write"
  /\ \E a \in mgr[m].item :
       /\ row' = [row EXCEPT ![a] = Merge(@, mgr[m].loaded, NewRow)]
       /\ tries' = IF Restarts(a) THEN [tries EXCEPT ![a] = 0] ELSE tries
       /\ twice' = IF Restarts(a) THEN [twice EXCEPT ![a] = 0] ELSE twice
  /\ mgr' = [mgr EXCEPT ![m] = [pc |-> "done", item |-> {}, loaded |-> NewRow]]
  /\ UNCHANGED <<ingest, drain, accepted, faults>>

Ingest(q) == Find(q) \/ Insert(q) \/ BumpOccurrence(q)
Deliver(d) == Send(d) \/ MarkLoad(d) \/ MarkWrite(d) \/ Finish(d)

Next ==
  \/ Tick
  \/ \E q \in Requests : Ingest(q)
  \/ \E d \in Drains : List(d) \/ Deliver(d) \/ MarkRaises(d) \/ Kill(d)
  \/ \E m \in Managers : RequeueLoad(m) \/ RequeueWrite(m)

Spec == Init /\ [][Next]_vars

\* The worker polls for ever, a drain under way goes on, time passes.
FairSpec ==
  /\ Spec /\ WF_vars(Tick) /\ WF_vars(List(Worker))
  /\ \A d \in Drains : WF_vars(Deliver(d))
  /\ \A q \in Requests : WF_vars(Ingest(q))

-----------------------------------------------------------------------------
(* Properties *)

\* An event is reported as new to exactly one of the requests that brought it,
\* however they interleave; all others are told duplicate.
NewOnce == \A a \in Alerts : news[a] = (IF answered[a] > 0 THEN 1 ELSE 0)

\* A row says delivered only if the receiver took the notification, whichever
\* drains, failed marks and requeues wrote to the row.
DeliveredWasSent == \A a \in Alerts : row[a].status = "delivered" => a \in accepted

\* A dead-lettered alert was tried MaxAttempts times since the last requeue that
\* no mark overlapped, although concurrent marks lose counts.  A try counts double
\* where its delivery was committed and marked as a failure all the same; nothing
\* else makes an attempt of what was not sent.
DeadLetterEarned ==
  \A a \in Alerts : row[a].status = "dead_letter" => tries[a] + twice[a] >= MaxAttempts

\* "Exhausted items enter dead_letter and require an authorized manager requeue"
\* (docs/DEPLOYMENT.md): no other step opens a dead-lettered alert again.
DeadLetterNeedsRequeue ==
  [][\A a \in Alerts :
       row[a].status = "dead_letter" /\ row'[a].status \in Open => mgr' # mgr]_vars

\* Where the worker has a webhook, every alert is delivered or dead-lettered in the
\* end, although racing marks set the attempt counter back.
AlertSettles ==
  Worker \in Configured => \A a \in Alerts : count[a] > 0 ~> count[a] > 0 /\ row[a].status \notin Open

=============================================================================
