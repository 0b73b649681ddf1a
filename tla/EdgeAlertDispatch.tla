-------------------------- MODULE EdgeAlertDispatch --------------------------
(***************************************************************************)
(* Scheduled alert delivery on the edge: rows of public.alerts, the        *)
(* claim/mark functions of 013 and 017 (PostgreSQL), the manual requeue of *)
(* 016, the trigger of 012 that raises alerts, and any number of           *)
(* overlapping runs of the rivexis-alert-dispatch function that pg_cron    *)
(* starts every minute.  Each SQL function is one transaction and one      *)
(* step.  A run can be delayed, killed, or lose the answer of an RPC at    *)
(* any point; the mail provider may take a mail whose answer is lost, also *)
(* after the run stopped waiting for it.                                   *)
(*                                                                         *)
(* Timestamps are kept as the ticks still to run, so that no clock needs   *)
(* a bound: `wait` to next_delivery_at, `lease` to the end of the claim.   *)
(***************************************************************************)
EXTENDS Integers, FiniteSets, FiniteSetsExt

CONSTANTS
  Alerts,       \* alert rows that may be raised
  Runs,         \* dispatcher runs that may overlap
  Tokens,       \* values of gen_random_uuid()
  NoToken,      \* a null delivery_claim_token
  Lease,        \* the two minutes of a claim, in ticks
  Batch,        \* RIVEXIS_ALERT_DISPATCH_BATCH_SIZE
  MaxAttempts,  \* RIVEXIS_ALERT_MAX_ATTEMPTS
  RetryBase,    \* RIVEXIS_ALERT_RETRY_BASE_SECONDS, in ticks
  RetryCap,     \* the 86400 seconds, in ticks
  MaxFaults,    \* bound: killed runs and RPC answers lost
  MaxRequeues   \* bound: manual requeues

ASSUME DispatchAssumption ==
  /\ NoToken \notin Tokens /\ IsFiniteSet(Runs)
  /\ Lease \in Nat \ {0} /\ Batch \in Nat \ {0} /\ MaxAttempts \in Nat \ {0}
  /\ RetryBase \in Nat /\ RetryCap \in Nat
  /\ MaxFaults \in Nat /\ MaxRequeues \in Nat

VARIABLES
  row,       \* public.alerts, the delivery columns
  run,       \* the state of each dispatcher run
  taken,     \* external: idempotency keys the mail provider has seen
  pending,   \* external: requests the provider may still take
  mails,     \* history: mails the provider sent, per alert
  reported,  \* history: deliveries reported by the heartbeats of all runs
  faults, requeues

vars == <<row, run, taken, pending, mails, reported, faults, requeues>>

DeliveryStatus == {"absent", "pending", "retry", "delivered", "dead_letter"}
Row == [status: DeliveryStatus, attempts: Nat, wait: Nat, lease: 0 .. Lease,
        token: Tokens \cup {NoToken}]
Item == [id: Alerts, token: Tokens]

\* todo: claimed alerts not yet sent; item: the one being marked; ok: what the
\* provider answered; left: ticks of the run's claim; settled: some alert of the
\* batch is done; delivered: the run's own counter.
Run == [pc: {"idle", "sending", "marking"}, todo: SUBSET Item, item: SUBSET Item,
        ok: BOOLEAN, left: 0 .. Lease, settled: BOOLEAN, delivered: Nat]
IdleRun == [pc |-> "idle", todo |-> {}, item |-> {}, ok |-> FALSE, left |-> 0,
            settled |-> FALSE, delivered |-> 0]

RowsTyped == row \in [Alerts -> Row]
RunsTyped == run \in [Runs -> Run]
MailTyped ==
  /\ taken \in SUBSET (Alerts \cup Tokens)
  /\ pending \in SUBSET Item
  /\ mails \in [Alerts -> Nat]
CountsTyped == reported \in Nat /\ faults \in 0 .. MaxFaults /\ requeues \in 0 .. MaxRequeues
Bounded ==
  \A a \in Alerts : row[a].attempts <= MaxAttempts /\ row[a].wait <= Max({Lease, RetryCap})

TypeOK == RowsTyped /\ RunsTyped /\ MailTyped /\ CountsTyped /\ Bounded

Init ==
  /\ row = [a \in Alerts |-> [status |-> "absent", attempts |-> 0, wait |-> 0,
                              lease |-> 0, token |-> NoToken]]
  /\ run = [r \in Runs |-> IdleRun]
  /\ taken = {} /\ pending = {}
  /\ mails = [a \in Alerts |-> 0]
  /\ reported = 0 /\ faults = 0 /\ requeues = 0

-----------------------------------------------------------------------------
(* Rows *)

Monus(n) == IF n > 0 THEN n - 1 ELSE 0

\* Time passes, whatever the runs still have to do.
Tick ==
  /\ row' = [a \in Alerts |->
               [row[a] EXCEPT !.wait = Monus(@), !.lease = Monus(@)]]
  /\ run' = [r \in Runs |-> [run[r] EXCEPT !.left = Monus(@)]]
  /\ UNCHANGED <<taken, pending, mails, reported, faults, requeues>>

\* The trigger of 012 inserts a pending row; on conflict it touches no delivery
\* column, so a repeated event changes nothing here.
Raise(a) ==
  /\ row[a].status = "absent"
  /\ row' = [row EXCEPT ![a].status = "pending"]
  /\ UNCHANGED <<run, taken, pending, mails, reported, faults, requeues>>

\* Variation: delivered alerts may be requeued, as the superseded 011 allowed.
RequeueAny == {"pending", "retry", "delivered", "dead_letter"}
Requeueable == {"retry", "dead_letter"}

\* Manual requeue: the claim columns stay as they are.
Requeue(a) ==
  /\ requeues < MaxRequeues
  /\ row[a].status \in Requeueable
  /\ row' = [row EXCEPT ![a].status = "pending", ![a].attempts = 0, ![a].wait = 0]
  /\ requeues' = requeues + 1
  /\ UNCHANGED <<run, taken, pending, mails, reported, faults>>

\* Variation: next_delivery_at alone guards the lease.
ClaimableDue(a) == row[a].status \in {"pending", "retry"} /\ row[a].wait = 0
\* Variation: an open alert can always be claimed.
ClaimableOpen(a) == row[a].status \in {"pending", "retry"}
\* Variation: an alert to be retried is not looked at again.
ClaimablePending(a) == row[a].status = "pending" /\ row[a].wait = 0 /\ row[a].lease = 0
Claimable(a) ==
  /\ row[a].status \in {"pending", "retry"}
  /\ row[a].wait = 0
  /\ row[a].lease = 0

Items == UNION {run[r].todo \cup run[r].item : r \in Runs}
TokensInUse == {row[a].token : a \in Alerts} \cup {i.token : i \in Items}

\* A run starts: it claims up to Batch due alerts, each under a fresh token.  The
\* statement is one step, so no row is locked that it would have to skip.  Without a
\* mail provider, or in its sandbox, a run claims nothing: such runs do not start here.
Claim(r) ==
  /\ run[r].pc = "idle"
  /\ \E C \in SUBSET {a \in Alerts : Claimable(a)} :
     \E tok \in [C -> Tokens \ TokensInUse] :
       /\ C # {}
       /\ Cardinality(C) <= Batch
       /\ Cardinality(C) < Batch => \A a \in Alerts : Claimable(a) => a \in C
       /\ \A a, b \in C : tok[a] = tok[b] => a = b
       /\ row' = [a \in Alerts |->
                    IF a \in C
                      THEN [row[a] EXCEPT !.token = tok[a], !.lease = Lease, !.wait = Lease]
                      ELSE row[a]]
       /\ run' = [run EXCEPT ![r] =
                    [IdleRun EXCEPT !.pc = "sending", !.left = Lease,
                                    !.todo = {[id |-> a, token |-> tok[a]] : a \in C}]]
  /\ UNCHANGED <<taken, pending, mails, reported, faults, requeues>>

-----------------------------------------------------------------------------
(* Sending.  The provider is external: it takes a request at most once per *)
(* idempotency key and answers a repetition with duplicate_parameter.      *)

\* Variation: the idempotency key is drawn per claim instead of per alert.
KeyPerClaim(i) == i.token
Key(i) == i.id

\* The provider takes a request: a mail goes out unless the key was seen.
Take(i) ==
  /\ taken' = taken \cup {Key(i)}
  /\ mails' = IF Key(i) \in taken THEN mails ELSE [mails EXCEPT ![i.id] = @ + 1]

\* Variation: a transport timeout is taken for an accepted mail.
UnansweredOk == TRUE
UnansweredIsOk == FALSE

Answered(r, i, ok) ==
  run' = [run EXCEPT ![r].pc = "marking", ![r].todo = @ \ {i}, ![r].item = {i}, ![r].ok = ok]

\* 2xx, or 400 duplicate_parameter: classifyBrevo calls both delivered.
SendAccepted(r, i) ==
  /\ Take(i)
  /\ Answered(r, i, TRUE)
  /\ UNCHANGED pending

\* Refused: an invalid recipient, or any other status.
SendRefused(r, i) ==
  /\ Answered(r, i, FALSE)
  /\ UNCHANGED <<taken, mails, pending>>

\* Timeout or transport error: the provider may still take the request.
SendUnanswered(r, i) ==
  /\ pending' = pending \cup {i}
  /\ Answered(r, i, UnansweredIsOk)
  /\ UNCHANGED <<taken, mails>>

Send(r) ==
  /\ run[r].pc = "sending"
  /\ \E i \in run[r].todo :
       SendAccepted(r, i) \/ SendRefused(r, i) \/ SendUnanswered(r, i)
  /\ UNCHANGED <<row, reported, faults, requeues>>

\* A request whose sender gave up reaches the provider after all, or never.
ArriveLate ==
  /\ \E i \in pending : pending' = pending \ {i} /\ Take(i)
  /\ UNCHANGED <<row, run, reported, faults, requeues>>
LoseRequest ==
  /\ \E i \in pending : pending' = pending \ {i}
  /\ UNCHANGED <<row, run, taken, mails, reported, faults, requeues>>

-----------------------------------------------------------------------------
(* Marking *)

\* Variation: the mark finds the row by id alone.
HoldsAny(i) == row[i.id].status # "absent"
HoldsClaim(i) == row[i.id].token = i.token

\* Variation: the last attempt is retried once more.
ExhaustedLate(n) == n > MaxAttempts
Exhausted(n) == n >= MaxAttempts

\* Variation: the backoff is not capped.
BackoffUncapped(n) == RetryBase * 2 ^ (n - 1)
Backoff(n) == LET d == RetryBase * 2 ^ (n - 1) IN IF d < RetryCap THEN d ELSE RetryCap

\* The row after p_action = 'mark'.
Marked(x, ok) ==
  LET n == x.attempts + 1
      free == [x EXCEPT !.attempts = n, !.token = NoToken, !.lease = 0]
  IN  IF ok THEN [free EXCEPT !.status = "delivered", !.wait = 0]
      ELSE IF Exhausted(n) THEN [free EXCEPT !.status = "dead_letter", !.wait = 0]
      ELSE [free EXCEPT !.status = "retry", !.wait = Backoff(n)]

\* The run goes on with its next alert.  Only a mark that was answered counts.
NextAlert(r, ok) ==
  run' = [run EXCEPT ![r].pc = "sending", ![r].item = {}, ![r].ok = FALSE,
                     ![r].settled = TRUE,
                     ![r].delivered = IF ok THEN @ + 1 ELSE @]

\* The mark commits and the run hears of it.
Mark(r) ==
  /\ run[r].pc = "marking"
  /\ \E i \in run[r].item :
       /\ HoldsClaim(i)
       /\ row' = [row EXCEPT ![i.id] = Marked(@, run[r].ok)]
  /\ NextAlert(r, run[r].ok)
  /\ UNCHANGED <<taken, pending, mails, reported, faults, requeues>>

\* 'delivery claim not found': the run counts a failure and goes on.
MarkRefused(r) ==
  /\ run[r].pc = "marking"
  /\ \E i \in run[r].item : ~HoldsClaim(i)
  /\ NextAlert(r, FALSE)
  /\ UNCHANGED <<row, taken, pending, mails, reported, faults, requeues>>

\* The mark commits but its answer is lost.
\* Variation: a lost answer is counted as a delivery all the same.
LostCounts == TRUE
LostCount == FALSE

MarkUnheard(r) ==
  /\ faults < MaxFaults
  /\ run[r].pc = "marking"
  /\ \E i \in run[r].item :
       /\ HoldsClaim(i)
       /\ row' = [row EXCEPT ![i.id] = Marked(@, run[r].ok)]
  /\ NextAlert(r, LostCount)
  /\ faults' = faults + 1
  /\ UNCHANGED <<taken, pending, mails, reported, requeues>>

\* The mark never reaches the database: the row waits for its lease to end.
MarkLost(r) ==
  /\ faults < MaxFaults
  /\ run[r].pc = "marking"
  /\ NextAlert(r, LostCount)
  /\ faults' = faults + 1
  /\ UNCHANGED <<row, taken, pending, mails, reported, requeues>>

\* All alerts of the batch are done; the heartbeat reports the counters.
Heartbeat(r) ==
  /\ run[r].pc = "sending"
  /\ run[r].todo = {}
  /\ reported' = reported + run[r].delivered
  /\ run' = [run EXCEPT ![r] = IdleRun]
  /\ UNCHANGED <<row, taken, pending, mails, faults, requeues>>

\* The edge runtime kills the run; nothing of it survives.
Kill(r) ==
  /\ faults < MaxFaults
  /\ run[r].pc # "idle"
  /\ run' = [run EXCEPT ![r] = IdleRun]
  /\ faults' = faults + 1
  /\ UNCHANGED <<row, taken, pending, mails, reported, requeues>>

Work(r) == Claim(r) \/ Send(r) \/ Mark(r) \/ MarkRefused(r) \/ Heartbeat(r)

Next ==
  \/ Tick \/ ArriveLate \/ LoseRequest
  \/ \E a \in Alerts : Raise(a) \/ Requeue(a)
  \/ \E r \in Runs : Work(r) \/ MarkUnheard(r) \/ MarkLost(r) \/ Kill(r)

Spec == Init /\ [][Next]_vars

\* pg_cron starts a run every minute and the function runs on; time passes.
FairSpec == Spec /\ WF_vars(Tick) /\ \A r \in Runs : WF_vars(Work(r))

-----------------------------------------------------------------------------
(* Properties *)

Phase(s) == CASE s = "absent" -> "absent"
              [] s \in {"pending", "retry"} -> "open"
              [] s = "delivered" -> "delivered"
              [] s = "dead_letter" -> "given_up"

Promise == INSTANCE AlertDelivery WITH phase <- [a \in Alerts |-> Phase(row[a].status)]

\* Overlapping runs, lost marks, expired leases, late provider answers and
\* manual requeues together still deliver as AlertDelivery promises: one mail
\* per alert, delivered only once mailed, delivered for good.
KeepsPromise == Promise!ASpec

\* "Delivered records remain durable evidence and cannot be resent through this
\* RPC" (016): no step of any run or operator changes a delivered row, so a
\* stale run cannot mark it again and no claim is left on it.
DeliveredIsFinal ==
  [][\A a \in Alerts : row[a].status = "delivered" => row'[a] = row[a]]_vars

\* While a run's lease lasts, every alert it still has to send or mark is
\* claimed by that run and open; in particular a requeue of a claimed alert
\* does not hand it to a second run.
LeaseExclusive ==
  \A r \in Runs : run[r].pc # "idle" /\ run[r].left > 0 =>
    \A i \in run[r].todo \cup run[r].item :
      row[i.id].token = i.token /\ row[i.id].status \in {"pending", "retry"}

\* The attempt counter and the status agree across marks and requeues: the last
\* allowed attempt dead-letters and no earlier one does.
AttemptsMatchStatus ==
  \A a \in Alerts :
    /\ row[a].status = "retry" => row[a].attempts \in 1 .. MaxAttempts - 1
    /\ row[a].status = "dead_letter" => row[a].attempts = MaxAttempts

\* The heartbeats never report more deliveries than there are delivered alerts,
\* although marks are refused, lost or unanswered.
ReportedIsReal ==
  reported + MapThenSumSet(LAMBDA r : run[r].delivered, Runs)
    <= Cardinality({a \in Alerts : row[a].status = "delivered"})

\* No run outlives its lease without having settled an alert: the first of its batch
\* is sent (8 second timeout) and marked within the two minutes.
OnTime == \A r \in Runs : run[r].pc # "idle" /\ run[r].left = 0 => run[r].settled

\* Once no run is that slow, every raised alert is delivered or dead-lettered in the
\* end, however the provider answers: what slow and killed runs, lost marks, expired
\* leases and requeues did before leaves no alert that nobody claims again.
AlertSettles ==
  <>[]OnTime => \A a \in Alerts :
    row[a].status \in {"pending", "retry"} ~> row[a].status \in {"delivered", "dead_letter"}

=============================================================================
