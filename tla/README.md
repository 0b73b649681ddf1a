# Rivexis in TLA+

Specifications of the parts of Rivexis in which something can go wrong that a unit test
hardly reaches: the provider runtime of the API process, the circuit breaker that
replicas share in PostgreSQL, the two alert delivery paths (the FastAPI queue and the
Supabase edge dispatcher), the membership of organizations, the ten live risk engines
with their adapters and the decision over their results, and monitors with overlapping
checks. Every module is translated from the source; PROJECT.json maps each definition to
the lines it stands for.

Run a model with `tlc -config MCOrgMembership_changes.cfg MCOrgMembership`, check a
proof module with `tlapm OrgMembershipProofs.tla`.

## The system

| Component | State | Operations | Shares state with |
| --- | --- | --- | --- |
| Provider runtime (`provider_runtime.py`, `runtime_backend.py`) | per-process cache, single-flight locks, telemetry; budget and circuit in a control plane; `provider_requests` rows | `execute`, `snapshot` | every thread of the process, other replicas through the control plane |
| PostgreSQL control plane (`postgres_control.py`) | `runtime_provider_circuits`, `runtime_rate_events` | `read_circuit`, `record_success`, `record_failure`, `consume_budget`, `clear_budget` | all replicas; the login rate limit |
| Redis control plane (`runtime_backend.py`) | a hash per circuit, a sorted set per budget | the same | all replicas |
| Alert queue (`services/store.py`, `services/alert_delivery.py`, `workers/alerts.py`) | `alerts` rows | `create_alert`, `due_alerts`, `process_due_alerts`, `mark_alert_delivery`, `requeue_alert` | the polling worker, manual drains, ingest requests, managers |
| Edge alert dispatch (`rivexis-alert-dispatch`, SQL 012, 013, 016, 017) | `alerts` rows with claim token and lease, heartbeat | trigger, claim, mark, requeue, `runDispatch` | runs started by pg_cron every minute, operators, the mail provider |
| Organization membership (`services/store.py`, `main.py`) | `organization_members` rows, signed claims | create, role update, join by claim, remove | concurrent requests of managers |
| Live risk engines (`services/live_*.py`, `engines.py`) | the answers gathered so far | one provider call after the other, then one result | the chain, which goes on between two calls |
| Protocol adapters and native reads (`protocol_adapters.py`, `protocol_native.py`, `deployment_registry.py`) | none | the reads F2, F3, F4 and F5 make of a protocol | the same chain |
| Decision engine (`decision.py`, `engines.py`) | stored analyses | `analyze_decision` | the caller, who submits results beside their ids |
| Monitors (`main.py`, `store.py`) | `monitors` rows with the last snapshot, `alerts` | check, edit, delete | overlapping checks of one monitor |
| Account state (`services/auth_email.py`, `store.py`) | `token_version`, token digests | issue and consume tokens, sign out everywhere | concurrent requests of one user |
| Login rate limit (`services/auth_rate_limit.py`) | two budgets per attempt | consume, clear | all logins |
| Release ceremony (`release_*.py`), certification (`certification*.py`) | checkpoints, attestations, trusted head | attest, advance, verify | publishers |
| Registry governance (`services/registry_governance.py`) | bundled registry, update plans | plan, approve, verify | reviewers |
| Investigations, saved analyses, retention (`store.py`, `retention.py`) | rows | update, attach, approve, delete by age | concurrent requests |
| Web application, gateways, reports rendering | none the services rely on | - | - |

How they interact: an engine reaches a provider through `execute`, which consults the
control plane; what an engine concludes is stored, and a decision is made over what is
stored; a monitor check is a run of B3 that stores a snapshot and raises an alert; an
alert is delivered by one of the two delivery paths, which keep different columns of the
row; membership decides who may do any of this. There are no callbacks between
components: everything is shared rows, shared process state, or a call.

What is hard here, and where: threads that leave a lock between reading the clock and
using it (provider runtime); transactions at READ COMMITTED that read, decide and write
with or without an advisory lock (control plane, alert queue, membership, monitors);
leases that end while their holder is still sending (edge dispatch); mail or webhooks
accepted whose answer is lost (both delivery paths); a chain that goes on, and providers
that fail or contradict each other, in the middle of an analysis (engines); processes
killed between two steps. The list is in PROJECT.json under "hazards", each with its line
and the properties that watch it, or a note that its component is not modelled.

What makes each component correct:

- provider runtime: one fetch per key at a time, budget and circuit respected in real
  time, every call counted once and recorded once, every call returns;
- control plane: no failure lost, no opening short of the threshold, no circuit open for ever;
- delivery: one mail per alert, nothing called delivered that was not sent, nothing
  forgotten, attempts that agree with the status;
- membership: an owner always, and roles changed only by those who may;
- engines: nothing partial passed off as whole, one block per snapshot, age, conflicts
  and missing evidence said, a result in the end;
- decision: fail closed on live evidence, and never on what the caller claims;
- monitors: no false alarm, no silent change, a status that belongs to its analysis.

## Modules

| Module | Models | Notes |
| --- | --- | --- |
| `ProviderRuntime` | `execute` and `snapshot` with `MemoryControlPlane` | one step per critical section or clock reading; `call[t].stamp` is the reading a thread carries |
| `CircuitBreaker` | abstract: a circuit whose operations are atomic | what DEPLOYMENT.md says of the shared circuit |
| `PostgresCircuit` | `postgres_control.py`, circuit part, as several replicas run it | `FailRead` and `FailWrite` are the SELECT and the upsert of `record_failure`, under the advisory lock; `record_success` takes none |
| `AlertDelivery` | abstract: one mail per alert, delivered only once mailed, for good | |
| `EdgeAlertDispatch` | rows, claims, marks, requeue, overlapping `runDispatch` runs, the mail provider | each SQL function is one transaction and one step; implements `AlertDelivery` under `phase <- status` (pending and retry are "open") |
| `AlertWorker` | `create_alert`, `due_alerts`, `process_due_alerts`, `mark_alert_delivery`, `requeue_alert` | a load and a flush are separate steps; a flush writes the columns that changed since the load |
| `OrgMembership` | `organization_access`, `_upsert_organization_member`, its two callers, `remove_organization_member` | every SELECT is a step, flush and commit are one |
| `LiveEngine` | what the ten engines share: calls, evidence, results, `_normalize_current_live_contract` | `got` holds the answers and the blocks they were read at |
| `ProtocolAdapters`, `ProtocolNative` | the reads of the adapters (Aave, Compound, Morpho) and of the protocol-native services | calls that fail alike and say alike are one call |
| `LiveF1` ... `LiveF5`, `LiveB1` ... `LiveB5` | one engine each: which calls in which order, every early return, status, score, confidence and piece of evidence | F2 to F5 use the adapters or native reads |
| `Decision` | `analyze_decision`: rehydration by id, refusal of duplicates, scores, the rule table | pure operators |
| `Engines` | the ten engines behind `_run_live`, and the decision over what they store | the composition the run and the proofs are about |
| `Monitors` | `monitor_check`, `_patch`, `_delete`, `update_monitor`, the comparison of B3 | begin, analysis, load, flush and alert are five steps |
| `*Proofs` | theorems about the module of that name | seven modules |
| `Sums` | theorems about sums over finite sets, for the proofs | a sum of naturals counts units |
| `MC*` | symmetry sets for the model checker, where they are sound | |

Correspondence, where it is not obvious:

- Timestamps. `EdgeAlertDispatch` keeps ticks still to run (`wait`, `lease`), so its
  clock needs no bound. `ProviderRuntime` keeps clock values up to `MaxTime`,
  `PostgresCircuit` keeps `opened_until` as ticks left and readings as ages.
- `AlertWorker` and `Monitors`: the SQLAlchemy session flushes only changed columns, so
  `MarkWrite` and `StatusWritten` merge the loaded row with what is stored. The webhook
  may take a call whose answer is lost (`Send`).
- `OrgMembership`: `req[q].seen` is the row `add_organization_member` looked up. The
  session keeps that object, so the shared upsert decides on the role loaded first
  (`Loaded`). An UPDATE that finds no row raises, an unchanged role is not flushed, a
  DELETE of no row passes. Rows are known by their user here and by a primary key in the
  code, so a flush to a row that was removed and inserted again succeeds here and raises
  there. ANALYST and VIEWER are one role because no line tells them
  apart. A claim is not consumed; one that lapsed is one no request uses.
- Engines. A request is the initial state: an engine, and the classes of input its code
  tells apart (valid, malformed, unsupported, and the options it looks at). A provider
  call is a step with a nondeterministic answer of the classes the engine branches on;
  "error" is a ProviderError, "malformed" a payload its own checks refuse. `Ask` records
  the block the call really read, `Evidence` the block the result claims. Amounts, prices
  and health factors are the bands the scores distinguish, so scores are the code's
  numbers. B1's traces and state diffs are calls whose contents are not looked at, and B4's
  flow statistics only what their failure adds to missing data. F5 collects native evidence
  for each of several protocols; one stands for them. An unsafe configuration adds 5 to 40
  in the adapters by its kind, and 35 here; how many of them add up is left out, and the
  caps of the code bound the sum.
- Monitors: of what B3 compares the model keeps the runtime code, whose hash is the
  entity and the number of its changes so far. An RPC node answers at most `Lag` blocks
  behind the newest.
- History variables say what happened without being part of the program: `lost`,
  `aborted`, `admits`; `mails`, `reported`; `overtaken` (a change landed on rows that
  its request had read before another change); `streak`, `counted`; `tries`, `answered`,
  `news`, `twice`; `baseline`, and `mixed` (two updates of a monitor crossed).

## Runs

| Run | Question | Bounds |
| --- | --- | --- |
| `provider_execute` | Do the accounts balance, do coalescing and budget hold with stale clocks, does every call return? | 2 threads, 3 calls, 1 retry, a clock from 1 to 4 with a window of 3 and readings 1 tick old: stamps leave the window, also behind a younger one; a threshold and a limit of 2 reach an open circuit and a denied retry |
| `edge_settles` | Leases, reports, attempts, finality, the implementation of `AlertDelivery`, and does every alert settle? | 1 alert, 2 runs, 3 attempts, lease of 2 ticks, 2 faults (a killed run, a lost mark or answer), 1 requeue |
| `circuit_counts` | Are all failures counted, is no circuit opened early, does it close, and is it atomic but for an overtaken failure? | 3 calls, threshold 2, cooldown 2, readings 1 tick old |
| `alert_queue` | Is one of the racing ingests new, is delivered what was sent, is a dead letter earned, does the alert settle? | 2 requests, worker, manual drain, manager, 3 attempts, backoff 2 then the cap of 3 ticks, 1 fault (a killed drain, a mark that raises before its commit or after it) |
| `dead_letter_requeue` | Does only a requeue leave the dead letters? (violated) | worker and manual drain |
| `members_change` | Owners, invitations and who makes owners | 3 users, 2 requests |
| `org_keeps_owner` | Is there always an owner? (violated) | 2 users, 2 requests |
| `live_engines` | Ten engines call by call, and the decision over what they store | every request and every answer of every call; the chain goes on by 1 block (`MaxHead` 4) |
| `revert_run` | Is a reported revert one that a provider ran? (violated) | `MaxHead` 3 |
| `counted_history` | Does history that B4 counts show in its freshness? (violated) | `MaxHead` 3 |
| `monitor_checks` | Are alarms real and changes reported, is the status that of the analysis? | 3 checks, 2 entities, lag 1, 3 blocks, 1 edit, 1 crash |
| `monitor_refuses` | Does an unedited monitor go on being checked when one feed read fails? (violated) | 2 checks, 1 entity with a feed, 2 blocks |

The bounds are the smallest at which the interesting case occurs. The races modelled are
between two actors: a third thread, run or request repeats what one of the two does, and
the third call of `circuit_counts` is there because a lock waits behind a lock, the third
check of `monitor_checks` because an overwritten snapshot has to be compared with. Two
attempts distinguish the last one from the others and three distinguish it from the
first; time is long enough for a window, a cooldown and a lease to end within a run. One
alert is enough for what one run does to another's, since only a batch relates two: that a
batch of several outlives its lease, with any number of alerts, runs and faults, is what
`ExclusiveLease`, `ReportsAreReal` and `ImplementsDelivery` prove. One
block of progress is enough for two reads of one engine to differ; what it does not show
(three reads at three blocks) the property would see as a pair. Deadlock is checked
except where the system may stop: bounded calls and events are used up, an engine ends
with its result, and an organization without a manager cannot be changed any more.

Symmetry is used for requests, users other than the founder, checks and entities, in
runs that check safety only, never under fairness.

Every request of every engine is an initial state of the runs of `MCEngines`; the only
bound there is `MaxHead`, how far the chain grows while one engine runs.

### Fairness and its reasons

- Threads (`ProviderRuntime`): every provider client sets a transport timeout, and no
  lock is held across anything unbounded, so a thread that can move does.
- Engines (`WF(Dispatch)`): one engine runs on one thread of a request, and each of its
  calls ends by an answer or by the timeout of its client.
- Time passes. pg_cron starts a dispatcher every minute, and a run that is not killed
  goes on, so `Work(r)` is weakly fair. The same holds for the polling worker. Faults,
  requeues and ingests are not fair and are finite: liveness is claimed once they stop.
- `OnTime`, the hypothesis of the edge's `AlertSettles`: from some time on, no lease ends
  while its run still sends or marks the first alert of its batch. The mail request times
  out after 8 seconds by default, and no earlier alert delays the first. A run that never
  meets a lease delivers nothing. The safety properties do not assume it.
- Both delivery paths need somewhere to deliver to. A drain of the queue whose webhook is
  missing or refused skips what it lists, and its rows stay open (docs/DEPLOYMENT.md:89);
  `AlertSettles` of `AlertWorker` therefore has `Worker \in Configured` as its hypothesis.
  A run of the edge without a mail provider, or in its sandbox, claims nothing
  (`index.ts:106-115`), and the model starts no such run. A configuration that vanishes
  between listing and sending (`alert_delivery.py:205-213`) is left out.
- `MaxLag`, `Skew`: how old a clock reading may be when it is used. With readings of
  unbounded age neither the budget nor the cooldown means anything in real time.

### Findings

1. `dead_letter_requeue`: a mark based on an old load writes a dead-lettered alert back
   to retry without a requeue (`store.py:410`).
2. `org_keeps_owner`: two requests that each count two owners may remove both
   (`store.py:86`), and a role update decided on a role that has changed since may
   demote an owner it never counted.
3. `revert_run`: a dry run whose `eth_call` gets no answer is stored as a reverting
   transaction with a hard blocker (`live_b1.py:431`).
4. `monitor_refuses`: a check whose feed read fails stores a snapshot without the feed,
   and every later check of the monitor is refused because of it (`engines.py:484`).
5. `counted_history`: B4 counts the rows of a first history page although the second page
   is malformed, and is LIVE because it lists no evidence of either (`live_b4.py:733`).

Seen on the way, and stated as what does hold instead of as a run of their own:

- `record_success` deletes the circuit row without the advisory lock
  (`postgres_control.py:97`), so a failure it overtakes writes the old count back; that is
  the exception of `AtomicUnlessOvertaken`.
- `delivery_attempts` passes `RIVEXIS_ALERT_MAX_ATTEMPTS`, and by more than one for each
  drain (`store.py:410`): a drain with an old load reopens a closed row, another writes
  the higher count back into it, and all of them list it again. Four drains with nine
  attempts allowed can take one alert to fourteen without a requeue. `TypeOK` of
  `AlertWorker` therefore bounds the delay and the occurrences, and not the attempts.
- The commit of a delivery can take effect and the refresh behind it raise
  (`store.py:423`). The handler marks a failure on top (`alert_delivery.py:214-222`): one
  send counts as two attempts, and a delivered alert is sent again or dead-lettered
  before it was tried as often as allowed. `DeadLetterEarned` counts exactly such sends
  twice (`twice`).
- Four properties name an exception that the code really meets, and say that nothing else
  goes wrong: a reset that a failure overwrites (`AtomicUnlessOvertaken`), a row that
  cannot be written (`Accounted`), a check that dies with its alarm (`NoSilentChange`) and
  two flushes of a monitor that cross (`StatusOfAnalysis`).
- An implementation the explorer names that differs from the EIP-1967 slot is a warning
  and no conflict (`protocol_native.py:435`); `ConflictIsSaid` speaks of what the engines
  call a conflict. F4's consensus of CONFLICTING is rewritten to UNAVAILABLE by the
  dispatch because its failure lists no evidence.
- Concurrent replays of one event are not all counted in `occurrence_count`
  (`store.py:338`); `NewOnce` says what is.
- Adapters without `at_block` read at the newest block and claim the one found first
  (`protocol_adapters.py`); `SnapshotIsPinned` leaves them out, and B1's dry run.
- A health factor of exactly 1 is in the band above the one its warning names
  (`protocol_adapters.py:319`).

## What is proved

The theorems are checked by TLAPS for every value of the constants that satisfies the
modules' assumptions, which TLC evaluates in each run: numbers are natural and positive
where the code requires it, null values are no values, and the sets whose members are
counted (threads, runs, requests, drains, users, checks, entities) are finite.

Edge dispatch (`EdgeAlertDispatchProofs`, from `DispatchAssumption`):

- `ExclusiveLease` (`LeaseExclusive`), `DeliveredForGood` (`DeliveredIsFinal`),
  `ImplementsDelivery` (`KeepsPromise`: the module implements `AlertDelivery`),
  `AttemptsAgree` (`AttemptsMatchStatus`) and `TypesHold`.
- That a delivered alert was mailed depends on what a run still holds, so `IInv` adds: a
  claim is only on an open row (`ClaimsOpen`); the provider has seen exactly the keys it
  mailed (`MailsTaken`); what a run is about to mark as delivered was mailed
  (`DeliveredMailed`); runs hold disjoint tokens and each alert once (`RunsDisjoint`); a
  live lease is the row's own (`LeaseHeld`). `RunsDisjoint` uses that tokens are fresh,
  `LeaseHeld` that a requeue leaves the claim.
- For the attempts, `RowMoves` lists all that one step can do to a row, and `Tallied`
  relates attempts to status; the doubled backoff is a number because 2^n counts the
  subsets of n things (`BackoffBound`).
- `ReportsAreReal` (`ReportedIsReal`): the heartbeats never report more deliveries than
  there are delivered rows. A run that is killed loses its count and a mark whose answer
  is lost is not counted, so equality is no invariant; `ReportsCovered` bounds what was
  reported together with what every run still counts, and the step that counts is the
  step that delivers a row that was open (`MarkCovered`, with `DeliveredStays`).

Membership (`OrgMembershipProofs`, from `MembershipAssumption`):

- `OwnerKept`, `EverybodyAsked`, `OnlyOwnersMakeOwners` and `TypesHold`.
- `IInv` adds what a request has read: unless overtaken, the role it decides on is
  still the role, and if it is about to take an owner away there are two
  (`IsCurrent`). A change makes the reads of all other requests old, which is why
  nothing has to be said about them. So serializing the requests of one organization is
  sufficient for the last-owner check.

Provider runtime (`ProviderRuntimeProofs`, from `RuntimeAssumption`):

- `AccountsBalance` (`Accounted`), `FetchedOnce` (`NoRedundantFetch`), `ClosesOnSuccess`
  (`EarlyCloseNeedsSuccess`) and `TypesHold`.
- `IInv` adds that a call past its queue holds the lock of its key (`FlightHeld`), so no
  other call can store what it is fetching, and that no clock reading is of the future
  and no opening outlasts a cooldown from now (`ClockSound`). `MovedCounts` says how one
  thread's step changes the number of threads in flight, on the wire and about to write a
  row; `Balances` is the double entry each action has to make.
- `BudgetIsKept` (`BudgetHolds`): no stretch of real time shorter than the window by the
  age of the clock readings grants more than the limit. Stamps enter the queue out of
  order and only its head is pruned, so what has to be known is what the queue still
  holds: each attempt granted in a stretch that is not over is a stamp in the queue
  (`BudgetInv`), which the limit keeps short, and pruning takes no such stamp although it
  leaves older ones behind younger ones (`PrunedKeeps`).

Shared circuit (`PostgresCircuitProofs`, from `CircuitAssumption`):

- `StreakOpens`, `FailuresCounted`, `TypesHold`, and `SharedCircuitIsAtomic`: every step
  is one of `CircuitBreaker` or the write of an overtaken failure.
- `IInv` adds the advisory lock (`LockHeld`) and that what a failure selected is at least
  what is in the row (`SeenSound`), as only a success changes it meanwhile.

Alert queue (`AlertWorkerProofs`, from `WorkerAssumption`):

- `NewToOne`, `DeliveredIsEarned`, `DeadLettersAreEarned` and `TypesHold`.
- `IInv` adds that a row exists once somebody was told it is new, that an item about to
  be marked as delivered was accepted, and `Tried`: the attempts of a row, of a loaded
  copy and of marks still to come never exceed the tries made since the last requeue and
  the deliveries among them that were committed and marked as failures all the same.
  `CountsCovered` bounds the occurrences a row has, and those a request has loaded, by
  the requests that were answered.

Engines and decision (`EnginesProofs`):

- `LiveNeverGoes` (`FailsClosed`): live evidence leads to no PROCEED or MODIFY. It rests
  on `LiveIsNeverCompleted`, proved engine by engine, on `ClaimsAreIgnored` (a decision
  is over what is stored, for any results) and on the order of the rules. Also
  `NoChangeWithoutPast` (`ChangeNeedsThePast`).
- `CallsAreSound` (`Sound`) is the inductive invariant of the calls, kept by each of the
  ten engines and by the chain: every call was answered at a block the chain had reached
  (`CallsReached`); the captured block was the head while the engine ran (`BlockNew`);
  B1 captures it before anything else is read (`BlockFirst`); pinned reads are of the
  captured block, native reads of the native block, and reads of a past block of that
  one (`CallsPinned`). None of this can be seen in a result alone: a result claims a block
  for each piece of evidence, and only the calls say what was read.
- `EveryResultPays` (`Paid`) follows from it, engine by engine: a conclusion that carries
  a score owes the caller all promised reads, one snapshot, the age of its worst listed
  evidence, every contradiction, and evidence for a raised confidence (`Owed`), and the
  dispatch, which rewrites the status of conflicts, leaves that paid (`OwedIsPaid`). So
  `NoPartialResult` (`NothingPartial`), `OneSnapshot` (`SnapshotIsPinned`), `AgeShows`
  (`AgeIsHonest`), `ConflictShows` (`ConflictIsSaid`) and `ConfidenceHasEvidence`
  (`ConfidenceIsEarned`) hold for a chain of any height.
- `EnginesType` (`TypeOK`): all scores and confidences are percentages, although they are
  sums of what each read adds. F1 divides by what a portfolio is worth, so its step of
  the induction needs that it prices nothing when it holds nothing (`PricesSomething`).

Monitors (`MonitorsProofs`, from `MonitorsAssumption`):

- `AlarmsAreReal`, `ChangesAreReported` (`NoSilentChange`), `StatusMatches` and `TypesHold`.
- `IInv` says what every overlapping check holds: what it compares with is covered by
  reports until it is stored again, so it does not matter which of two checks stores
  last; an alarm names a stretch in which the count of changes differs.

Sums (`Sums`, used by the edge dispatch and the provider runtime): `SumCountsUnits`, a sum
of naturals over a finite set is the number of its units. The provers cannot use the
library's induction, which takes a predicate as a parameter, so the equation that defines
a fold over sets is solved by a set of counterexamples without a smallest member (the
proper subsets of a finite set are well-founded), and everything else about sums follows
from what the library knows of cardinalities.

Every invariant and every step property that a passing run checks is a theorem. Only
model-checked is liveness (`CallReturns`, `CircuitCloses`, both `AlertSettles`,
`Concludes`), which is out of the prover's reach.

## Not modelled, and the plan

By what can go wrong between actors, what is left:

1. Account state: `token_version` and the token digests, with load and flush as in
   `OrgMembership`. The abstract specification is a token that is consumed once.
2. Control plane budgets (`consume_budget`, `clear_budget`) with the login rate limit:
   two buckets, the first consumed even if the second refuses.
3. The Redis control plane: commands instead of transactions, a crash between two of
   them. PostgreSQL is the production default, so it came first.
4. Registry governance and the release lineage: plans and checkpoints against a base
   that moves; a chain that does not fork below one trusted head. Certification consumes
   their bundles.
5. Investigations (one payload rewritten as a whole), retention (deletes by age), saved
   portfolios and comparisons, and the membership functions of the edge.

Left out for good: HTTP and ABI decoding (`provider_clients.py`, `evm_decode.py`), pure
functions of one payload that tests cover, of which the engines see a class of answer;
mail transport beyond "answered, refused or unknown"; rendering; the web application;
gateways; row-level security policies (declarative); generated and vendored code. Within
modelled components: alert triage status, deletion of alerts by cascade except with their
monitor, SLO metrics, the wording of warnings and errors, audit and log entries,
provenance lists, what B1's traces and state diffs contain and B4's flow statistics.
