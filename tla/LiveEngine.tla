----------------------------- MODULE LiveEngine -----------------------------
(***************************************************************************)
(* What the ten live engines (services/live_*.py) have in common.          *)
(*                                                                         *)
(* An engine validates what it was asked, calls providers one after the    *)
(* other and returns one result.  A call is a step: between two calls the  *)
(* chain goes on, so a read that names no block sees another state than    *)
(* the one before.  What a call brought back is reduced to the answers the *)
(* engine tells apart; "error" is a ProviderError and "malformed" a        *)
(* payload the engine's own checks refuse.                                 *)
(***************************************************************************)
EXTENDS Integers, Sequences, FiniteSets

CONSTANT MaxHead      \* bound: how far the chain goes while one engine runs

ASSUME MaxHeadAssumption == MaxHead \in Nat \ 0 .. 2

VARIABLES
  req,      \* what the caller declared: the engine and its input
  head,     \* the newest block of the chain
  got,      \* call -> what it answered and the block it was answered at
  result    \* the EngineResult, or None while the engine runs

vars == <<req, head, got, result>>

None == [status |-> "RUNNING"]
Nowhere == 0          \* block_number=None: no block vouches for the observation
Past == 2             \* a block long before the ones an engine may find as head
Freshness == {"LIVE", "CURRENT", "RECENT", "UNKNOWN", "STALE", "EXPIRED"}
Rank == [LIVE |-> 1, CURRENT |-> 2, RECENT |-> 3, UNKNOWN |-> 4, STALE |-> 5, EXPIRED |-> 6]
Old == {"STALE", "EXPIRED"}
USABLE == {"COMPLETED", "PARTIAL", "CONFLICTING_DATA", "STALE_DATA"}

MinOf(a, b) == IF a < b THEN a ELSE b
MaxOf(a, b) == IF a > b THEN a ELSE b
Worst(S) == CHOOSE f \in S : \A g \in S : Rank[g] <= Rank[f]
When(condition, amount) == IF condition THEN amount ELSE 0

-----------------------------------------------------------------------------
(* Calls *)

Asked(c) == c \in DOMAIN got
Answer(c) == got[c].ans
Said(c, answers) == Asked(c) /\ Answer(c) \in answers
Broken == {"error", "malformed"}
Fails(calls) == \E c \in calls : Said(c, Broken)
ReadAt(c) == got[c].at
Unasked(plan) == {i \in DOMAIN plan : ~Asked(plan[i])}
Finished(plan) == Unasked(plan) = {}
NextOf(plan) == plan[CHOOSE i \in Unasked(plan) : \A j \in Unasked(plan) : i <= j]
InPlan(plan) == {plan[i] : i \in DOMAIN plan}
Running(e) == req.engine = e /\ result = None

Ask(c, answers, at) ==
  /\ \E a \in answers :
       got' = [d \in DOMAIN got \cup {c} |-> IF d = c THEN [ans |-> a, at |-> at] ELSE got[d]]
  /\ UNCHANGED <<req, head, result>>

\* One piece of evidence: its provider, the block_number it claims, the block the
\* call really read, and its freshness.
Evidence(from, block, read, fresh) ==
  [from |-> from, block |-> block, read |-> read, fresh |-> fresh]
Heard(calls) == {c \in calls : Asked(c) /\ Answer(c) \notin Broken}
AtBlock(calls, block) == {Evidence("rpc", block, ReadAt(c), "LIVE") : c \in Heard(calls)}
External(from, fresh) == {Evidence(from, Nowhere, Nowhere, fresh)}

-----------------------------------------------------------------------------
(* Results *)

\* A result without a score, whatever the reason.
Failure(status, dataConf, evidence) ==
  [status |-> status, risk |-> 0, dataConf |-> dataConf, engConf |-> 0,
   blockers |-> FALSE, conflicts |-> 0, consensus |-> "UNAVAILABLE",
   fresh |-> "NONE", block |-> Nowhere, evidence |-> evidence]

Providers(r) == {e.from : e \in r.evidence}

\* Variation: the engines' own claims are kept.
NormalizedClaims(r) == r

Normalized(r) ==
  [r EXCEPT
    !.status = IF r.conflicts > 0 /\ @ \in {"COMPLETED", "PARTIAL"}
                 THEN "CONFLICTING_DATA" ELSE @,
    !.consensus = CASE r.conflicts > 0 -> "CONFLICTING"
                    [] r.conflicts = 0 /\ Providers(r) = {} ->
                         IF @ = "USER_INPUT_ONLY" THEN @ ELSE "UNAVAILABLE"
                    [] r.conflicts = 0 /\ Cardinality(Providers(r)) = 1 -> "SINGLE_SOURCE"
                    [] OTHER -> "MULTI_SOURCE"]

Conclude(r) ==
  /\ result' = Normalized(r)
  /\ UNCHANGED <<req, head, got>>

\* The chain goes on while the engine calls providers.
Advance ==
  /\ result = None
  /\ head < MaxHead
  /\ head' = head + 1
  /\ UNCHANGED <<req, got, result>>
=============================================================================
