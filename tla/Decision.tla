------------------------------ MODULE Decision ------------------------------
(***************************************************************************)
(* The decision over specialist results (decision.py): the submitted       *)
(* results are replaced by what is stored under their ids, refused when    *)
(* they repeat each other, and weighed.  A result here is the record       *)
(*   [id, engine, status, risk, dataConf, engConf, blockers, conflicts]    *)
(* and several of them are a sequence.  Scores of a decision are in        *)
(* hundredths, as round(x, 2) leaves them.                                 *)
(***************************************************************************)
EXTENDS Integers, Sequences, FiniteSetsExt

USABLE_STATUSES == {"COMPLETED", "PARTIAL", "CONFLICTING_DATA", "STALE_DATA"}
DecisionStates == {"PROCEED", "MODIFY", "WAIT", "AVOID", "UNKNOWN"}

\* _canonicalize_persisted: whatever is stored under the id counts.
Canonical(submitted, stored) ==
  [i \in DOMAIN submitted |->
    IF submitted[i].id \in DOMAIN stored THEN stored[submitted[i].id] ELSE submitted[i]]

Duplicated(rs) ==
  \E i, j \in DOMAIN rs :
    i # j /\ (rs[i].id = rs[j].id \/ rs[i].engine = rs[j].engine)

UsableOf(rs) == {i \in DOMAIN rs : rs[i].status \in USABLE_STATUSES}
Hard(rs) == {i \in UsableOf(rs) : rs[i].blockers}
\* Variation: a result that is not usable does not make the decision wait.
UncertainUsable(rs) == {i \in UsableOf(rs) : rs[i].status # "COMPLETED"}
Uncertain(rs) == {i \in DOMAIN rs : rs[i].status # "COMPLETED"}
Weighable(rs) == ~Duplicated(rs) /\ UsableOf(rs) # {}

-----------------------------------------------------------------------------
(* Scores: means over the results that count *)

Total(score(_), I) == MapThenSumSet(score, I)
RiskTotal(rs) == Total(LAMBDA i : rs[i].risk, UsableOf(rs))
DataTotal(rs, I) == Total(LAMBDA i : rs[i].dataConf, I)
EngineTotal(rs) == Total(LAMBDA i : rs[i].engConf, UsableOf(rs))
Conflicts(rs) == Total(LAMBDA i : rs[i].conflicts, UsableOf(rs))
Hundredths(total, n) == (200 * total + n) \div (2 * n)

\* The mean risk, but the worst one when something blocks.
OverallRisk(rs) ==
  IF Hard(rs) # {} THEN 100 * Max({rs[i].risk : i \in UsableOf(rs)})
  ELSE Hundredths(RiskTotal(rs), Cardinality(UsableOf(rs)))

DecisionConfidence(rs) ==
  LET n == Cardinality(UsableOf(rs))
      raw == Hundredths(DataTotal(rs, UsableOf(rs)) + EngineTotal(rs), 2 * n)
               - 1200 * Conflicts(rs) - 1000 * Cardinality(Uncertain(rs))
  IN  Max({0, Min({10000, raw})})

MeanAtLeast(total, n, bar) == total >= bar * n

\* Blockers first, then confidence, then completeness, and only then the risk.
State(rs) ==
  LET n == Cardinality(UsableOf(rs))
  IN  IF ~Weighable(rs) THEN "UNKNOWN"
      ELSE IF Hard(rs) # {} THEN "AVOID"
      ELSE IF ~MeanAtLeast(DataTotal(rs, UsableOf(rs)), n, 35) THEN "UNKNOWN"
      ELSE IF Uncertain(rs) # {} THEN "WAIT"
      ELSE IF MeanAtLeast(RiskTotal(rs), n, 80) THEN "AVOID"
      ELSE IF MeanAtLeast(RiskTotal(rs), n, 40) THEN "MODIFY"
      ELSE "PROCEED"

\* analyze_decision on at least one result.
Decide(rs) ==
  [decision |-> State(rs),
   risk |-> IF Weighable(rs) THEN OverallRisk(rs) ELSE 0,
   confidence |-> IF Weighable(rs) THEN DecisionConfidence(rs) ELSE 0,
   dataConf |-> IF Weighable(rs)
                  THEN Hundredths(DataTotal(rs, UsableOf(rs)), Cardinality(UsableOf(rs)))
                  ELSE Hundredths(DataTotal(rs, DOMAIN rs), Len(rs))]

Refused == [decision |-> "REFUSED"]

\* POST /decisions/analyze: every submitted result has to be stored.
AnalyzeDecision(submitted, stored) ==
  IF submitted = <<>> \/ \E i \in DOMAIN submitted : submitted[i].id \notin DOMAIN stored
    THEN Refused
  ELSE Decide(Canonical(submitted, stored))

-----------------------------------------------------------------------------
\* A demonstration run (engines.py, run_engine): it is stored and weighed like a
\* live one, and only it is ever COMPLETED.
DemoResult(id, engine, risk, blocked, conflicts) ==
  [id |-> id, engine |-> engine, risk |-> risk, blockers |-> blocked, conflicts |-> conflicts,
   status |-> IF conflicts > 0 THEN "CONFLICTING_DATA" ELSE "COMPLETED",
   dataConf |-> IF conflicts > 0 THEN 65 ELSE 82, engConf |-> 80]
=============================================================================
