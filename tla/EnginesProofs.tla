--------------------------- MODULE EnginesProofs ---------------------------
(***************************************************************************)
(* Proofs about Engines: a live result is never COMPLETED, and so no       *)
(* decision over it says go; what is known of the calls of a run, and from *)
(* it what every result owes the caller and the bounds of its scores.      *)
(***************************************************************************)
EXTENDS Engines, FiniteSetTheorems, SequenceTheorems, WellFoundedInduction, TLAPS

\* The inductive invariant: None itself is RUNNING.
NeverCompleted == result.status # "COMPLETED"

-----------------------------------------------------------------------------
(* Results *)

\* The dispatch completes nothing: it only turns a result into a conflict.
LEMMA NormalizedStatus ==
  ASSUME NEW r, "status" \in DOMAIN r, r.status # "COMPLETED"
  PROVE  Normalized(r).status # "COMPLETED"
BY DEF Normalized

\* A failure has the status it is given, also when other fields are changed.
LEMMA FailureStatus ==
  ASSUME NEW s, NEW d, NEW e
  PROVE  Failure(s, d, e).status = s /\ "status" \in DOMAIN Failure(s, d, e)
BY DEF Failure

\* A conclusion from a record whose status is not COMPLETED keeps the invariant.
LEMMA Concluded ==
  ASSUME NEW r, "status" \in DOMAIN r, r.status # "COMPLETED", Conclude(r)
  PROVE  NeverCompleted'
BY NormalizedStatus DEF Conclude, NeverCompleted

-----------------------------------------------------------------------------
(* The engines, one by one: a call leaves the result alone, and each way   *)
(* to conclude names a status of its own.                                  *)

\* No step of F1 completes an analysis.
LEMMA F1Keeps == NeverCompleted /\ F1Next => NeverCompleted'
<1> SUFFICES ASSUME NeverCompleted, F1Next PROVE NeverCompleted'
  OBVIOUS
<1>1. ASSUME F1Read \/ F1Price PROVE NeverCompleted'
  BY <1>1 DEF F1Read, F1Price, Ask, NeverCompleted
<1>2. ASSUME F1Reject PROVE NeverCompleted'
  BY <1>2, FailureStatus, Concluded DEF F1Reject
<1>3. ASSUME F1Unreadable PROVE NeverCompleted'
  BY <1>3, FailureStatus, Concluded DEF F1Unreadable
<1>4. ASSUME F1Empty PROVE NeverCompleted'
  BY <1>4, FailureStatus, Concluded DEF F1Empty
<1>5. ASSUME F1Unvalued PROVE NeverCompleted'
  BY <1>5, FailureStatus, Concluded DEF F1Unvalued
<1>6. ASSUME F1Value PROVE NeverCompleted'
  BY <1>6, FailureStatus, Concluded DEF F1Value
<1> QED  BY <1>1, <1>2, <1>3, <1>4, <1>5, <1>6 DEF F1Next

\* No step of F2 completes an analysis.
LEMMA F2Keeps == NeverCompleted /\ F2Next => NeverCompleted'
<1> SUFFICES ASSUME NeverCompleted, F2Next PROVE NeverCompleted'
  OBVIOUS
<1>1. ASSUME F2Protocol \/ F2Native PROVE NeverCompleted'
  BY <1>1 DEF F2Protocol, F2Native, Ask, NeverCompleted
<1>2. ASSUME F2Reject PROVE NeverCompleted'
  BY <1>2, FailureStatus, Concluded DEF F2Reject
<1>3. ASSUME F2Value PROVE NeverCompleted'
  BY <1>3, FailureStatus, Concluded DEF F2Value
<1> QED  BY <1>1, <1>2, <1>3 DEF F2Next

\* No step of F3 completes an analysis.
LEMMA F3Keeps == NeverCompleted /\ F3Next => NeverCompleted'
<1> SUFFICES ASSUME NeverCompleted, F3Next PROVE NeverCompleted'
  OBVIOUS
<1>1. ASSUME F3Attempt \/ F3Read PROVE NeverCompleted'
  BY <1>1 DEF F3Attempt, F3Read, Ask, NeverCompleted
<1>2. ASSUME F3Unsupported PROVE NeverCompleted'
  BY <1>2, FailureStatus, Concluded DEF F3Unsupported
<1>3. ASSUME F3Authoritative PROVE NeverCompleted'
  BY <1>3, FailureStatus, Concluded DEF F3Authoritative
<1>4. ASSUME F3Reject PROVE NeverCompleted'
  BY <1>4, FailureStatus, Concluded DEF F3Reject
<1>5. ASSUME F3Value PROVE NeverCompleted'
  BY <1>5, FailureStatus, Concluded DEF F3Value
<1> QED  BY <1>1, <1>2, <1>3, <1>4, <1>5 DEF F3Next

\* No step of F4 completes an analysis.
LEMMA F4Keeps == NeverCompleted /\ F4Next => NeverCompleted'
<1> SUFFICES ASSUME NeverCompleted, F4Next PROVE NeverCompleted'
  OBVIOUS
<1>1. ASSUME F4Pools \/ F4Native PROVE NeverCompleted'
  BY <1>1 DEF F4Pools, F4Native, Ask, NeverCompleted
<1>2. ASSUME F4Reject PROVE NeverCompleted'
  BY <1>2, FailureStatus, Concluded DEF F4Reject
<1>3. ASSUME F4Value PROVE NeverCompleted'
  BY <1>3, FailureStatus, Concluded DEF F4Value
<1> QED  BY <1>1, <1>2, <1>3 DEF F4Next

\* No step of F5 completes an analysis.
LEMMA F5Keeps == NeverCompleted /\ F5Next => NeverCompleted'
<1> SUFFICES ASSUME NeverCompleted, F5Next PROVE NeverCompleted'
  OBVIOUS
<1>1. ASSUME F5Prices \/ F5Native PROVE NeverCompleted'
  BY <1>1 DEF F5Prices, F5Native, Ask, NeverCompleted
<1>2. ASSUME F5Reject PROVE NeverCompleted'
  BY <1>2, FailureStatus, Concluded DEF F5Reject
<1>3. ASSUME F5Value PROVE NeverCompleted'
  BY <1>3, FailureStatus, Concluded DEF F5Value
<1> QED  BY <1>1, <1>2, <1>3 DEF F5Next

\* No step of B1 completes an analysis.
LEMMA B1Keeps == NeverCompleted /\ B1Next => NeverCompleted'
<1> SUFFICES ASSUME NeverCompleted, B1Next PROVE NeverCompleted'
  OBVIOUS
<1>1. ASSUME B1Read PROVE NeverCompleted'
  BY <1>1 DEF B1Read, Ask, NeverCompleted
<1>2. ASSUME B1Reject PROVE NeverCompleted'
  BY <1>2, FailureStatus, Concluded DEF B1Reject
<1>3. ASSUME B1Tenderly PROVE NeverCompleted'
  BY <1>3, FailureStatus, Concluded DEF B1Tenderly
<1>4. ASSUME B1Dry PROVE NeverCompleted'
  BY <1>4, FailureStatus, Concluded DEF B1Dry
<1> QED  BY <1>1, <1>2, <1>3, <1>4 DEF B1Next

\* No step of B2 completes an analysis.
LEMMA B2Keeps == NeverCompleted /\ B2Next => NeverCompleted'
<1> SUFFICES ASSUME NeverCompleted, B2Next PROVE NeverCompleted'
  OBVIOUS
<1>1. ASSUME B2Read PROVE NeverCompleted'
  BY <1>1 DEF B2Read, Ask, NeverCompleted
<1>2. ASSUME B2Reject PROVE NeverCompleted'
  BY <1>2, FailureStatus, Concluded DEF B2Reject
<1>3. ASSUME B2Value PROVE NeverCompleted'
  BY <1>3, FailureStatus, Concluded DEF B2Value
<1> QED  BY <1>1, <1>2, <1>3 DEF B2Next

\* No step of B3 completes an analysis.
LEMMA B3Keeps == NeverCompleted /\ B3Next => NeverCompleted'
<1> SUFFICES ASSUME NeverCompleted, B3Next PROVE NeverCompleted'
  OBVIOUS
<1>1. ASSUME B3Read PROVE NeverCompleted'
  BY <1>1 DEF B3Read, Ask, NeverCompleted
<1>2. ASSUME B3Reject PROVE NeverCompleted'
  BY <1>2, FailureStatus, Concluded DEF B3Reject
<1>3. ASSUME B3Value PROVE NeverCompleted'
  BY <1>3, FailureStatus, Concluded DEF B3Value
<1> QED  BY <1>1, <1>2, <1>3 DEF B3Next

\* No step of B4 completes an analysis.
LEMMA B4Keeps == NeverCompleted /\ B4Next => NeverCompleted'
<1> SUFFICES ASSUME NeverCompleted, B4Next PROVE NeverCompleted'
  OBVIOUS
<1>1. ASSUME B4Read PROVE NeverCompleted'
  BY <1>1 DEF B4Read, Ask, NeverCompleted
<1>2. ASSUME B4Reject PROVE NeverCompleted'
  BY <1>2, FailureStatus, Concluded DEF B4Reject
<1>3. ASSUME B4Value PROVE NeverCompleted'
  BY <1>3, FailureStatus, Concluded DEF B4Value
<1> QED  BY <1>1, <1>2, <1>3 DEF B4Next

\* No step of B5 completes an analysis.
LEMMA B5Keeps == NeverCompleted /\ B5Next => NeverCompleted'
<1> SUFFICES ASSUME NeverCompleted, B5Next PROVE NeverCompleted'
  OBVIOUS
<1>1. ASSUME B5Quote PROVE NeverCompleted'
  BY <1>1 DEF B5Quote, Ask, NeverCompleted
<1>2. ASSUME B5Reject PROVE NeverCompleted'
  BY <1>2, FailureStatus, Concluded DEF B5Reject
<1>3. ASSUME B5Value PROVE NeverCompleted'
  <2>1. CASE B5Matched
    BY <1>3, <2>1, Concluded DEF B5Value
  <2>2. CASE ~B5Matched
    <3> DEFINE r == [Failure("CONFLICTING_DATA", 25, B5Evidence)
                       EXCEPT !.conflicts = B5Conflicts(Answer("quote")), !.fresh = "UNKNOWN"]
    <3>1. "status" \in DOMAIN r /\ r.status = "CONFLICTING_DATA"
      BY DEF Failure
    <3>2. Conclude(r)
      BY <1>3, <2>2 DEF B5Value
    <3> QED  BY <3>1, <3>2, Concluded
  <2> QED  BY <2>1, <2>2
<1> QED  BY <1>1, <1>2, <1>3 DEF B5Next

-----------------------------------------------------------------------------
(* The whole *)

\* No live analysis is ever stored as COMPLETED, however the providers answer.
THEOREM LiveIsNeverCompleted == Spec => []NeverCompleted
<1>1. Init => NeverCompleted
  BY DEF Init, None, NeverCompleted
<1>2. NeverCompleted /\ [Next]_vars => NeverCompleted'
  <2> SUFFICES ASSUME NeverCompleted, [Next]_vars PROVE NeverCompleted'
    OBVIOUS
  <2>1. CASE UNCHANGED vars
    BY <2>1 DEF vars, NeverCompleted
  <2>2. CASE Advance
    BY <2>2 DEF Advance, NeverCompleted
  <2>3. CASE Dispatch
    BY <2>3, F1Keeps, F2Keeps, F3Keeps, F4Keeps, F5Keeps,
       B1Keeps, B2Keeps, B3Keeps, B4Keeps, B5Keeps DEF Dispatch
  <2> QED  BY <2>1, <2>2, <2>3 DEF Next
<1> QED  BY <1>1, <1>2, PTL DEF Spec

-----------------------------------------------------------------------------
(* The decision *)

\* A decision over results of which one is not COMPLETED does not say go; a
\* blocker of a usable one makes it AVOID unless a result is there twice.
LEMMA DecisionWaits ==
  ASSUME NEW rs, NEW i \in DOMAIN rs, rs[i].status # "COMPLETED"
  PROVE  /\ State(rs) \in {"WAIT", "AVOID", "UNKNOWN"}
         /\ ~Duplicated(rs) /\ rs[i].status \in USABLE_STATUSES /\ rs[i].blockers
              => State(rs) = "AVOID"
<1>1. i \in Uncertain(rs)
  BY DEF Uncertain
<1>2. State(rs) \in {"WAIT", "AVOID", "UNKNOWN"}
  BY <1>1 DEF State
<1>3. ASSUME ~Duplicated(rs), rs[i].status \in USABLE_STATUSES, rs[i].blockers
      PROVE  State(rs) = "AVOID"
  BY <1>3 DEF State, Weighable, Hard, UsableOf
<1> QED  BY <1>2, <1>3

\* What a caller claims of stored results is not heard: as long as he names their
\* ids, the decision is over the results themselves.
THEOREM ClaimsAreIgnored ==
  ASSUME NEW R, \A r, s \in R : r.id = s.id => r = s,
         NEW all \in Seq(R), all # <<>>,
         NEW submitted, submitted # <<>>, DOMAIN submitted = DOMAIN all,
         \A i \in DOMAIN all : submitted[i].id = all[i].id
  PROVE  AnalyzeDecision(submitted, StoredOf(all)) = Decide(all)
<1> DEFINE stored == StoredOf(all)
<1>1. \A i \in DOMAIN all : all[i] \in R
  OBVIOUS
<1>2. ASSUME NEW i \in DOMAIN all
      PROVE  submitted[i].id \in DOMAIN stored /\ stored[submitted[i].id] = all[i]
  <2>1. submitted[i].id = all[i].id
    OBVIOUS
  <2>2. all[i].id \in DOMAIN stored
    BY DEF StoredOf
  <2>3. stored[all[i].id] = CHOOSE r \in {all[j] : j \in DOMAIN all} : r.id = all[i].id
    BY DEF StoredOf
  <2>4. \A r \in {all[j] : j \in DOMAIN all} : r.id = all[i].id => r = all[i]
    BY <1>1
  <2>5. stored[all[i].id] = all[i]
    BY <2>3, <2>4
  <2> QED  BY <2>1, <2>2, <2>5
<1>3. Canonical(submitted, stored) = [i \in DOMAIN all |-> all[i]]
  BY <1>2 DEF Canonical
<1>4. [i \in DOMAIN all |-> all[i]] = all
  OBVIOUS
<1>5. AnalyzeDecision(submitted, stored) = Decide(Canonical(submitted, stored))
  BY <1>2 DEF AnalyzeDecision
<1> HIDE DEF stored
<1> QED  BY <1>3, <1>4, <1>5 DEF stored

\* The demonstration results of FailsClosed.
Demos == {DemoResult("d1", "F3", 20, FALSE, 0), DemoResult("d2", "B1", 65, FALSE, 0),
          DemoResult("d3", "B4", 35, FALSE, 1)}

\* What a demonstration reports is none of the live conclusions.
LEMMA DemosApart ==
  /\ \A r, s \in Demos : r.id = s.id => r = s
  /\ \A r \in Demos : r.id # "live"
  /\ Companions \subseteq Seq(Demos)
<1>1. /\ \A r, s \in Demos : r.id = s.id => r = s
      /\ \A r \in Demos : r.id # "live"
  BY DEF Demos, DemoResult
<1>2. Companions \subseteq Seq(Demos)
  BY DEF Companions, Demos
<1> QED  BY <1>1, <1>2

\* Live evidence never says go, in any run of any engine.
THEOREM LiveNeverGoes == Spec => []FailsClosed
<1>1. NeverCompleted => FailsClosed
  <2> SUFFICES ASSUME NeverCompleted, NEW others \in Companions, NEW claim \in Claims
               PROVE  LET verdict == AnalyzeDecision(Append(others, claim),
                                       StoredOf(Append(others, StoredResult))).decision
                      IN  /\ verdict \in {"WAIT", "AVOID", "UNKNOWN"}
                          /\ Usable /\ result.blockers /\ ~Duplicated(Append(others, StoredResult))
                               => verdict = "AVOID"
    BY DEF FailsClosed
  <2> DEFINE R == Demos \cup {StoredResult}
             all == Append(others, StoredResult)
             submitted == Append(others, claim)
             last == Len(others) + 1
  <2>1. StoredResult.id = "live" /\ claim.id = "live"
    <3> DEFINE liar == [StoredResult EXCEPT !.status = "COMPLETED", !.risk = 0, !.blockers = FALSE]
    <3>1. StoredResult.id = "live"
      BY DEF StoredResult
    <3>2. liar.id = "live"
      BY Zenon DEF StoredResult
    <3> QED  BY <3>1, <3>2 DEF Claims
  <2>2. \A r, s \in R : r.id = s.id => r = s
    BY <2>1, DemosApart
  <2>3. others \in Seq(Demos)
    BY DemosApart
  <2>4. all \in Seq(R) /\ all # <<>> /\ submitted # <<>>
    BY <2>3
  <2>5. /\ DOMAIN submitted = 1 .. last /\ DOMAIN all = 1 .. last
        /\ all[last] = StoredResult /\ last \in DOMAIN all
        /\ \A i \in 1 .. last : submitted[i].id = all[i].id
    BY <2>1, <2>3
  <2>6. AnalyzeDecision(submitted, StoredOf(all)) = Decide(all)
    <3> HIDE DEF R, all, submitted, last
    <3> QED  BY <2>2, <2>4, <2>5, ClaimsAreIgnored
  <2>7. AnalyzeDecision(submitted, StoredOf(all)).decision = State(all)
    BY <2>6 DEF Decide
  <2>8. StoredResult.status = result.status /\ StoredResult.blockers = result.blockers
    BY DEF StoredResult
  <2>9. USABLE = USABLE_STATUSES
    BY DEF USABLE, USABLE_STATUSES
  <2>10. all[last].status # "COMPLETED"
    BY <2>5, <2>8 DEF NeverCompleted
  <2>11. /\ State(all) \in {"WAIT", "AVOID", "UNKNOWN"}
         /\ ~Duplicated(all) /\ all[last].status \in USABLE_STATUSES /\ all[last].blockers
              => State(all) = "AVOID"
    <3> HIDE DEF all, last
    <3> QED  BY <2>5, <2>10, DecisionWaits
  <2> QED  BY <2>5, <2>7, <2>8, <2>9, <2>11 DEF Usable
<1> QED  BY <1>1, LiveIsNeverCompleted, PTL

-----------------------------------------------------------------------------
(* Changes *)

\* A step of an engine is a step for its request, which it leaves alone.
LEMMA EngineSteps ==
  /\ F1Next => req.engine = "F1" /\ req' = req
  /\ F2Next => req.engine = "F2" /\ req' = req
  /\ F3Next => req.engine = "F3" /\ req' = req
  /\ F4Next => req.engine = "F4" /\ req' = req
  /\ F5Next => req.engine = "F5" /\ req' = req
  /\ B1Next => req.engine = "B1" /\ req' = req
  /\ B2Next => req.engine = "B2" /\ req' = req
  /\ B3Next => req.engine = "B3" /\ req' = req
  /\ B4Next => req.engine = "B4" /\ req' = req
  /\ B5Next => req.engine = "B5" /\ req' = req
<1>1. F1Next => req.engine = "F1" /\ req' = req
  BY DEF F1Next, F1Read, F1Reject, F1Unreadable, F1Empty, F1Price, F1Unvalued, F1Value, F1ReadAll,
         Running, Ask, Conclude
<1>2. F2Next => req.engine = "F2" /\ req' = req
  BY DEF F2Next, F2Protocol, F2Reject, F2Native, F2Value, Running, Ask, Conclude
<1>3. F3Next => req.engine = "F3" /\ req' = req
  BY DEF F3Next, F3Unsupported, F3Attempt, F3Authoritative, F3Read, F3Reject, F3Value,
         F3Supported, F3Modelled, F3Generic, Running, Ask, Conclude
<1>4. F4Next => req.engine = "F4" /\ req' = req
  BY DEF F4Next, F4Pools, F4Reject, F4Native, F4Value, Running, Ask, Conclude
<1>5. F5Next => req.engine = "F5" /\ req' = req
  BY DEF F5Next, F5Prices, F5Reject, F5Native, F5Value, Running, Ask, Conclude
<1>6. B1Next => req.engine = "B1" /\ req' = req
  BY DEF B1Next, B1Read, B1Reject, B1Tenderly, B1Dry, B1Run, Running, Ask, Conclude
<1>7. B2Next => req.engine = "B2" /\ req' = req
  BY DEF B2Next, B2Read, B2Reject, B2Value, B2Run, Running, Ask, Conclude
<1>8. B3Next => req.engine = "B3" /\ req' = req
  BY DEF B3Next, B3Read, B3Reject, B3Value, B3Run, Running, Ask, Conclude
<1>9. B4Next => req.engine = "B4" /\ req' = req
  BY DEF B4Next, B4Read, B4Reject, B4Value, B4Run, Running, Ask, Conclude
<1>10. B5Next => req.engine = "B5" /\ req' = req
  BY DEF B5Next, B5Quote, B5Reject, B5Value, Running, Ask, Conclude
<1> QED  BY <1>1, <1>2, <1>3, <1>4, <1>5, <1>6, <1>7, <1>8, <1>9, <1>10

\* Without an earlier snapshot, a feed that misbehaves and a scan that warns, B3
\* scores ten, and nothing blocks.
LEMMA CalmScore ==
  ASSUME req.previous # "earlier", ~Said("feed", {"STALE", "invalid"}),
         ~Said("scan", {"warning", "malicious"})
  PROVE  B3Score = 10 /\ ~B3Malicious /\ ~Said("feed", {"invalid"})
           /\ ~B3Changed("code", {"changed"})
<1>1. ~Said("feed", {"invalid"}) /\ ~Said("feed", {"STALE"})
  BY DEF Said
<1>2. ~Said("scan", {"warning"}) /\ ~B3Malicious
  BY DEF Said, B3Malicious
<1>3. \A c, answers : ~B3Changed(c, answers)
  BY DEF B3Changed, B3Compared
<1>4. B3Own = 10
  <2>1. B3Own = CHOOSE s \in {10} : \A t \in {10} : t <= s
    BY <1>1, <1>3 DEF B3Own
  <2> QED  BY <2>1
<1>5. B3Score = 10
  BY <1>2, <1>4 DEF B3Score, MaxOf, MinOf
<1> QED  BY <1>1, <1>2, <1>3, <1>5

\* B3 finds no change without a snapshot of an earlier block.
THEOREM NoChangeWithoutPast == Spec => []ChangeNeedsThePast
<1>1. Init => ChangeNeedsThePast
  BY DEF Init, ChangeNeedsThePast, Usable, Done
<1>2. ChangeNeedsThePast /\ [Next]_vars => ChangeNeedsThePast'
  <2> SUFFICES ASSUME ChangeNeedsThePast, [Next]_vars PROVE ChangeNeedsThePast'
    OBVIOUS
  <2> USE DEF ChangeNeedsThePast, Usable, Done, Said, Asked, Answer
  <2>1. CASE UNCHANGED vars
    BY <2>1 DEF vars
  <2>2. CASE Advance
    BY <2>2 DEF Advance
  <2>3. CASE F1Next \/ F2Next \/ F3Next \/ F4Next \/ F5Next \/ B1Next \/ B2Next \/ B4Next \/ B5Next
    BY <2>3, EngineSteps
  <2>4. CASE B3Read
    BY <2>4 DEF B3Read, B3Run, Running, Ask
  <2>5. CASE B3Reject
    <3>1. PICK s, d, e : /\ s \in {"UNSUPPORTED", "INSUFFICIENT_DATA", "PROVIDER_UNAVAILABLE"}
                         /\ Conclude(Failure(s, d, e))
      BY <2>5 DEF B3Reject
    <3> DEFINE r == Failure(s, d, e)
    <3>2. r.status = s /\ r.conflicts = 0 /\ "status" \in DOMAIN r
      BY DEF Failure
    <3> HIDE DEF r
    <3>3. result'.status = s
      BY <3>1, <3>2 DEF Conclude, Normalized, r
    <3> QED  BY <3>1, <3>3 DEF USABLE
  <2>6. CASE B3Value
    <3> DEFINE alarm == \/ Said("feed", {"invalid"}) \/ B3Malicious
                        \/ B3Changed("code", {"changed"})
               r == [status |-> IF B3Stale THEN "STALE_DATA" ELSE "PARTIAL", risk |-> B3Score,
                     dataConf |-> B3DataConfidence,
                     engConf |-> IF B3Scanned THEN IF B3Compared THEN 80 ELSE 68
                                 ELSE IF B3Compared THEN 70 ELSE 58,
                     blockers |-> alarm,
                     conflicts |-> 0, consensus |-> "MULTI_SOURCE", fresh |-> B3Fresh,
                     block |-> ReadAt("block"), evidence |-> B3Evidence]
    <3>1. Conclude(r)
      BY <2>6 DEF B3Value
    <3>2. result'.risk = r.risk /\ result'.blockers = r.blockers /\ UNCHANGED <<req, got>>
      BY <3>1 DEF Conclude, Normalized
    <3>3. r.risk = B3Score /\ r.blockers = alarm
      OBVIOUS
    <3> HIDE DEF r
    <3> QED  BY <3>2, <3>3, CalmScore
  <2> QED  BY <2>1, <2>2, <2>3, <2>4, <2>5, <2>6 DEF Next, Dispatch, B3Next
<1> QED  BY <1>1, <1>2, PTL DEF Spec

-----------------------------------------------------------------------------
(* Calls *)

\* A call adds its answer and changes nothing else.
LEMMA AskAdds ==
  ASSUME NEW c, NEW S, NEW at, Ask(c, S, at), ~Asked(c)
  PROVE  /\ DOMAIN got' = DOMAIN got \cup {c}
         /\ got'[c].at = at /\ got'[c].ans \in S
         /\ \A d \in DOMAIN got : got'[d] = got[d]
         /\ UNCHANGED <<req, head, result>>
<1>1. PICK a \in S :
        got' = [d \in DOMAIN got \cup {c} |-> IF d = c THEN [ans |-> a, at |-> at] ELSE got[d]]
  BY DEF Ask
<1> QED  BY <1>1 DEF Asked, Ask

\* A plan goes on with the first of its calls that was not made yet.
LEMMA FirstUnasked ==
  ASSUME NEW plan, NEW n \in Nat, DOMAIN plan = 1 .. n, ~Finished(plan)
  PROVE  \E i \in DOMAIN plan :
           /\ NextOf(plan) = plan[i] /\ ~Asked(plan[i])
           /\ \A j \in DOMAIN plan : j < i => Asked(plan[j])
<1> DEFINE S == Unasked(plan)
           T == {1 .. i : i \in S}
           R == StrictSubsetOrdering(1 .. n)
<1>0. S # {} /\ S \in SUBSET (1 .. n)
  BY DEF Finished, Unasked
<1>1. IsWellFoundedOn(R, FiniteSubsetsOf(1 .. n))
  BY FS_StrictSubsetOrderingWellFounded
<1>2. T \subseteq FiniteSubsetsOf(1 .. n) /\ T # {}
  <2>1. ASSUME NEW i \in S PROVE 1 .. i \in FiniteSubsetsOf(1 .. n)
    <3>1. IsFiniteSet(1 .. i) /\ 1 .. i \subseteq 1 .. n
      BY <1>0, FS_Interval
    <3> QED  BY <3>1 DEF FiniteSubsetsOf
  <2> QED  BY <1>0, <2>1
<1>3. PICK J \in T : \A I \in T : ~(<<I, J>> \in R)
  <2> HIDE DEF T, R
  <2> QED  BY <1>1, <1>2, WFMin
<1>4. PICK j \in S : J = 1 .. j
  OBVIOUS
<1>5. ASSUME NEW i \in S PROVE j <= i
  <2> SUFFICES ASSUME i < j PROVE FALSE
    BY <1>0
  <2>1. 1 .. i \in T /\ 1 .. i \subseteq J /\ 1 .. i # J /\ J \subseteq 1 .. n
    <3>1. j \in J /\ j \notin 1 .. i
      BY <1>0, <1>4
    <3> QED  BY <1>0, <1>4, <3>1
  <2> QED  BY <1>3, <2>1 DEF StrictSubsetOrdering
<1> DEFINE k == CHOOSE i \in Unasked(plan) : \A m \in Unasked(plan) : i <= m
<1>6. k \in S /\ \A m \in S : k <= m
  BY <1>5
<1>7. NextOf(plan) = plan[k]
  BY DEF NextOf
<1> HIDE DEF k
<1>8. k \in DOMAIN plan /\ ~Asked(plan[k])
  BY <1>6 DEF Unasked
<1>9. ASSUME NEW m \in DOMAIN plan, m < k PROVE Asked(plan[m])
  <2>1. m \in Nat /\ k \in Nat
    BY <1>8
  <2>2. m \notin S
    BY <1>6, <1>9, <2>1
  <2> QED  BY <2>2 DEF Unasked
<1>10. \A m \in DOMAIN plan : m < k => Asked(plan[m])
  BY <1>9
<1> HIDE DEF S, T, R
<1> QED  BY <1>7, <1>8, <1>10, Zenon

-----------------------------------------------------------------------------
(* Plans *)

\* A plan that opens with the block it captures.
Captures(p) == Len(p) >= 2 /\ p[1] = "rpc" /\ p[2] = "block"

\* The calls of a joined plan.
LEMMA JoinedPlan ==
  ASSUME NEW S, NEW p \in Seq(S), NEW q \in Seq(S)
  PROVE  /\ p \o q \in Seq(S) /\ InPlan(p) \subseteq InPlan(p \o q)
         /\ Captures(p) => Captures(p \o q)
<1>1. /\ p \o q \in Seq(S) /\ Len(p) \in Nat /\ Len(q) \in Nat
      /\ DOMAIN p = 1 .. Len(p) /\ Len(p \o q) = Len(p) + Len(q)
      /\ DOMAIN (p \o q) = 1 .. Len(p) + Len(q)
      /\ \A i \in 1 .. Len(p) : (p \o q)[i] = p[i]
  OBVIOUS
<1>2. InPlan(p) \subseteq InPlan(p \o q)
  BY <1>1 DEF InPlan
<1> QED  BY <1>1, <1>2 DEF Captures

\* Short plans.
LEMMA ShortPlans ==
  ASSUME NEW S
  PROVE  /\ <<>> \in Seq(S)
         /\ \A a \in S : <<a>> \in Seq(S)
         /\ \A a, b \in S : <<a, b>> \in Seq(S)
         /\ \A a, b, c \in S : <<a, b, c>> \in Seq(S)
         /\ \A a, b, c, d \in S : <<a, b, c, d>> \in Seq(S)
OBVIOUS

\* The calls of a plan.
LEMMA PlanCalls ==
  ASSUME NEW S, NEW p \in Seq(S)
  PROVE  InPlan(p) \subseteq S
BY DEF InPlan

\* A plan's calls are in it.
LEMMA OnPlan ==
  ASSUME NEW p, NEW i \in DOMAIN p
  PROVE  p[i] \in InPlan(p)
BY DEF InPlan

\* The next call of a plan is one of its calls that was not made yet, and no call
\* but the first two comes before the block is captured.
LEMMA NextCall ==
  ASSUME NEW S, NEW plan \in Seq(S), ~Finished(plan)
  PROVE  /\ NextOf(plan) \in InPlan(plan) /\ NextOf(plan) \in S /\ ~Asked(NextOf(plan))
         /\ Captures(plan) => /\ NextOf(plan) \in {"rpc", "block"} \/ Asked("block")
                              /\ NextOf(plan) = "rpc" \/ Asked("rpc")
<1>1. Len(plan) \in Nat /\ DOMAIN plan = 1 .. Len(plan)
  OBVIOUS
<1>2. PICK i \in DOMAIN plan : /\ NextOf(plan) = plan[i] /\ ~Asked(plan[i])
                               /\ \A j \in DOMAIN plan : j < i => Asked(plan[j])
  BY <1>1, FirstUnasked
<1>3. ASSUME Captures(plan), plan[i] \notin {"rpc", "block"} PROVE Asked("block")
  <2>1. 2 \in DOMAIN plan /\ plan[2] = "block" /\ 2 < i
    <3>1. i # 1 /\ i # 2
      BY <1>3 DEF Captures
    <3> QED  BY <1>1, <1>3, <3>1 DEF Captures
  <2> QED  BY <1>2, <2>1
<1>4. ASSUME Captures(plan), plan[i] # "rpc" PROVE Asked("rpc")
  <2>1. 1 \in DOMAIN plan /\ plan[1] = "rpc" /\ 1 < i
    BY <1>1, <1>4 DEF Captures
  <2> QED  BY <1>2, <2>1
<1> QED  BY <1>2, <1>3, <1>4 DEF InPlan

\* All calls of a finished plan were made.
LEMMA FinishedPlan ==
  ASSUME NEW plan, Finished(plan)
  PROVE  \A c \in InPlan(plan) : Asked(c)
BY DEF Finished, Unasked, InPlan

-----------------------------------------------------------------------------
(* What the calls of an engine are known to have read *)

\* The calls that each engine pins to the block it captured.
PinnedCalls ==
  CASE req.engine = "F1" -> {"decimals", "native1", "native2", "balance1", "balance2"}
    [] req.engine = "F3" -> {"collateral", "debt"}
    [] req.engine = "B2" -> {"code"}
    [] req.engine = "B3" -> {"balance", "code", "supply", "feed"}
    [] req.engine = "B4" -> {"balance"}
    [] OTHER -> {}
NativePinned == {"n.code", "n.slots", "n.oracle"}

\* The blocks that a call may have been answered at.
Reached == {Nowhere, Past - 1} \cup Past .. head
CallsReached == \A c \in DOMAIN got : got[c].at \in Reached
\* The block an engine captures is one that was the head meanwhile.
BlockNew == Asked("block") => ReadAt("block") \in Past + 1 .. head
\* B1 probes the provider and captures a block before it does anything else.
BlockFirst ==
  req.engine = "B1" => \A c \in DOMAIN got : Asked("rpc") /\ (c = "rpc" \/ Asked("block"))
\* What is pinned to a block was read at that block.
CallsPinned ==
  /\ \A c \in PinnedCalls : Asked(c) => Asked("block") /\ ReadAt(c) = ReadAt("block")
  /\ \A c \in NativePinned : Asked(c) => Asked("n.block") /\ ReadAt(c) = NativeBlock
  /\ req.native.at = "past" => \A c \in AdapterCalls : Asked(c) => ReadAt(c) = Past

\* The answers that the proofs tell apart, and who gives them.
OracleAnswers == {"LIVE", "EXPIRED", "UNKNOWN", "zero", "behind", "failed", "malformed"}
PositionAnswers == {"safe", "near", "close", "at", "below", "error"}
CollateralAnswers == {"LIVE", "UNKNOWN", "STALE"} \cup Broken
FeedAnswers == {"LIVE", "UNKNOWN", "STALE", "invalid", "malformed"}
AnswersKnown ==
  /\ Asked("n.oracle") => Answer("n.oracle") \in OracleAnswers
  /\ Asked("a.position") => Answer("a.position") \in PositionAnswers
  /\ req.engine = "F3" /\ Asked("collateral") => Answer("collateral") \in CollateralAnswers
  /\ req.engine = "F3" /\ Asked("market") => req.market
  /\ req.engine = "B3" /\ Asked("feed") => req.feed /\ Answer("feed") \in FeedAnswers

\* The inductive invariant of the calls.
Sound ==
  /\ req \in Requests /\ head \in Past + 1 .. MaxHead
  /\ CallsReached /\ BlockNew /\ BlockFirst /\ CallsPinned /\ AnswersKnown

\* A call that fits what is known of the others.
Fits(c, answers, at) ==
  /\ at \in Reached
  /\ c = "block" => at \in Past + 1 .. head
  /\ req.engine = "B1" =>
       c = "rpc" \/ (Asked("rpc") /\ (c = "block" \/ Asked("block")))
  /\ c \in PinnedCalls => Asked("block") /\ at = ReadAt("block")
  /\ c \in NativePinned => Asked("n.block") /\ at = NativeBlock
  /\ c \in AdapterCalls /\ req.native.at = "past" => at = Past
  /\ c = "n.oracle" => answers \subseteq OracleAnswers
  /\ c = "a.position" => answers \subseteq PositionAnswers
  /\ req.engine = "F3" /\ c = "collateral" => answers \subseteq CollateralAnswers
  /\ req.engine = "F3" /\ c = "market" => req.market
  /\ req.engine = "B3" /\ c = "feed" => req.feed /\ answers \subseteq FeedAnswers

\* A call that fits changes nothing that was known.
LEMMA AskKeeps ==
  ASSUME Sound, NEW c, NEW answers, NEW at, ~Asked(c), Fits(c, answers, at), Ask(c, answers, at)
  PROVE  Sound'
<1>1. /\ DOMAIN got' = DOMAIN got \cup {c} /\ c \notin DOMAIN got
      /\ got'[c].at = at /\ got'[c].ans \in answers
      /\ \A d \in DOMAIN got : got'[d] = got[d]
      /\ UNCHANGED <<req, head, result>>
  BY AskAdds DEF Asked
<1>2. PinnedCalls' = PinnedCalls /\ Reached' = Reached
  BY <1>1 DEF PinnedCalls, Reached
<1>3. CallsReached'
  BY <1>1, <1>2 DEF Sound, CallsReached, Fits
<1>4. BlockNew'
  BY <1>1 DEF Sound, BlockNew, Fits, Asked, ReadAt
<1>5. BlockFirst'
  BY <1>1 DEF Sound, BlockFirst, Fits, Asked
<1>6. \A d \in PinnedCalls : Asked(d)' => Asked("block")' /\ ReadAt(d)' = ReadAt("block")'
  BY <1>1 DEF Sound, CallsPinned, Fits, Asked, ReadAt
<1>7. \A d \in NativePinned : Asked(d)' => Asked("n.block")' /\ ReadAt(d)' = NativeBlock'
  BY <1>1 DEF Sound, CallsPinned, Fits, Asked, ReadAt, NativeBlock, NativeHead
<1>8. req.native.at = "past" => \A d \in AdapterCalls : Asked(d)' => ReadAt(d)' = Past
  BY <1>1 DEF Sound, CallsPinned, Fits, Asked, ReadAt
<1>9. CallsPinned'
  BY <1>1, <1>2, <1>6, <1>7, <1>8 DEF CallsPinned
<1>10. AnswersKnown'
  BY <1>1 DEF Sound, AnswersKnown, Fits, Asked, Answer
<1> QED  BY <1>1, <1>3, <1>4, <1>5, <1>9, <1>10 DEF Sound

\* A conclusion makes no call.
LEMMA ConcludeSound ==
  ASSUME Sound, UNCHANGED <<req, head, got>>
  PROVE  Sound'
BY DEF Sound, CallsReached, Reached, BlockNew, BlockFirst, CallsPinned, PinnedCalls,
       AnswersKnown, Asked, Answer, ReadAt, NativeBlock, NativeHead

\* The chain goes on.
LEMMA AdvanceSound ==
  ASSUME Sound, Advance
  PROVE  Sound'
<1>1. head' = head + 1 /\ head < MaxHead /\ UNCHANGED <<req, got>> /\ head \in Int /\ MaxHead \in Int
  BY MaxHeadAssumption DEF Advance, Sound, Past
<1>2. Reached \subseteq Reached' /\ Past + 1 .. head \subseteq Past + 1 .. head'
  BY <1>1 DEF Reached, Past, Nowhere
<1> QED
  BY <1>1, <1>2
  DEF Sound, CallsReached, BlockNew, BlockFirst, CallsPinned, PinnedCalls, AnswersKnown,
      Asked, Answer, ReadAt, NativeBlock, NativeHead, Past

-----------------------------------------------------------------------------
(* The engines, one by one: their calls fit what is known *)

\* The calls of protocol-native evidence.
NativeNames ==
  {"a.config", "a.market", "a.parameters", "a.dependencies", "a.price", "a.position", "a.debt",
   "a.rate", "n.rpc", "n.block", "n.code", "n.slots", "n.source", "n.oracle"}

\* The native calls, and what comes before the block is captured.
LEMMA NativeCalls ==
  /\ NativePlan \in Seq(NativeNames)
  /\ ~NativeCaptured => NativePlan \in Seq({"n.rpc", "n.block"})
<1> DEFINE S == NativeNames
           tail == (IF AdapterRequested THEN AdapterPlan ELSE <<>>) \o ContractPlan
                     \o (IF req.native.feed THEN <<"n.oracle">> ELSE <<>>)
           first == <<"n.rpc">> \o (IF Fails({"n.rpc"}) THEN <<>> ELSE <<"n.block">>)
<1>0. /\ {"a.config", "a.market", "a.parameters", "a.dependencies", "a.price", "a.position",
          "a.debt", "a.rate"} \subseteq S
      /\ {"n.rpc", "n.block", "n.code", "n.slots", "n.source", "n.oracle"} \subseteq S
      /\ <<>> \in Seq(S)
  BY ShortPlans DEF NativeNames
<1>1. AdapterPlan \in Seq(S)
  <2> HIDE DEF S
  <2>1. AdapterCore \in Seq(S)
    BY <1>0, ShortPlans DEF AdapterCore
  <2>2. AdapterExtras \in Seq(S)
    <3> DEFINE debt == IF Fails({"a.position"}) THEN <<>> ELSE <<"a.debt">>
               one == IF req.native.user THEN <<"a.position">> ELSE <<>>
               both == IF req.native.user THEN <<"a.position">> \o debt ELSE <<>>
               deep == IF Verified THEN <<"a.dependencies">> ELSE <<>>
               feeds == IF MorphoPriced THEN deep ELSE <<>>
    <3>1. debt \in Seq(S) /\ <<"a.position">> \in Seq(S) /\ <<>> \in Seq(S)
      BY <1>0, ShortPlans
    <3>2. one \in Seq(S) /\ both \in Seq(S)
      <4> HIDE DEF S, debt
      <4> QED  BY <3>1
    <3>3. deep \in Seq(S) /\ feeds \in Seq(S)
      BY <1>0, ShortPlans
    <3>4. /\ <<"a.parameters">> \in Seq(S) /\ <<"a.price">> \in Seq(S) /\ <<"a.rate">> \in Seq(S)
      BY <1>0, ShortPlans
    <3>5. CASE req.native.adapter = "aave_v3"
      <4>1. AdapterExtras = <<"a.parameters">> \o deep \o one
        BY <3>5 DEF AdapterExtras, AaveExtras, OfUser, OfVerified
      <4> HIDE DEF one, both, deep, feeds, S
      <4> QED  BY <3>2, <3>3, <3>4, <4>1
    <3>6. CASE req.native.adapter = "compound_v3"
      <4>1. AdapterExtras = <<"a.price">> \o both \o deep
        BY <3>6 DEF AdapterExtras, CompoundExtras, OfUser, OfVerified
      <4> HIDE DEF one, both, deep, feeds, S
      <4> QED  BY <3>2, <3>3, <3>4, <4>1
    <3>7. CASE req.native.adapter \notin {"aave_v3", "compound_v3"}
      <4>1. AdapterExtras = <<"a.price">> \o one \o feeds \o <<"a.rate">>
        BY <3>7 DEF AdapterExtras, MorphoExtras, MorphoFeeds, OfUser, OfVerified
      <4> HIDE DEF one, both, deep, feeds, S
      <4> QED  BY <3>2, <3>3, <3>4, <4>1
    <3> QED  BY <3>5, <3>6, <3>7
  <2> HIDE DEF S
  <2> QED  BY <2>1, <2>2 DEF AdapterPlan
<1>2. ContractPlan \in Seq(S)
  <2> HIDE DEF S
  <2> DEFINE more == IF Said("n.code", {"code"}) THEN <<"n.slots", "n.source">> ELSE <<>>
  <2>1. more \in Seq(S) /\ <<"n.code">> \in Seq(S) /\ <<>> \in Seq(S)
    BY <1>0, ShortPlans
  <2>2. ContractPlan = IF req.native.contract = "none" THEN <<>> ELSE <<"n.code">> \o more
    BY DEF ContractPlan
  <2> HIDE DEF more, S
  <2> QED  BY <2>1, <2>2
<1>3. tail \in Seq(S)
  <2>1. (IF req.native.feed THEN <<"n.oracle">> ELSE <<>>) \in Seq(S) 
    <3> HIDE DEF S
    <3> QED  BY <1>0, ShortPlans
  <2> HIDE DEF S
  <2> QED  BY <1>0, <1>1, <1>2, <2>1
<1>4. first \in Seq({"n.rpc", "n.block"}) /\ first \in Seq(S)
  <2> DEFINE second == IF Fails({"n.rpc"}) THEN <<>> ELSE <<"n.block">>
             T == {"n.rpc", "n.block"}
  <2>1. T \subseteq S /\ "n.rpc" \in T /\ "n.block" \in T
    BY <1>0
  <2> HIDE DEF S, T
  <2>2. <<"n.rpc">> \in Seq(T) /\ second \in Seq(T)
    BY <2>1, ShortPlans
  <2>3. first \in Seq(T)
    <3> HIDE DEF second
    <3> QED  BY <2>2 DEF second
  <2>4. first \in Seq(S)
    <3> HIDE DEF first
    <3> QED  BY <2>1, <2>3
  <2> QED  BY <2>3, <2>4 DEF T
<1>5. NativePlan = IF ~NativeDirect THEN <<>>
                   ELSE first \o (IF ~NativeCaptured THEN <<>> ELSE tail)
  BY DEF NativePlan
<1> HIDE DEF S, tail, first
<1>6. NativePlan \in Seq(S)
  BY <1>3, <1>4, <1>5
<1>7. ~NativeCaptured => NativePlan \in Seq({"n.rpc", "n.block"})
  BY <1>4, <1>5
<1> QED  BY <1>6, <1>7 DEF S

\* A native call fits, whichever engine asks for it.
LEMMA NativeFits ==
  ASSUME Sound, req.engine # "B1", NEW c \in NativeNames, c \in {"n.rpc", "n.block"} \/ NativeCaptured
  PROVE  Fits(c, NativeAnswers(c), NativeReadAt(c))
<1>1. head \in Int /\ head > Past
  BY MaxHeadAssumption DEF Sound, Past
<1>2. NativeCaptured => Asked("n.block") /\ ReadAt("n.block") \in Reached
  BY DEF NativeCaptured, Said, Sound, CallsReached, Asked, ReadAt
<1>3. NativeReadAt(c) \in Reached
  BY <1>1, <1>2 DEF NativeReadAt, NativeNames, AdapterReadAt, NativeBlock, NativeHead,
     Reached, Past
<1>4. c # "block" /\ c \notin {"collateral", "market", "feed"} /\ c \notin PinnedCalls
  BY DEF NativeNames, NativePinned, AdapterCalls, PinnedCalls
<1>5. c \in NativePinned => Asked("n.block") /\ NativeReadAt(c) = NativeBlock
  BY <1>2 DEF NativePinned, NativeReadAt, AdapterCalls
<1>6. c \in AdapterCalls /\ req.native.at = "past" => NativeReadAt(c) = Past
  BY DEF NativeReadAt, AdapterReadAt, AdapterCalls
<1>7. NativeAnswers("n.oracle") = OracleAnswers /\ NativeAnswers("a.position") = PositionAnswers
  BY DEF NativeAnswers, AdapterAnswers, OracleAnswers, PositionAnswers
<1> QED  BY <1>3, <1>4, <1>5, <1>6, <1>7 DEF Fits

\* A native call keeps what is known.
LEMMA NativeSound ==
  ASSUME Sound, req.engine # "B1", ~Finished(NativePlan), NEW c, c = NextOf(NativePlan),
         Ask(c, NativeAnswers(c), NativeReadAt(c))
  PROVE  Sound'
<1>1. c \in NativeNames /\ ~Asked(c) /\ (c \in {"n.rpc", "n.block"} \/ NativeCaptured)
  BY NativeCalls, NextCall
<1> QED  BY <1>1, NativeFits, AskKeeps

\* A call that no block vouches for keeps what is known.
LEMMA OffChainSound ==
  ASSUME Sound, req.engine # "B1", NEW c \in {"protocol", "pools", "prices", "quote"}, ~Asked(c), NEW answers,
         Ask(c, answers, Nowhere)
  PROVE  Sound'
<1>1. Fits(c, answers, Nowhere)
  BY DEF Fits, Reached, PinnedCalls, NativePinned, AdapterCalls
<1> QED  BY <1>1, AskKeeps

\* The calls of F1.
F1CallNames == {"rpc", "block", "decimals", "native1", "native2", "balance1", "balance2"}
\* The plan of F1.
LEMMA F1Calls ==
  ASSUME req \in F1Requests
  PROVE  F1Plan \in Seq(F1CallNames) /\ (~Finished(F1Plan) => Captures(F1Plan))
<1> DEFINE S == F1CallNames
           two == <<"native1", "native2">>
           both == <<"balance1", "balance2">>
           start == <<"rpc", "block">>
<1>1. req.wallets \in 0 .. 2
  BY DEF F1Requests
<1>2. F1Natives \in Seq(S)
  <2>1. \A i \in 1 .. req.wallets : two[i] \in S
    BY <1>1 DEF F1CallNames
  <2> HIDE DEF two
  <2>2. SubSeq(two, 1, req.wallets) \in Seq(S)
    BY <1>1, <2>1, SubSeqProperties
  <2> QED  BY <2>2 DEF F1Natives, two
<1>3. F1Balances \in Seq(S)
  <2>1. \A i \in 1 .. req.wallets : both[i] \in S
    BY <1>1 DEF F1CallNames
  <2> HIDE DEF both
  <2>2. SubSeq(both, 1, req.wallets) \in Seq(S)
    BY <1>1, <2>1, SubSeqProperties
  <2> QED  BY <2>2 DEF F1Balances, both
<1>4. start \in Seq(S) /\ Captures(start) /\ <<"decimals">> \in Seq(S) /\ <<>> \in Seq(S)
  BY DEF F1CallNames, Captures
<1>5. CASE req.wallets = 0
  BY <1>4, <1>5 DEF F1Plan, Finished, Unasked
<1>6. CASE req.wallets # 0
  <2> DEFINE rest == IF req.tokens = 0 THEN <<>> ELSE <<"decimals">> \o F1Balances
  <2> HIDE DEF S, start
  <2>1. rest \in Seq(S)
    BY <1>3, <1>4
  <2>2. F1Plan = (start \o F1Natives) \o rest
    BY <1>6 DEF F1Plan, start
  <2> HIDE DEF rest
  <2>3. start \o F1Natives \in Seq(S) /\ Captures(start \o F1Natives)
    BY <1>2, <1>4, JoinedPlan
  <2>4. F1Plan \in Seq(S) /\ Captures(F1Plan)
    BY <2>1, <2>2, <2>3, JoinedPlan
  <2> QED  BY <2>4 DEF S
<1> QED  BY <1>5, <1>6

\* The block a run captured is one the chain had reached, and so is head.
LEMMA BlockReached ==
  ASSUME Sound
  PROVE  /\ head \in Past + 1 .. head /\ head \in Reached /\ head - 1 \in Reached
         /\ Past \in Reached /\ Past - 1 \in Reached /\ Nowhere \in Reached
         /\ Asked("block") => ReadAt("block") \in Reached /\ ReadAt("block") - 1 \in Reached
<1>1. head \in Int /\ head > Past
  BY MaxHeadAssumption DEF Sound, Past
<1>2. Asked("block") => ReadAt("block") \in Past + 1 .. head
  BY DEF Sound, BlockNew
<1> QED  BY <1>1, <1>2 DEF Reached, Past, Nowhere

\* A request is one of its engine's.
LEMMA RequestOf ==
  ASSUME req \in Requests
  PROVE  /\ req.engine = "F1" => req \in F1Requests
         /\ req.engine = "F2" => req \in F2Requests
         /\ req.engine = "F3" => req \in F3Requests
         /\ req.engine = "F4" => req \in F4Requests
         /\ req.engine = "F5" => req \in F5Requests
         /\ req.engine \in {"F1", "F2", "F3", "F4", "F5", "B1", "B2", "B3", "B4", "B5"}
<1>1. req \in F1Requests => req.engine = "F1"
  BY DEF F1Requests
<1>2. req \in F2Requests => req.engine = "F2"
  BY DEF F2Requests
<1>3. req \in F3Requests => req.engine = "F3"
  BY DEF F3Requests
<1>4. req \in F4Requests => req.engine = "F4"
  BY DEF F4Requests
<1>5. req \in F5Requests => req.engine = "F5"
  BY DEF F5Requests
<1>6. /\ req \in B1Requests => req.engine = "B1"
      /\ req \in B2Requests => req.engine = "B2"
  BY DEF B1Requests, B2Requests
<1>7. /\ req \in B3Requests => req.engine = "B3"
      /\ req \in B4Requests => req.engine = "B4"
      /\ req \in B5Requests => req.engine = "B5"
  BY DEF B3Requests, B4Requests, B5Requests
<1> QED  BY <1>1, <1>2, <1>3, <1>4, <1>5, <1>6, <1>7 DEF Requests

\* No step of F1 loses what is known.
LEMMA F1Sound == Sound /\ F1Next => Sound'
<1> SUFFICES ASSUME Sound, F1Next PROVE Sound'
  OBVIOUS
<1>1. ASSUME F1Read PROVE Sound'
  <2> DEFINE c == NextOf(F1Plan)
  <2>1. req \in F1Requests /\ req.engine = "F1" /\ ~Finished(F1Plan) /\ Ask(c, F1Answers(c), F1BlockOf(c))
    BY <1>1, RequestOf DEF F1Read, Running, Sound
  <2>2. c \in F1CallNames /\ ~Asked(c) /\ (c \in {"rpc", "block"} \/ Asked("block"))
    BY <2>1, F1Calls, NextCall
  <2> HIDE DEF c
  <2>3. Fits(c, F1Answers(c), F1BlockOf(c))
    BY <2>1, <2>2, BlockReached
    DEF Fits, F1BlockOf, F1CallNames, PinnedCalls, NativePinned, AdapterCalls
  <2> QED  BY <2>1, <2>2, <2>3, AskKeeps
<1>2. ASSUME F1Price PROVE Sound'
  BY <1>2, OffChainSound DEF F1Price, F1ReadAll, Running
<1>3. ASSUME F1Reject \/ F1Unreadable \/ F1Empty \/ F1Unvalued \/ F1Value PROVE Sound'
  BY <1>3, ConcludeSound DEF F1Reject, F1Unreadable, F1Empty, F1Unvalued, F1Value, Conclude
<1> QED  BY <1>1, <1>2, <1>3 DEF F1Next

\* No step of F2 loses what is known.
LEMMA F2Sound == Sound /\ F2Next => Sound'
<1> SUFFICES ASSUME Sound, F2Next PROVE Sound'
  OBVIOUS
<1>1. ASSUME F2Protocol PROVE Sound'
  BY <1>1, OffChainSound DEF F2Protocol, Running
<1>2. ASSUME F2Native PROVE Sound'
  BY <1>2, NativeSound DEF F2Native, Running
<1>3. ASSUME F2Reject \/ F2Value PROVE Sound'
  BY <1>3, ConcludeSound DEF F2Reject, F2Value, Conclude
<1> QED  BY <1>1, <1>2, <1>3 DEF F2Next

\* The calls of the modelled path of F3.
F3Names == NativeNames \cup {"rpc", "block", "collateral", "debt", "market"}

\* The plan of the modelled path of F3, over any set of names that holds them.
LEMMA F3Calls ==
  ASSUME NEW S, {"rpc", "block", "collateral", "debt"} \subseteq S, req.market => "market" \in S,
         NativePlan \in Seq(S)
  PROVE  /\ F3Plan \in Seq(S)
         /\ ~Finished(F3Plan) => Captures(F3Plan)
         /\ ~F3Down => InPlan(F3Feeds) \subseteq InPlan(F3Plan)
<1> DEFINE start == <<"rpc", "block", "collateral">>
           debt == IF req.debt THEN <<"debt">> ELSE <<>>
           market == IF req.market THEN <<"market">> ELSE <<>>
           native == IF NativeRequested /\ ~F3Explicit THEN NativePlan ELSE <<>>
<1>1. start \in Seq(S) /\ Captures(start) /\ <<>> \in Seq(S)
  BY ShortPlans DEF Captures
<1>2. debt \in Seq(S) /\ market \in Seq(S)
  BY ShortPlans
<1>3. native \in Seq(S)
  BY <1>1
<1>4. F3Feeds = start \o debt
  BY DEF F3Feeds
<1>5. F3Plan = IF F3Down THEN <<>> ELSE (F3Feeds \o market) \o native
  BY DEF F3Plan
<1> HIDE DEF start, debt, market, native
<1>6. F3Feeds \in Seq(S) /\ Captures(F3Feeds)
  BY <1>1, <1>2, <1>4, JoinedPlan
<1>7. /\ F3Feeds \o market \in Seq(S) /\ Captures(F3Feeds \o market)
      /\ InPlan(F3Feeds) \subseteq InPlan(F3Feeds \o market)
  BY <1>2, <1>6, JoinedPlan
<1>8. /\ F3Feeds \o market \o native \in Seq(S) /\ Captures(F3Feeds \o market \o native)
      /\ InPlan(F3Feeds \o market) \subseteq InPlan(F3Feeds \o market \o native)
  BY <1>3, <1>7, JoinedPlan
<1>9. CASE F3Down
  BY <1>1, <1>5, <1>9 DEF Finished, Unasked
<1>10. CASE ~F3Down
  BY <1>5, <1>7, <1>8, <1>10
<1> QED  BY <1>9, <1>10

\* The next call of the modelled path.
LEMMA F3NextCall ==
  ASSUME ~Finished(F3Plan)
  PROVE  LET c == NextOf(F3Plan) IN
         /\ c \in F3Names /\ ~Asked(c) /\ (c \in {"rpc", "block"} \/ Asked("block"))
         /\ c = "market" => req.market
         /\ c \in NativeNames => c \in {"n.rpc", "n.block"} \/ NativeCaptured
<1> DEFINE c == NextOf(F3Plan)
           S == F3Names
           T == F3Names \ {"market"}
           U == {"rpc", "block", "collateral", "debt", "market", "n.rpc", "n.block"}
<1>1. NativePlan \in Seq(S) /\ NativePlan \in Seq(T) /\ (~NativeCaptured => NativePlan \in Seq(U))
  <2>1. NativeNames \subseteq S /\ NativeNames \subseteq T /\ {"n.rpc", "n.block"} \subseteq U
    BY DEF F3Names, NativeNames
  <2> HIDE DEF S, T, U
  <2> QED  BY <2>1, NativeCalls
<1>2. /\ {"rpc", "block", "collateral", "debt"} \subseteq S /\ "market" \in S
      /\ {"rpc", "block", "collateral", "debt"} \subseteq T
      /\ {"rpc", "block", "collateral", "debt"} \subseteq U /\ "market" \in U
  BY DEF F3Names
<1>3. c \in T \/ req.market
  <2> HIDE DEF S, T, U, c
  <2>1. ~req.market => F3Plan \in Seq(T)
    BY <1>1, <1>2, F3Calls
  <2> QED  BY <2>1, NextCall DEF c
<1>4. c \in U \/ NativeCaptured
  <2> HIDE DEF S, T, U, c
  <2>1. ~NativeCaptured => F3Plan \in Seq(U)
    BY <1>1, <1>2, F3Calls
  <2> QED  BY <2>1, NextCall DEF c
<1>5. c \in S /\ ~Asked(c) /\ (c \in {"rpc", "block"} \/ Asked("block"))
  <2> HIDE DEF S, T, U, c
  <2>1. F3Plan \in Seq(S) /\ Captures(F3Plan)
    BY <1>1, <1>2, F3Calls
  <2> QED  BY <2>1, NextCall DEF c
<1> HIDE DEF c
<1>6. c \in U /\ c \in NativeNames => c \in {"n.rpc", "n.block"}
  BY DEF NativeNames
<1>7. c = "market" => c \notin T
  OBVIOUS
<1> HIDE DEF U, T
<1> QED  BY <1>3, <1>4, <1>5, <1>6, <1>7 DEF c

\* No step of F3 loses what is known.
LEMMA F3Sound == Sound /\ F3Next => Sound'
<1> SUFFICES ASSUME Sound, F3Next PROVE Sound'
  OBVIOUS
<1>1. ASSUME F3Read PROVE Sound'
  <2> DEFINE c == NextOf(F3Plan)
  <2>1. req.engine = "F3" /\ ~Finished(F3Plan) /\ Ask(c, F3Answers(c), F3BlockOf(c))
    BY <1>1 DEF F3Read, F3Modelled, F3Supported, Running
  <2>2. /\ c \in F3Names /\ ~Asked(c) /\ (c \in {"rpc", "block"} \/ Asked("block"))
        /\ c = "market" => req.market
        /\ c \in NativeNames => c \in {"n.rpc", "n.block"} \/ NativeCaptured
    BY <2>1, F3NextCall
  <2> HIDE DEF c
  <2>3. CASE c \in NativeNames
    <3>1. F3Answers(c) = NativeAnswers(c) /\ F3BlockOf(c) = NativeReadAt(c)
      BY <2>3 DEF F3Answers, F3BlockOf, NativeNames
    <3> QED  BY <2>1, <2>2, <2>3, <3>1, NativeFits, AskKeeps
  <2>4. CASE c \notin NativeNames
    <3>1. c \in {"rpc", "block", "collateral", "debt", "market"}
      BY <2>2, <2>4 DEF F3Names
    <3>2. Fits(c, F3Answers(c), F3BlockOf(c))
      BY <2>1, <2>2, <3>1, BlockReached
      DEF Fits, F3BlockOf, F3Answers, PinnedCalls, NativePinned, AdapterCalls, CollateralAnswers
    <3> QED  BY <2>1, <2>2, <3>2, AskKeeps
  <2> QED  BY <2>3, <2>4
<1>2. ASSUME F3Attempt PROVE Sound'
  BY <1>2, NativeSound DEF F3Attempt, F3Supported, Running
<1>3. ASSUME F3Unsupported \/ F3Authoritative \/ F3Reject \/ F3Value PROVE Sound'
  BY <1>3, ConcludeSound DEF F3Unsupported, F3Authoritative, F3Reject, F3Value, Conclude
<1> QED  BY <1>1, <1>2, <1>3 DEF F3Next

\* No step of F4 loses what is known.
LEMMA F4Sound == Sound /\ F4Next => Sound'
<1> SUFFICES ASSUME Sound, F4Next PROVE Sound'
  OBVIOUS
<1>1. ASSUME F4Pools PROVE Sound'
  BY <1>1, OffChainSound DEF F4Pools, Running
<1>2. ASSUME F4Native PROVE Sound'
  BY <1>2, NativeSound DEF F4Native, Running
<1>3. ASSUME F4Reject \/ F4Value PROVE Sound'
  BY <1>3, ConcludeSound DEF F4Reject, F4Value, Conclude
<1> QED  BY <1>1, <1>2, <1>3 DEF F4Next

\* No step of F5 loses what is known.
LEMMA F5Sound == Sound /\ F5Next => Sound'
<1> SUFFICES ASSUME Sound, F5Next PROVE Sound'
  OBVIOUS
<1>1. ASSUME F5Prices PROVE Sound'
  BY <1>1, OffChainSound DEF F5Prices, Running
<1>2. ASSUME F5Native PROVE Sound'
  BY <1>2, NativeSound DEF F5Native, Running
<1>3. ASSUME F5Reject \/ F5Value PROVE Sound'
  BY <1>3, ConcludeSound DEF F5Reject, F5Value, Conclude
<1> QED  BY <1>1, <1>2, <1>3 DEF F5Next

\* The calls of B1.
B1Names == {"rpc", "block", "tx", "receipt", "abi", "simulate", "dryrun", "gas", "trace", "diff"}

\* The plan of B1.
LEMMA B1Calls ==
  /\ B1Plan \in Seq(B1Names)
  /\ ~Finished(B1Plan) => Captures(B1Plan)
  /\ ~Fails(InPlan(B1Start)) => InPlan(B1Start) \subseteq InPlan(B1Plan)
<1> DEFINE S == B1Names
           receipt == IF Said("tx", {"mined", "pending"}) THEN <<"receipt">> ELSE <<>>
           abi == IF req.abi THEN <<"abi">> ELSE <<>>
           simulate == IF req.tenderly THEN <<"simulate">> ELSE <<>>
           trace == IF req.trace THEN <<"trace">> ELSE <<>>
           diff == IF req.diff THEN <<"diff">> ELSE <<>>
           dry == IF req.tenderly /\ (B1Simulated \/ ~Asked("simulate")) THEN <<>> ELSE B1DryRun
           rest == ((B1Lookup \o abi) \o simulate) \o dry
<1>1. /\ {"rpc", "block", "tx", "receipt", "abi"} \subseteq S
      /\ {"simulate", "dryrun", "gas", "trace", "diff"} \subseteq S /\ <<>> \in Seq(S)
  BY ShortPlans DEF B1Names
<1> HIDE DEF S
<1>2. B1Start \in Seq(S) /\ Captures(B1Start)
  BY <1>1, ShortPlans DEF B1Start, Captures
<1>3. receipt \in Seq(S) /\ abi \in Seq(S) /\ simulate \in Seq(S) /\ trace \in Seq(S)
      /\ diff \in Seq(S) /\ <<"tx">> \in Seq(S) /\ <<"dryrun", "gas">> \in Seq(S)
  BY <1>1, ShortPlans
<1>4. B1Lookup = IF ~req.hash THEN <<>> ELSE <<"tx">> \o receipt
  BY DEF B1Lookup
<1>5. B1DryRun = <<"dryrun", "gas">> \o trace \o diff
  BY DEF B1DryRun
<1> HIDE DEF receipt, abi, simulate, trace, diff
<1>6. B1Lookup \in Seq(S) /\ dry \in Seq(S)
  BY <1>1, <1>3, <1>4, <1>5
<1> HIDE DEF dry
<1>7. rest \in Seq(S)
  BY <1>3, <1>6
<1>8. B1Plan = IF Fails(InPlan(B1Start)) THEN <<>>
               ELSE B1Start \o B1Lookup \o abi \o simulate \o dry
  BY DEF B1Plan, abi, simulate, dry
<1>9. CASE Fails(InPlan(B1Start))
  BY <1>1, <1>8, <1>9 DEF Finished, Unasked, S
<1>10. CASE ~Fails(InPlan(B1Start))
  <2>1. /\ B1Start \o B1Lookup \in Seq(S) /\ Captures(B1Start \o B1Lookup)
        /\ InPlan(B1Start) \subseteq InPlan(B1Start \o B1Lookup)
    BY <1>2, <1>6, JoinedPlan
  <2>2. /\ B1Start \o B1Lookup \o abi \in Seq(S) /\ Captures(B1Start \o B1Lookup \o abi)
        /\ InPlan(B1Start \o B1Lookup) \subseteq InPlan(B1Start \o B1Lookup \o abi)
    BY <1>3, <2>1, JoinedPlan
  <2>3. /\ B1Start \o B1Lookup \o abi \o simulate \in Seq(S)
        /\ Captures(B1Start \o B1Lookup \o abi \o simulate)
        /\ InPlan(B1Start \o B1Lookup \o abi) \subseteq InPlan(B1Start \o B1Lookup \o abi \o simulate)
    BY <1>3, <2>2, JoinedPlan
  <2>4. /\ B1Start \o B1Lookup \o abi \o simulate \o dry \in Seq(S)
        /\ Captures(B1Start \o B1Lookup \o abi \o simulate \o dry)
        /\ InPlan(B1Start \o B1Lookup \o abi \o simulate)
             \subseteq InPlan(B1Start \o B1Lookup \o abi \o simulate \o dry)
    BY <1>6, <2>3, JoinedPlan
  <2> QED  BY <1>8, <1>10, <2>1, <2>2, <2>3, <2>4 DEF S
<1> QED  BY <1>9, <1>10

\* No step of B1 loses what is known.
LEMMA B1Sound == Sound /\ B1Next => Sound'
<1> SUFFICES ASSUME Sound, B1Next PROVE Sound'
  OBVIOUS
<1>1. ASSUME B1Read PROVE Sound'
  <2> DEFINE c == NextOf(B1Plan)
  <2>1. req.engine = "B1" /\ ~Finished(B1Plan) /\ Ask(c, B1Answers(c), B1BlockOf(c))
    BY <1>1 DEF B1Read, B1Run, Running
  <2>2. /\ c \in B1Names /\ ~Asked(c) /\ (c \in {"rpc", "block"} \/ Asked("block"))
        /\ c = "rpc" \/ Asked("rpc")
    BY <2>1, B1Calls, NextCall
  <2> HIDE DEF c
  <2>3. B1BlockOf(c) \in Reached /\ (c = "block" => B1BlockOf(c) = head)
    BY <2>2, BlockReached DEF B1BlockOf, B1Before, B1Tagged, B1Captured, B1Names
  <2>4. Fits(c, B1Answers(c), B1BlockOf(c))
    BY <2>1, <2>2, <2>3, BlockReached
    DEF Fits, B1Names, PinnedCalls, NativePinned, AdapterCalls
  <2> QED  BY <2>1, <2>2, <2>4, AskKeeps
<1>2. ASSUME B1Reject \/ B1Tenderly \/ B1Dry PROVE Sound'
  BY <1>2, ConcludeSound DEF B1Reject, B1Tenderly, B1Dry, Conclude
<1> QED  BY <1>1, <1>2 DEF B1Next

\* The calls of B2.
B2Names == {"rpc", "block", "tx", "code", "source", "scan"}

\* The plan of B2.
LEMMA B2Calls ==
  /\ B2Plan \in Seq(B2Names)
  /\ ~Finished(B2Plan) => Captures(B2Plan)
  /\ ~B2Down => InPlan(B2State) \subseteq InPlan(B2Plan)
<1> DEFINE S == B2Names
           start == <<"rpc", "block">>
           tx == IF req.hash THEN <<"tx">> ELSE <<>>
           source == IF B2Code /\ req.explorer THEN <<"source">> ELSE <<>>
           scan == IF Asked("code") /\ req.blockaid THEN <<"scan">> ELSE <<>>
           rest == IF Finished(B2State) /\ ~B2Nothing THEN (<<"code">> \o source) \o scan ELSE <<>>
<1>1. {"rpc", "block", "tx", "code", "source", "scan"} \subseteq S /\ <<>> \in Seq(S)
  BY ShortPlans DEF B2Names
<1> HIDE DEF S
<1>2. start \in Seq(S) /\ Captures(start) /\ tx \in Seq(S)
  BY <1>1, ShortPlans DEF Captures
<1>3. source \in Seq(S) /\ scan \in Seq(S) /\ <<"code">> \in Seq(S)
  BY <1>1, ShortPlans
<1>4. B2State = start \o tx
  BY DEF B2State
<1>5. B2Plan = IF B2Down THEN <<>> ELSE B2State \o rest
  BY DEF B2Plan
<1> HIDE DEF start, tx, source, scan
<1>6. rest \in Seq(S)
  BY <1>1, <1>3
<1> HIDE DEF rest
<1>7. B2State \in Seq(S) /\ Captures(B2State)
  BY <1>2, <1>4, JoinedPlan
<1>8. /\ B2State \o rest \in Seq(S) /\ Captures(B2State \o rest)
      /\ InPlan(B2State) \subseteq InPlan(B2State \o rest)
  BY <1>6, <1>7, JoinedPlan
<1>9. CASE B2Down
  BY <1>1, <1>5, <1>9 DEF Finished, Unasked, S
<1>10. CASE ~B2Down
  BY <1>5, <1>8, <1>10 DEF S
<1> QED  BY <1>9, <1>10

\* No step of B2 loses what is known.
LEMMA B2Sound == Sound /\ B2Next => Sound'
<1> SUFFICES ASSUME Sound, B2Next PROVE Sound'
  OBVIOUS
<1>1. ASSUME B2Read PROVE Sound'
  <2> DEFINE c == NextOf(B2Plan)
  <2>1. req.engine = "B2" /\ ~Finished(B2Plan) /\ Ask(c, B2Answers(c), B2BlockOf(c))
    BY <1>1 DEF B2Read, B2Run, Running
  <2>2. c \in B2Names /\ ~Asked(c) /\ (c \in {"rpc", "block"} \/ Asked("block"))
    BY <2>1, B2Calls, NextCall
  <2> HIDE DEF c
  <2>3. Fits(c, B2Answers(c), B2BlockOf(c))
    BY <2>1, <2>2, BlockReached
    DEF Fits, B2BlockOf, B2Names, PinnedCalls, NativePinned, AdapterCalls
  <2> QED  BY <2>1, <2>2, <2>3, AskKeeps
<1>2. ASSUME B2Reject \/ B2Value PROVE Sound'
  BY <1>2, ConcludeSound DEF B2Reject, B2Value, Conclude
<1> QED  BY <1>1, <1>2 DEF B2Next

\* The calls of B3.
B3Names == {"rpc", "block", "balance", "code", "supply", "feed", "scan"}

\* The plan of B3, over any set of names that holds them.
LEMMA B3Calls ==
  ASSUME NEW S, {"rpc", "block", "balance", "code", "supply", "scan"} \subseteq S,
         req.feed => "feed" \in S
  PROVE  /\ B3Plan \in Seq(S)
         /\ ~Finished(B3Plan) => Captures(B3Plan)
         /\ ~B3Down => InPlan(B3State) \subseteq InPlan(B3Plan)
<1> DEFINE supply == IF req.token THEN <<"supply">> ELSE <<>>
           feed == IF req.feed THEN <<"feed">> ELSE <<>>
           scan == IF req.blockaid THEN <<"scan">> ELSE <<>>
<1>1. supply \in Seq(S) /\ feed \in Seq(S) /\ scan \in Seq(S) /\ <<>> \in Seq(S)
  BY ShortPlans
<1>2. B3State \in Seq(S) /\ Captures(B3State)
  BY ShortPlans DEF B3State, Captures
<1>3. B3Plan = IF B3Down THEN <<>> ELSE ((B3State \o supply) \o feed) \o scan
  BY DEF B3Plan
<1> HIDE DEF supply, feed, scan
<1>4. /\ B3State \o supply \in Seq(S) /\ Captures(B3State \o supply)
      /\ InPlan(B3State) \subseteq InPlan(B3State \o supply)
  BY <1>1, <1>2, JoinedPlan
<1>5. /\ B3State \o supply \o feed \in Seq(S) /\ Captures(B3State \o supply \o feed)
      /\ InPlan(B3State \o supply) \subseteq InPlan(B3State \o supply \o feed)
  BY <1>1, <1>4, JoinedPlan
<1>6. /\ B3State \o supply \o feed \o scan \in Seq(S)
      /\ Captures(B3State \o supply \o feed \o scan)
      /\ InPlan(B3State \o supply \o feed) \subseteq InPlan(B3State \o supply \o feed \o scan)
  BY <1>1, <1>5, JoinedPlan
<1>7. CASE B3Down
  BY <1>1, <1>3, <1>7 DEF Finished, Unasked
<1>8. CASE ~B3Down
  BY <1>3, <1>4, <1>5, <1>6, <1>8
<1> QED  BY <1>7, <1>8

\* No step of B3 loses what is known.
LEMMA B3Sound == Sound /\ B3Next => Sound'
<1> SUFFICES ASSUME Sound, B3Next PROVE Sound'
  OBVIOUS
<1>1. ASSUME B3Read PROVE Sound'
  <2> DEFINE c == NextOf(B3Plan)
             S == B3Names
             T == B3Names \ {"feed"}
  <2>1. req.engine = "B3" /\ ~Finished(B3Plan) /\ Ask(c, B3Answers(c), B3BlockOf(c))
    BY <1>1 DEF B3Read, B3Run, Running
  <2>2. /\ {"rpc", "block", "balance", "code", "supply", "scan"} \subseteq S /\ "feed" \in S
        /\ {"rpc", "block", "balance", "code", "supply", "scan"} \subseteq T /\ "feed" \notin T
    BY DEF B3Names
  <2>3. c \in B3Names /\ ~Asked(c) /\ (c \in {"rpc", "block"} \/ Asked("block"))
    <3> HIDE DEF S, T, c
    <3>1. B3Plan \in Seq(S) /\ Captures(B3Plan)
      BY <2>1, <2>2, B3Calls
    <3>2. c \in S /\ ~Asked(c) /\ (c \in {"rpc", "block"} \/ Asked("block"))
      BY <2>1, <3>1, NextCall DEF c
    <3> QED  BY <3>2 DEF S
  <2>4. c = "feed" => req.feed
    <3> HIDE DEF S, T, c
    <3>1. ~req.feed => B3Plan \in Seq(T)
      BY <2>2, B3Calls
    <3> QED  BY <2>1, <2>2, <3>1, NextCall DEF c
  <2> HIDE DEF c
  <2>5. Fits(c, B3Answers(c), B3BlockOf(c))
    BY <2>1, <2>3, <2>4, BlockReached
    DEF Fits, B3BlockOf, B3Answers, B3Names, PinnedCalls, NativePinned, AdapterCalls, FeedAnswers
  <2> QED  BY <2>1, <2>3, <2>5, AskKeeps
<1>2. ASSUME B3Reject \/ B3Value PROVE Sound'
  BY <1>2, ConcludeSound DEF B3Reject, B3Value, Conclude
<1> QED  BY <1>1, <1>2 DEF B3Next

\* The calls of B4.
B4Names == {"rpc", "block", "balance", "normal", "tokens", "nansen", "arkham"}

\* The plan of B4.
LEMMA B4Calls ==
  /\ B4Plan \in Seq(B4Names)
  /\ ~Finished(B4Plan) => Captures(B4Plan)
  /\ ~B4Down => InPlan(B4State) \subseteq InPlan(B4Plan)
<1> DEFINE S == B4Names
           tokens == IF Said("normal", {"error"}) THEN <<>> ELSE <<"tokens">>
           history == IF ~req.indexed THEN <<>> ELSE <<"normal">> \o tokens
           nansen == IF req.nansen THEN <<"nansen">> ELSE <<>>
           arkham == IF req.arkham THEN <<"arkham">> ELSE <<>>
<1>1. {"rpc", "block", "balance", "normal", "tokens", "nansen", "arkham"} \subseteq S /\ <<>> \in Seq(S)
  BY ShortPlans DEF B4Names
<1> HIDE DEF S
<1>2. tokens \in Seq(S) /\ nansen \in Seq(S) /\ arkham \in Seq(S) /\ <<"normal">> \in Seq(S)
  BY <1>1, ShortPlans
<1>3. history \in Seq(S)
  <2> HIDE DEF tokens
  <2> QED  BY <1>1, <1>2
<1>4. B4State \in Seq(S) /\ Captures(B4State)
  BY <1>1, ShortPlans DEF B4State, Captures
<1>5. B4Plan = IF B4Down THEN <<>> ELSE ((B4State \o history) \o nansen) \o arkham
  BY DEF B4Plan
<1> HIDE DEF history, nansen, arkham
<1>6. /\ B4State \o history \in Seq(S) /\ Captures(B4State \o history)
      /\ InPlan(B4State) \subseteq InPlan(B4State \o history)
  BY <1>3, <1>4, JoinedPlan
<1>7. /\ B4State \o history \o nansen \in Seq(S) /\ Captures(B4State \o history \o nansen)
      /\ InPlan(B4State \o history) \subseteq InPlan(B4State \o history \o nansen)
  BY <1>2, <1>6, JoinedPlan
<1>8. /\ B4State \o history \o nansen \o arkham \in Seq(S)
      /\ Captures(B4State \o history \o nansen \o arkham)
      /\ InPlan(B4State \o history \o nansen) \subseteq InPlan(B4State \o history \o nansen \o arkham)
  BY <1>2, <1>7, JoinedPlan
<1>9. CASE B4Down
  BY <1>1, <1>5, <1>9 DEF Finished, Unasked, S
<1>10. CASE ~B4Down
  BY <1>5, <1>6, <1>7, <1>8, <1>10 DEF S
<1> QED  BY <1>9, <1>10

\* No step of B4 loses what is known.
LEMMA B4Sound == Sound /\ B4Next => Sound'
<1> SUFFICES ASSUME Sound, B4Next PROVE Sound'
  OBVIOUS
<1>1. ASSUME B4Read PROVE Sound'
  <2> DEFINE c == NextOf(B4Plan)
  <2>1. req.engine = "B4" /\ ~Finished(B4Plan) /\ Ask(c, B4Answers(c), B4BlockOf(c))
    BY <1>1 DEF B4Read, B4Run, Running
  <2>2. c \in B4Names /\ ~Asked(c) /\ (c \in {"rpc", "block"} \/ Asked("block"))
    BY <2>1, B4Calls, NextCall
  <2> HIDE DEF c
  <2>3. Fits(c, B4Answers(c), B4BlockOf(c))
    BY <2>1, <2>2, BlockReached
    DEF Fits, B4BlockOf, B4Names, PinnedCalls, NativePinned, AdapterCalls
  <2> QED  BY <2>1, <2>2, <2>3, AskKeeps
<1>2. ASSUME B4Reject \/ B4Value PROVE Sound'
  BY <1>2, ConcludeSound DEF B4Reject, B4Value, Conclude
<1> QED  BY <1>1, <1>2 DEF B4Next

\* No step of B5 loses what is known.
LEMMA B5Sound == Sound /\ B5Next => Sound'
<1> SUFFICES ASSUME Sound, B5Next PROVE Sound'
  OBVIOUS
<1>1. ASSUME B5Quote PROVE Sound'
  BY <1>1, OffChainSound DEF B5Quote, Running
<1>2. ASSUME B5Reject \/ B5Value PROVE Sound'
  BY <1>2, ConcludeSound DEF B5Reject, B5Value, Conclude
<1> QED  BY <1>1, <1>2 DEF B5Next

\* What is known of the calls holds in every run.
THEOREM CallsAreSound == Spec => []Sound
<1>1. Init => Sound
  BY MaxHeadAssumption
  DEF Init, Sound, CallsReached, BlockNew, BlockFirst, CallsPinned, AnswersKnown, Asked, Past
<1>2. Sound /\ [Next]_vars => Sound'
  <2> SUFFICES ASSUME Sound, [Next]_vars PROVE Sound'
    OBVIOUS
  <2>1. CASE UNCHANGED vars
    BY <2>1, ConcludeSound DEF vars
  <2>2. CASE Advance
    BY <2>2, AdvanceSound
  <2>3. CASE Dispatch
    BY <2>3, F1Sound, F2Sound, F3Sound, F4Sound, F5Sound, B1Sound, B2Sound, B3Sound, B4Sound,
       B5Sound DEF Dispatch
  <2> QED  BY <2>1, <2>2, <2>3 DEF Next
<1> QED  BY <1>1, <1>2, PTL DEF Spec

-----------------------------------------------------------------------------
(* What a conclusion owes the caller *)

\* What the properties of Engines ask of a result, as they ask it of the record
\* an engine concludes with.
Fields ==
  {"status", "risk", "dataConf", "engConf", "blockers", "conflicts", "consensus", "fresh",
   "block", "evidence"}
PinnedIn(r) ==
  req.engine # "B1" /\ (UsesAdapter => req.native.at = "past") =>
    \A e \in r.evidence : e.from = "rpc" /\ e.block # Nowhere => e.read = e.block
AgedIn(r) ==
  /\ req.engine \notin {"F3", "B1"} => \A e \in r.evidence : Rank[e.fresh] <= Rank[r.fresh]
  /\ req.engine \in {"F1", "F2", "F4", "F5", "B3"} /\ (\E e \in r.evidence : e.fresh \in Old)
       => r.status = "STALE_DATA"
SaidIn(r) ==
  Contradicted =>
    /\ r.status = "CONFLICTING_DATA" \/ (r.status = "PARTIAL" /\ r.conflicts > 0)
    /\ req.engine # "F4" => r.conflicts > 0
    /\ req.engine \in {"B5", "F4"} => r.risk = 0
EarnedIn(r) ==
  req.engine \in {"F4", "F5"} /\ (IF req.engine = "F4" THEN r.engConf > 62 ELSE r.dataConf > 72)
    => \E e \in r.evidence : e.from \notin {"defillama", "coingecko"}
Owed(r) ==
  /\ Promised \subseteq Heard(DOMAIN got)
  /\ PinnedIn(r) /\ AgedIn(r) /\ SaidIn(r) /\ EarnedIn(r)

\* The properties of Engines that are about one result.
Paid ==
  NothingPartial /\ SnapshotIsPinned /\ AgeIsHonest /\ ConflictIsSaid /\ ConfidenceIsEarned

\* What the dispatch leaves of a record.
LEMMA NormalizedFields ==
  ASSUME NEW r, DOMAIN r = Fields
  PROVE  LET n == Normalized(r) IN
         /\ n.risk = r.risk /\ n.dataConf = r.dataConf /\ n.engConf = r.engConf
         /\ n.blockers = r.blockers /\ n.fresh = r.fresh /\ n.evidence = r.evidence
         /\ r.conflicts > 0 => n.consensus = "CONFLICTING"
         /\ n.status = IF r.conflicts > 0 /\ r.status \in {"COMPLETED", "PARTIAL"}
                         THEN "CONFLICTING_DATA" ELSE r.status
BY DEF Normalized, Fields

\* What was promised and what was contradicted depends on the request and the calls.
LEMMA SameCalls ==
  ASSUME UNCHANGED <<req, got>>
  PROVE  /\ Promised' = Promised /\ Contradicted' = Contradicted /\ UsesAdapter' = UsesAdapter
         /\ Heard(DOMAIN got)' = Heard(DOMAIN got)
<1>1. F1Promised' = F1Promised
  BY DEF F1Promised, InPlan, F1Plan, F1Natives, F1Balances
<1>2. F3Promised' = F3Promised
  BY DEF F3Promised, InPlan, F3Explicit, F3Feeds, AdapterRequested
<1>3. B1Promised' = B1Promised /\ B2Promised' = B2Promised /\ B3Promised' = B3Promised
      /\ B4Promised' = B4Promised
  BY DEF B1Promised, B2Promised, B3Promised, B4Promised, InPlan, B1Start, B2State, B3State, B4State
<1>4. Promised' = Promised
  BY <1>1, <1>2, <1>3 DEF Promised, F2Promised, F4Promised, F5Promised, B5Promised
<1>5. Contradicted' = Contradicted
  BY DEF Contradicted, Said, Asked, Answer
<1>6. UsesAdapter' = UsesAdapter /\ Heard(DOMAIN got)' = Heard(DOMAIN got)
  BY DEF UsesAdapter, AdapterRequested, Heard, Asked, Answer
<1> QED  BY <1>4, <1>5, <1>6

\* A conclusion that pays what is owed.
LEMMA OwedIsPaid ==
  ASSUME NEW r, DOMAIN r = Fields, Conclude(r), Owed(r)
  PROVE  Paid'
<1> DEFINE n == Normalized(r)
<1>1. result' = n /\ UNCHANGED <<req, got>>
  BY DEF Conclude
<1>2. /\ n.risk = r.risk /\ n.dataConf = r.dataConf /\ n.engConf = r.engConf
      /\ n.fresh = r.fresh /\ n.evidence = r.evidence
      /\ r.conflicts > 0 => n.consensus = "CONFLICTING"
      /\ n.status = IF r.conflicts > 0 /\ r.status \in {"COMPLETED", "PARTIAL"}
                      THEN "CONFLICTING_DATA" ELSE r.status
  BY NormalizedFields
<1> HIDE DEF n
<1>3. NothingPartial'
  BY <1>1, SameCalls DEF Owed, NothingPartial
<1>4. SnapshotIsPinned'
  BY <1>1, <1>2, SameCalls DEF Owed, PinnedIn, SnapshotIsPinned
<1>5. AgeIsHonest'
  BY <1>1, <1>2 DEF Owed, AgedIn, AgeIsHonest, FreshnessIsHonest, OldEvidenceGates
<1>6. ConflictIsSaid'
  BY <1>1, <1>2, SameCalls DEF Owed, SaidIn, ConflictIsSaid
<1>7. ConfidenceIsEarned'
  BY <1>1, <1>2 DEF Owed, EarnedIn, ConfidenceIsEarned
<1> QED  BY <1>3, <1>4, <1>5, <1>6, <1>7 DEF Paid

\* A result without a score owes nothing.
LEMMA NothingIsOwed ==
  ASSUME ~Usable'
  PROVE  Paid'
BY DEF Paid, NothingPartial, SnapshotIsPinned, AgeIsHonest, FreshnessIsHonest, OldEvidenceGates,
       ConflictIsSaid, ConfidenceIsEarned

\* A failure owes nothing, whatever is changed of its record.
LEMMA FailureOwesNothing ==
  ASSUME NEW r, "status" \in DOMAIN r, r.status \notin USABLE, Conclude(r)
  PROVE  Paid'
<1>1. result'.status \notin USABLE
  BY DEF Conclude, Normalized, USABLE
<1> QED  BY <1>1, NothingIsOwed DEF Usable

\* A call leaves no result.
LEMMA CallOwesNothing ==
  ASSUME NEW c, NEW answers, NEW at, result = None, Ask(c, answers, at)
  PROVE  Paid'
BY NothingIsOwed DEF Ask, Usable, Done

\* The failure record.
LEMMA FailureFields ==
  ASSUME NEW s, NEW d, NEW e
  PROVE  /\ Failure(s, d, e).status = s /\ DOMAIN Failure(s, d, e) = Fields
         /\ "status" \in DOMAIN Failure(s, d, e)
BY DEF Failure, Fields

-----------------------------------------------------------------------------
(* Evidence *)

\* The worst of some freshnesses is one of them, and no other is worse.
LEMMA WorstOf ==
  ASSUME NEW S \in SUBSET Freshness, S # {}
  PROVE  Worst(S) \in S /\ \A f \in S : Rank[f] <= Rank[Worst(S)]
<1>1. \E f \in S : \A g \in S : Rank[g] <= Rank[f]
  <2>1. \A f \in S : f \in {"LIVE", "CURRENT", "RECENT", "UNKNOWN", "STALE", "EXPIRED"}
    BY DEF Freshness
  <2>2. /\ Rank["LIVE"] = 1 /\ Rank["CURRENT"] = 2 /\ Rank["RECENT"] = 3
        /\ Rank["UNKNOWN"] = 4 /\ Rank["STALE"] = 5 /\ Rank["EXPIRED"] = 6
    BY DEF Rank
  <2> HIDE DEF Rank
  <2>3. CASE "EXPIRED" \in S
    BY <2>1, <2>2, <2>3
  <2>4. CASE "EXPIRED" \notin S /\ "STALE" \in S
    BY <2>1, <2>2, <2>4
  <2>5. CASE S \cap {"STALE", "EXPIRED"} = {} /\ "UNKNOWN" \in S
    BY <2>1, <2>2, <2>5
  <2>6. CASE S \cap {"UNKNOWN", "STALE", "EXPIRED"} = {} /\ "RECENT" \in S
    BY <2>1, <2>2, <2>6
  <2>7. CASE S \subseteq {"LIVE", "CURRENT"}
    <3>1. CASE "CURRENT" \in S
      BY <2>2, <2>7, <3>1
    <3>2. CASE "CURRENT" \notin S
      <4>1. S = {"LIVE"}
        BY <2>7, <3>2
      <4> QED  BY <2>2, <4>1
    <3> QED  BY <3>1, <3>2
  <2> QED  BY <2>1, <2>3, <2>4, <2>5, <2>6, <2>7
<1> QED  BY <1>1 DEF Worst

\* The age of evidence shows in its worst freshness.
LEMMA WorstShows ==
  ASSUME NEW E, E # {}, \A e \in E : e.fresh \in Freshness
  PROVE  LET w == Worst({e.fresh : e \in E}) IN
         /\ w \in Freshness /\ \A e \in E : Rank[e.fresh] <= Rank[w]
         /\ (\E e \in E : e.fresh \in Old) => w \in Old
<1> DEFINE S == {e.fresh : e \in E}
<1>1. S \in SUBSET Freshness /\ S # {}
  OBVIOUS
<1>2. Worst(S) \in S /\ \A f \in S : Rank[f] <= Rank[Worst(S)]
  <2> HIDE DEF S
  <2> QED  BY <1>1, WorstOf
<1>3. \A e \in E : Rank[e.fresh] <= Rank[Worst(S)]
  BY <1>2
<1>4. Worst(S) \in Freshness
  BY <1>1, <1>2
<1>5. \A f, g \in Freshness : f \in Old /\ Rank[f] <= Rank[g] => g \in Old
  BY DEF Freshness, Rank, Old
<1> HIDE DEF S
<1> QED  BY <1>3, <1>4, <1>5 DEF S

\* Reads that were pinned to a block are of that block.
LEMMA PinnedReads ==
  ASSUME NEW calls, NEW block, \A c \in calls : Asked(c) => ReadAt(c) = block
  PROVE  \A e \in AtBlock(calls, block) : e.read = e.block /\ e.fresh = "LIVE"
BY DEF AtBlock, Heard, Evidence

\* What an outside source says is of no block.
LEMMA ExternalEvidence ==
  ASSUME NEW from, NEW fresh
  PROVE  \A e \in External(from, fresh) :
           e.read = e.block /\ e.from = from /\ e.fresh = fresh
BY DEF External, Evidence

\* Protocol-native evidence: where it comes from, of which block it is, and how old
\* it may be.
LEMMA NativeEvidenceIs ==
  ASSUME Sound, NEW e \in NativeEvidence
  PROVE  /\ e.from \in {"rpc", "rivexis_registry", "etherscan", "user_input"}
         /\ e.fresh \in Freshness
         /\ (AdapterRequested => req.native.at = "past") => e.read = e.block
<1> USE DEF Evidence
<1>1. CASE e = Evidence("rpc", NativeHead, NativeHead, "LIVE")
  BY <1>1 DEF Freshness
<1>2. CASE e \in AdapterEvidence(NativeBlock)
  <2>1. AdapterRequested
    BY <1>2 DEF AdapterEvidence
  <2>2. CASE e = Evidence("rivexis_registry", NativeBlock, NativeBlock, "CURRENT")
    BY <2>2 DEF Freshness
  <2>3. CASE e # Evidence("rivexis_registry", NativeBlock, NativeBlock, "CURRENT")
    <3>1. PICK c \in Heard(AdapterCalls) : e = Evidence("rpc", NativeBlock, ReadAt(c), "LIVE")
      BY <1>2, <2>3 DEF AdapterEvidence
    <3>2. req.native.at = "past" => ReadAt(c) = Past /\ NativeBlock = Past
      BY DEF Sound, CallsPinned, Heard, NativeBlock
    <3> QED  BY <2>1, <3>1, <3>2 DEF Freshness
  <2> QED  BY <2>2, <2>3
<1>3. CASE e \in AtBlock({"n.code", "n.slots"}, NativeBlock)
  <2>1. e.from = "rpc" /\ e.fresh = "LIVE" /\ e.read = e.block
    BY <1>3 DEF AtBlock, Heard, Sound, CallsPinned, NativePinned
  <2> QED  BY <2>1 DEF Freshness
<1>4. CASE e \in {Evidence("rpc", NativeBlock, ReadAt(c), OracleFresh(Answer(c))) : c \in Heard({"n.oracle"})}
  <2>1. e.from = "rpc" /\ e.fresh = OracleFresh(Answer("n.oracle")) /\ e.block = NativeBlock
        /\ e.read = ReadAt("n.oracle") /\ Asked("n.oracle") /\ Answer("n.oracle") \notin Broken
    BY <1>4 DEF Heard
  <2>2. ReadAt("n.oracle") = NativeBlock /\ Answer("n.oracle") \in OracleAnswers
    BY <2>1 DEF Sound, CallsPinned, NativePinned, AnswersKnown
  <2> QED  BY <2>1, <2>2 DEF OracleAnswers, OracleFresh, Broken, Freshness
<1>5. CASE e \in {Evidence("etherscan", Nowhere, Nowhere, "UNKNOWN") : c \in Heard({"n.source"})}
  BY <1>5 DEF Freshness
<1>6. CASE e \in External("user_input", "CURRENT")
  BY <1>6 DEF External, Freshness
<1> QED
  <2>1. \/ e = Evidence("rpc", NativeHead, NativeHead, "LIVE")
        \/ e \in AdapterEvidence(NativeBlock)
        \/ e \in AtBlock({"n.code", "n.slots"}, NativeBlock)
        \/ e \in {Evidence("rpc", NativeBlock, ReadAt(c), OracleFresh(Answer(c))) : c \in Heard({"n.oracle"})}
        \/ e \in {Evidence("etherscan", Nowhere, Nowhere, "UNKNOWN") : c \in Heard({"n.source"})}
        \/ e \in External("user_input", "CURRENT")
    <3> HIDE DEF Evidence
    <3> QED  BY DEF NativeEvidence
  <2> QED  BY <2>1, <1>1, <1>2, <1>3, <1>4, <1>5, <1>6

-----------------------------------------------------------------------------
(* The engines, one by one: what each conclusion rests on *)

\* F1 pays what it owes the caller.
LEMMA F1Pays == Sound /\ F1Next => Paid'
<1> SUFFICES ASSUME Sound, F1Next PROVE Paid'
  OBVIOUS
<1>1. ASSUME F1Read \/ F1Price PROVE Paid'
  BY <1>1, CallOwesNothing DEF F1Read, F1Price, F1ReadAll, Running
<1>2. ASSUME F1Reject \/ F1Unreadable \/ F1Empty PROVE Paid'
  BY <1>2, FailureFields, FailureOwesNothing DEF F1Reject, F1Unreadable, F1Empty, USABLE
<1>3. ASSUME F1Unvalued PROVE Paid'
  <2> DEFINE missing == [Failure("INSUFFICIENT_DATA", 30, F1Direct \cup F1Market)
                           EXCEPT !.fresh = F1Fresh]
  <2>1. "status" \in DOMAIN missing /\ missing.status = "INSUFFICIENT_DATA"
    BY FailureFields DEF Fields
  <2>2. PICK r : Conclude(r) /\ "status" \in DOMAIN r
                   /\ r.status \in {"PROVIDER_UNAVAILABLE", "INSUFFICIENT_DATA"}
    <3> HIDE DEF missing
    <3> QED  BY <1>3, <2>1, FailureFields DEF F1Unvalued, missing
  <2> QED  BY <2>2, FailureOwesNothing DEF USABLE
<1>4. ASSUME F1Value PROVE Paid'
  <2> DEFINE fresh == Answer("prices")
             r == [status |-> IF fresh \in Old THEN "STALE_DATA" ELSE "PARTIAL",
                   risk |-> F1Score,
                   dataConf |-> CASE fresh \in {"LIVE", "CURRENT"} -> 82
                                  [] fresh = "RECENT" -> 72
                                  [] OTHER -> 60,
                   engConf |-> IF req.tokens > 0 THEN 78 ELSE 76,
                   blockers |-> FALSE, conflicts |-> 0, consensus |-> "MULTI_SOURCE",
                   fresh |-> fresh,
                   block |-> IF req.wallets > 0 THEN ReadAt("block") ELSE Nowhere,
                   evidence |-> F1Direct \cup F1Market]
  <2>1. Conclude(r) /\ DOMAIN r = Fields
    BY <1>4 DEF F1Value, Fields
  <2>2. /\ r.status = IF fresh \in Old THEN "STALE_DATA" ELSE "PARTIAL"
        /\ r.fresh = fresh /\ r.evidence = F1Direct \cup F1Market
    OBVIOUS
  <2> HIDE DEF r
  <2>3. /\ req.engine = "F1" /\ req \in F1Requests /\ ~F1Lost /\ Finished(F1Plan)
        /\ Asked("prices") /\ fresh \in Freshness
    BY <1>4, RequestOf DEF F1Value, F1ReadAll, Running, Said, Sound
  <2>4. Promised \subseteq Heard(DOMAIN got)
    <3>1. \A c \in InPlan(F1Plan) : Asked(c) /\ Answer(c) \notin Broken
      BY <2>3, FinishedPlan DEF F1Lost, Fails, Said
    <3>2. fresh \notin Broken
      BY <2>3 DEF Freshness, Broken
    <3> QED  BY <2>3, <3>1, <3>2 DEF Promised, F1Promised, Heard, Asked
  <2>5. \A e \in F1Direct : e.read = e.block /\ e.fresh = "LIVE"
    <3> DEFINE calls == InPlan(F1Plan) \ {"rpc"}
    <3>1. calls \subseteq {"block", "decimals", "native1", "native2", "balance1", "balance2"}
      BY <2>3, F1Calls, PlanCalls DEF F1CallNames
    <3>2. \A c \in calls : Asked(c) => ReadAt(c) = ReadAt("block")
      <4> HIDE DEF calls
      <4> QED  BY <2>3, <3>1 DEF Sound, CallsPinned, PinnedCalls
    <3> HIDE DEF calls
    <3> QED  BY <3>2, PinnedReads DEF F1Direct, calls
  <2>6. F1Market = External("coingecko", fresh)
    BY <2>3 DEF F1Market, F1Fresh, Freshness
  <2>7. PinnedIn(r)
    BY <2>2, <2>5, <2>6, ExternalEvidence DEF PinnedIn
  <2>8. AgedIn(r)
    <3>1. \A e \in r.evidence : e.fresh \in {"LIVE", fresh}
      BY <2>2, <2>5, <2>6, ExternalEvidence
    <3>2. \A f \in {"LIVE", fresh} : Rank[f] <= Rank[fresh] /\ (f \in Old => fresh \in Old)
      BY <2>3 DEF Rank, Freshness, Old
    <3> QED  BY <2>2, <2>3, <3>1, <3>2 DEF AgedIn
  <2>9. SaidIn(r) /\ EarnedIn(r)
    BY <2>3 DEF SaidIn, EarnedIn, Contradicted
  <2> QED  BY <2>1, <2>4, <2>7, <2>8, <2>9, OwedIsPaid DEF Owed
<1> QED  BY <1>1, <1>2, <1>3, <1>4 DEF F1Next

\* F2 pays what it owes the caller.
LEMMA F2Pays == Sound /\ F2Next => Paid'
<1> SUFFICES ASSUME Sound, F2Next PROVE Paid'
  OBVIOUS
<1>1. ASSUME F2Protocol \/ F2Native PROVE Paid'
  BY <1>1, CallOwesNothing DEF F2Protocol, F2Native, Running
<1>2. ASSUME F2Reject PROVE Paid'
  BY <1>2, FailureFields, FailureOwesNothing DEF F2Reject, USABLE
<1>3. ASSUME F2Value PROVE Paid'
  <2> DEFINE r == [status |-> IF F2Fresh \in Old THEN "STALE_DATA" ELSE "PARTIAL",
                   risk |-> F2Score, dataConf |-> F2DataConfidence,
                   engConf |-> IF NativeRequested THEN 75 ELSE 65,
                   blockers |-> FALSE, conflicts |-> 0, consensus |-> "MULTI_SOURCE",
                   fresh |-> F2Fresh, block |-> Nowhere, evidence |-> F2Evidence]
  <2>1. Conclude(r) /\ DOMAIN r = Fields
    BY <1>3 DEF F2Value, Fields
  <2>2. /\ r.status = IF F2Fresh \in Old THEN "STALE_DATA" ELSE "PARTIAL"
        /\ r.fresh = F2Fresh /\ r.evidence = F2Evidence
    OBVIOUS
  <2> HIDE DEF r
  <2>3. req.engine = "F2" /\ Asked("protocol") /\ Answer("protocol") \in Freshness
    BY <1>3 DEF F2Value, Running, Said
  <2>4. Promised \subseteq Heard(DOMAIN got)
    BY <2>3 DEF Promised, F2Promised, Heard, Asked, Freshness, Broken
  <2>5. \A e \in F2Evidence : /\ e.fresh \in Freshness
                              /\ (AdapterRequested => req.native.at = "past") => e.read = e.block
    BY <2>3, ExternalEvidence, NativeEvidenceIs DEF F2Evidence
  <2>6. F2Evidence # {}
    BY DEF F2Evidence, External
  <2>7. PinnedIn(r)
    BY <2>2, <2>3, <2>5 DEF PinnedIn, UsesAdapter
  <2>8. AgedIn(r)
    <3> DEFINE worst == Worst({e.fresh : e \in F2Evidence})
    <3>1. /\ worst \in Freshness /\ \A e \in F2Evidence : Rank[e.fresh] <= Rank[worst]
          /\ (\E e \in F2Evidence : e.fresh \in Old) => worst \in Old
      BY <2>5, <2>6, WorstShows
    <3> HIDE DEF worst
    <3>2. F2Fresh = IF F2Unhealthy /\ worst # "EXPIRED" THEN "STALE" ELSE worst
      BY DEF F2Fresh, worst
    <3>3. (worst \in Old => F2Fresh \in Old) /\ Rank[worst] <= Rank[F2Fresh] /\ F2Fresh \in Freshness
      BY <3>1, <3>2 DEF Freshness, Old, Rank
    <3>4. \A e \in F2Evidence : Rank[e.fresh] <= Rank[F2Fresh]
      <4>1. \A f \in Freshness : Rank[f] \in Int
        BY DEF Freshness, Rank
      <4> HIDE DEF Rank
      <4> QED  BY <2>5, <3>1, <3>3, <4>1
    <3> QED  BY <2>2, <2>3, <3>1, <3>3, <3>4 DEF AgedIn
  <2>9. SaidIn(r) /\ EarnedIn(r)
    BY <2>3 DEF SaidIn, EarnedIn, Contradicted
  <2> QED  BY <2>1, <2>4, <2>7, <2>8, <2>9, OwedIsPaid DEF Owed
<1> QED  BY <1>1, <1>2, <1>3 DEF F2Next

\* The modelled path of F3 heard its feeds before it concludes.
LEMMA F3Heard ==
  ASSUME req.engine = "F3", ~F3Explicit, ~F3Down, Finished(F3Plan)
  PROVE  Promised \subseteq Heard(DOMAIN got)
  <1> DEFINE S == F3Names
  <1>1. NativePlan \in Seq(S) /\ {"rpc", "block", "collateral", "debt"} \subseteq S /\ "market" \in S
    <2>1. NativeNames \subseteq S /\ {"rpc", "block", "collateral", "debt"} \subseteq S /\ "market" \in S
      BY DEF F3Names
    <2> HIDE DEF S
    <2> QED  BY <2>1, NativeCalls
  <1> HIDE DEF S
  <1>2. InPlan(F3Feeds) \subseteq InPlan(F3Plan)
    BY <1>1, F3Calls
  <1>3. \A c \in InPlan(F3Feeds) : Asked(c) /\ Answer(c) \notin Broken
    BY <1>2, FinishedPlan DEF F3Down, Fails, Said
  <1> QED  BY <1>3 DEF Promised, F3Promised, Heard, Asked

\* F3 pays what it owes the caller.
LEMMA F3Pays == Sound /\ F3Next => Paid'
<1> SUFFICES ASSUME Sound, F3Next PROVE Paid'
  OBVIOUS
<1>1. ASSUME F3Attempt \/ F3Read PROVE Paid'
  BY <1>1, CallOwesNothing DEF F3Attempt, F3Read, F3Modelled, F3Supported, Running
<1>2. ASSUME F3Unsupported \/ F3Reject PROVE Paid'
  BY <1>2, FailureFields, FailureOwesNothing DEF F3Unsupported, F3Reject, USABLE
<1>3. ASSUME F3Authoritative PROVE Paid'
  <2> DEFINE r == [status |-> "PARTIAL",
                   risk |-> MinOf(100, F3Position + MinOf(20, NativeDelta)),
                   dataConf |-> MaxOf(88, NativeConfidence), engConf |-> 92,
                   blockers |-> F3Liquidatable, conflicts |-> 0, consensus |-> "MULTI_SOURCE",
                   fresh |-> "LIVE", block |-> NativeBlock, evidence |-> NativeEvidence]
  <2>1. Conclude(r) /\ DOMAIN r = Fields
    BY <1>3 DEF F3Authoritative, Fields
  <2>2. r.evidence = NativeEvidence
    OBVIOUS
  <2> HIDE DEF r
  <2>3. req.engine = "F3" /\ F3Explicit /\ Health # "unread"
    BY <1>3 DEF F3Authoritative, F3Supported, Running, F3Reported
  <2>4. Promised \subseteq Heard(DOMAIN got)
    <3>1. Asked("a.position") /\ Answer("a.position") \notin Broken
      <4>1. Asked("a.position") /\ ~HalfRead
        BY <2>3 DEF Health
      <4> QED  BY <4>1 DEF HalfRead, Fails, Said
    <3> QED  BY <2>3, <3>1 DEF Promised, F3Promised, Heard, Asked
  <2>5. PinnedIn(r) /\ AgedIn(r) /\ EarnedIn(r)
    BY <2>2, <2>3, NativeEvidenceIs DEF PinnedIn, AgedIn, EarnedIn, UsesAdapter
  <2>6. SaidIn(r)
    <3>1. req \in F3Requests
      BY <2>3, RequestOf DEF Sound
    <3>2. ~req.market
      <4>1. req.native = NoNative \/ req.market = FALSE
        BY <3>1 DEF F3Requests
      <4>2. NoNative.adapter = "none"
        BY DEF NoNative, Native
      <4> QED  BY <2>3, <4>1, <4>2 DEF F3Explicit, AdapterRequested
    <3> QED  BY <2>3, <3>2 DEF SaidIn, Contradicted, Said, Sound, AnswersKnown
  <2> QED  BY <2>1, <2>4, <2>5, <2>6, OwedIsPaid DEF Owed
<1>4. ASSUME F3Value PROVE Paid'
  <2> DEFINE r == [status |-> IF F3Conflict THEN "CONFLICTING_DATA"
                              ELSE IF F3Stale THEN "STALE_DATA" ELSE "PARTIAL",
                   risk |-> MinOf(100, [below |-> 92, near |-> 72, safe |-> 22][req.health]
                                         + When(NativeRequested, NativeDelta)),
                   dataConf |-> F3DataConfidence,
                   engConf |-> IF F3NativeFound THEN 84 ELSE 80,
                   blockers |-> req.health = "below",
                   conflicts |-> When(F3Conflict, 1), consensus |-> "MULTI_SOURCE",
                   fresh |-> Answer("collateral"), block |-> ReadAt("block"),
                   evidence |-> F3Evidence]
  <2>1. Conclude(r) /\ DOMAIN r = Fields
    BY <1>4 DEF F3Value, Fields
  <2>2. /\ r.evidence = F3Evidence /\ r.conflicts = When(F3Conflict, 1)
        /\ F3Conflict => r.status = "CONFLICTING_DATA"
    OBVIOUS
  <2> HIDE DEF r
  <2>3. req.engine = "F3" /\ ~F3Explicit /\ ~F3Down /\ Finished(F3Plan)
    BY <1>4 DEF F3Value, F3Generic, F3Modelled, F3Supported, Running
  <2>4. Promised \subseteq Heard(DOMAIN got)
    BY <2>3, F3Heard
  <2>5. \A e \in F3Evidence : (AdapterRequested => req.native.at = "past") => e.read = e.block
    <3> SUFFICES ASSUME NEW e \in F3Evidence, AdapterRequested => req.native.at = "past"
                 PROVE  e.read = e.block
      OBVIOUS
    <3>1. CASE e \in AtBlock({"block"}, ReadAt("block"))
      BY <3>1, PinnedReads
    <3>2. CASE e \in {Evidence("rpc", ReadAt("block"), ReadAt(c), Answer(c)) : c \in Heard({"collateral", "debt"})}
      BY <2>3, <3>2 DEF Evidence, Heard, Sound, CallsPinned, PinnedCalls
    <3>3. CASE e \in {Evidence("coingecko", Nowhere, Nowhere, IF F3Conflict THEN "LIVE" ELSE Answer(c)) :
                        c \in Heard({"market"})}
      BY <3>3 DEF Evidence
    <3>4. CASE e \in NativeEvidence
      BY <3>4, NativeEvidenceIs
    <3> QED  BY <3>1, <3>2, <3>3, <3>4 DEF F3Evidence
  <2>6. PinnedIn(r) /\ AgedIn(r) /\ EarnedIn(r)
    BY <2>2, <2>3, <2>5 DEF PinnedIn, AgedIn, EarnedIn, UsesAdapter
  <2>7. SaidIn(r)
    BY <2>2, <2>3 DEF SaidIn, Contradicted, F3Conflict, When
  <2> QED  BY <2>1, <2>4, <2>6, <2>7, OwedIsPaid DEF Owed
<1> QED  BY <1>1, <1>2, <1>3, <1>4 DEF F3Next

\* F4 pays what it owes the caller.
LEMMA F4Pays == Sound /\ F4Next => Paid'
<1> SUFFICES ASSUME Sound, F4Next PROVE Paid'
  OBVIOUS
<1>1. ASSUME F4Pools \/ F4Native PROVE Paid'
  BY <1>1, CallOwesNothing DEF F4Pools, F4Native, Running
<1>2. ASSUME F4Reject PROVE Paid'
  <2> DEFINE unmatched == [Failure("INSUFFICIENT_DATA", 30, {}) EXCEPT !.engConf = 40]
             conflict == [Failure("CONFLICTING_DATA", 25, {}) EXCEPT !.consensus = "CONFLICTING"]
  <2>1. "status" \in DOMAIN unmatched /\ unmatched.status = "INSUFFICIENT_DATA"
    BY FailureFields DEF Fields
  <2>2. \/ \E r : /\ Conclude(r) /\ "status" \in DOMAIN r
                  /\ r.status \in {"PROVIDER_UNAVAILABLE", "INSUFFICIENT_DATA"}
        \/ Conclude(conflict) /\ Asked("pools") /\ Answer("pools") \notin Broken
    <3> HIDE DEF unmatched, conflict
    <3>1. CASE req.input = "malformed"
      BY <1>2, <3>1, FailureFields DEF F4Reject
    <3>2. CASE req.input # "malformed"
      <4>1. Said("pools", F4Unfit \cup Broken)
        BY <1>2, <3>2 DEF F4Reject
      <4> DEFINE a == Answer("pools")
      <4>2. CASE a \in Broken
        BY <1>2, <3>2, <4>2, FailureFields DEF F4Reject
      <4>3. CASE a = "unmatched"
        BY <1>2, <2>1, <3>2, <4>3 DEF F4Reject, unmatched, Broken
      <4>4. CASE a \in {"ambiguous", "unnamed", "unmeasured"}
        BY <1>2, <3>2, <4>4, FailureFields DEF F4Reject, Broken
      <4>5. CASE a = "contradictory"
        BY <1>2, <3>2, <4>1, <4>5 DEF F4Reject, Broken, conflict, Said
      <4> QED  BY <4>1, <4>2, <4>3, <4>4, <4>5 DEF Said, F4Unfit
    <3> QED  BY <3>1, <3>2
  <2>3. ASSUME Conclude(conflict), Asked("pools"), Answer("pools") \notin Broken PROVE Paid'
    <3>1. /\ DOMAIN conflict = Fields /\ conflict.evidence = {} /\ conflict.engConf = 0
          /\ conflict.status = "CONFLICTING_DATA" /\ conflict.risk = 0
          /\ req.engine = "F4"
      BY <1>2 DEF Failure, Fields, F4Reject, Running
    <3> HIDE DEF conflict
    <3>2. Owed(conflict)
      BY <2>3, <3>1
      DEF Owed, Promised, F4Promised, Heard, Asked, PinnedIn, AgedIn, SaidIn, Contradicted, EarnedIn
    <3> QED  BY <2>3, <3>1, <3>2, OwedIsPaid
  <2> HIDE DEF conflict
  <2> QED  BY <2>2, <2>3, FailureOwesNothing DEF USABLE
<1>3. ASSUME F4Value PROVE Paid'
  <2> DEFINE own == [CURRENT |-> 70, RECENT |-> 70, STALE |-> 55, EXPIRED |-> 45, UNKNOWN |-> 62]
                      [Answer("pools")]
             r == [status |-> IF F4Fresh \in Old THEN "STALE_DATA" ELSE "PARTIAL",
                   risk |-> MinOf(100, 20 + When(req.profile = "risky", 80)
                                         + When(NativeRequested, NativeDelta)),
                   dataConf |-> IF F4NativeFound THEN MinOf(92, MaxOf(own, NativeConfidence)) ELSE own,
                   engConf |-> IF F4NativeFound THEN 72 ELSE 62,
                   blockers |-> FALSE, conflicts |-> 0, consensus |-> "MULTI_SOURCE",
                   fresh |-> F4Fresh, block |-> Nowhere, evidence |-> F4Evidence]
  <2>1. Conclude(r) /\ DOMAIN r = Fields
    BY <1>3 DEF F4Value, Fields
  <2>2. /\ r.status = IF F4Fresh \in Old THEN "STALE_DATA" ELSE "PARTIAL"
        /\ r.fresh = F4Fresh /\ r.evidence = F4Evidence
        /\ r.engConf = IF F4NativeFound THEN 72 ELSE 62
    OBVIOUS
  <2> HIDE DEF r
  <2>3. req.engine = "F4" /\ Asked("pools") /\ Answer("pools") \in F4Dated
    BY <1>3 DEF F4Value, Running, Said
  <2>4. Promised \subseteq Heard(DOMAIN got)
    BY <2>3 DEF Promised, F4Promised, Heard, Asked, F4Dated, Broken
  <2>5. \A e \in F4Evidence : /\ e.fresh \in Freshness
                              /\ (AdapterRequested => req.native.at = "past") => e.read = e.block
    BY <2>3, ExternalEvidence, NativeEvidenceIs DEF F4Evidence, F4Dated, Freshness
  <2>6. F4Evidence # {}
    BY DEF F4Evidence, External
  <2>7. PinnedIn(r)
    BY <2>2, <2>3, <2>5 DEF PinnedIn, UsesAdapter
  <2>8. AgedIn(r)
    BY <2>2, <2>3, <2>5, <2>6, WorstShows DEF AgedIn, F4Fresh
  <2>9. EarnedIn(r)
    <3>1. F4NativeFound => \E e \in F4Evidence : e.from \notin {"defillama", "coingecko"}
      BY NativeEvidenceIs DEF F4NativeFound, F4Evidence
    <3> QED  BY <2>2, <2>3, <3>1 DEF EarnedIn
  <2>10. SaidIn(r)
    BY <2>3 DEF SaidIn, Contradicted, Said, F4Dated
  <2> QED  BY <2>1, <2>4, <2>7, <2>8, <2>9, <2>10, OwedIsPaid DEF Owed
<1> QED  BY <1>1, <1>2, <1>3 DEF F4Next

\* F5 pays what it owes the caller.
LEMMA F5Pays == Sound /\ F5Next => Paid'
<1> SUFFICES ASSUME Sound, F5Next PROVE Paid'
  OBVIOUS
<1>1. ASSUME F5Prices \/ F5Native PROVE Paid'
  BY <1>1, CallOwesNothing DEF F5Prices, F5Native, Running
<1>2. ASSUME F5Reject PROVE Paid'
  <2> DEFINE worthless == [Failure("INSUFFICIENT_DATA", 25, {}) EXCEPT !.engConf = 30]
  <2>1. "status" \in DOMAIN worthless /\ worthless.status = "INSUFFICIENT_DATA"
    BY FailureFields DEF Fields
  <2>2. PICK r : Conclude(r) /\ "status" \in DOMAIN r
                   /\ r.status \in {"PROVIDER_UNAVAILABLE", "INSUFFICIENT_DATA"}
    <3> HIDE DEF worthless
    <3>1. CASE req.input = "malformed"
      BY <1>2, <3>1, FailureFields DEF F5Reject
    <3>2. CASE req.input # "malformed"
      <4>1. CASE F5Down
        BY <1>2, <3>2, <4>1, FailureFields DEF F5Reject
      <4>2. CASE ~F5Down /\ F5Incomplete
        BY <1>2, <3>2, <4>2, FailureFields DEF F5Reject
      <4>3. CASE ~F5Down /\ ~F5Incomplete /\ F5Worthless
        BY <1>2, <2>1, <3>2, <4>3 DEF F5Reject, worthless
      <4>4. CASE ~F5Down /\ ~F5Incomplete /\ ~F5Worthless
        BY <1>2, <3>2, <4>4, FailureFields DEF F5Reject
      <4> QED  BY <4>1, <4>2, <4>3, <4>4
    <3> QED  BY <3>1, <3>2
  <2> QED  BY <2>2, FailureOwesNothing DEF USABLE
<1>3. ASSUME F5Value PROVE Paid'
  <2> DEFINE other == 100 - req.largest
             index == (req.largest * req.largest + other * other) \div 100
             concentrated == req.largest > 50
             own == IF ~req.priced \/ Said("prices", {"partial"}) THEN 48
                    ELSE IF F5Market \in {"LIVE", "CURRENT"} THEN 72 ELSE 64
             r == [status |-> IF F5Fresh \in Old THEN "STALE_DATA" ELSE "PARTIAL",
                   risk |-> MinOf(100, 15 + MinOf(45, (55 * req.largest) \div 100)
                                  + MinOf(20, (35 * index) \div 100)
                                  + When(concentrated, 12) + When(req.stable /\ concentrated, 8)
                                  + When(NativeRequested, MinOf(25, NativeDelta))),
                   dataConf |-> IF F5NativeFound THEN MinOf(92, MaxOf(own + 8, NativeConfidence)) ELSE own,
                   engConf |-> 68, blockers |-> FALSE, conflicts |-> 0,
                   consensus |-> IF F5Evidence = {} THEN "USER_INPUT_ONLY" ELSE "MULTI_SOURCE",
                   fresh |-> F5Fresh, block |-> Nowhere, evidence |-> F5Evidence]
  <2>1. Conclude(r) /\ DOMAIN r = Fields
    BY <1>3 DEF F5Value, Fields
  <2>2. /\ r.status = IF F5Fresh \in Old THEN "STALE_DATA" ELSE "PARTIAL"
        /\ r.fresh = F5Fresh /\ r.evidence = F5Evidence
        /\ ~F5NativeFound => r.dataConf \in {48, 64, 72}
    OBVIOUS
  <2> HIDE DEF r
  <2>3. req.engine = "F5" /\ F5Priced /\ ~F5Rejected
    BY <1>3 DEF F5Value, Running
  <2>4. Promised \subseteq Heard(DOMAIN got)
    <3>1. CASE req.priced
      <4>1. req.input = "valid"
        <5>1. req \in F5Requests
          BY <2>3, RequestOf DEF Sound
        <5> QED  BY <2>3, <5>1 DEF F5Requests, F5Rejected
      <4>2. Asked("prices") /\ Answer("prices") \in Freshness \cup {"partial", "worthless"}
        BY <2>3, <3>1, <4>1 DEF F5Priced, F5Asks, Said
      <4> QED  BY <2>3, <3>1, <4>2 DEF Promised, F5Promised, Heard, Asked, Freshness, Broken
    <3>2. CASE ~req.priced
      BY <2>3, <3>2 DEF Promised, F5Promised
    <3> QED  BY <3>1, <3>2
  <2>5. \A e \in F5Evidence : /\ e.fresh \in Freshness
                              /\ (AdapterRequested => req.native.at = "past") => e.read = e.block
    <3>1. F5Market \in Freshness
      BY DEF F5Market, Said, Freshness
    <3> QED  BY <3>1, ExternalEvidence, NativeEvidenceIs DEF F5Evidence
  <2>6. PinnedIn(r)
    BY <2>2, <2>3, <2>5 DEF PinnedIn, UsesAdapter
  <2>7. AgedIn(r)
    <3>1. CASE F5Evidence = {}
      BY <2>2, <3>1 DEF AgedIn
    <3>2. CASE F5Evidence # {}
      BY <2>2, <2>3, <2>5, <3>2, WorstShows DEF AgedIn, F5Fresh
    <3> QED  BY <3>1, <3>2
  <2>8. EarnedIn(r)
    <3>1. F5NativeFound => \E e \in F5Evidence : e.from \notin {"defillama", "coingecko"}
      BY NativeEvidenceIs DEF F5NativeFound, F5Evidence
    <3> QED  BY <2>2, <2>3, <3>1 DEF EarnedIn
  <2>9. SaidIn(r)
    BY <2>3 DEF SaidIn, Contradicted
  <2> QED  BY <2>1, <2>4, <2>6, <2>7, <2>8, <2>9, OwedIsPaid DEF Owed
<1> QED  BY <1>1, <1>2, <1>3 DEF F5Next

\* The start of a plan was heard when all of it was asked and nothing of the start failed.
LEMMA StartHeard ==
  ASSUME NEW plan, NEW start, Finished(plan), InPlan(start) \subseteq InPlan(plan),
         ~Fails(InPlan(start))
  PROVE  InPlan(start) \subseteq Heard(DOMAIN got)
<1>1. \A c \in InPlan(start) : Asked(c) /\ Answer(c) \notin Broken
  BY FinishedPlan DEF Fails, Said
<1> QED  BY <1>1 DEF Heard, Asked

\* B1 owes the captured block, and no more.
LEMMA B1Pays == Sound /\ B1Next => Paid'
<1> SUFFICES ASSUME Sound, B1Next PROVE Paid'
  OBVIOUS
<1>1. ASSUME B1Read PROVE Paid'
  BY <1>1, CallOwesNothing DEF B1Read, B1Run, Running
<1>2. ASSUME B1Reject PROVE Paid'
  BY <1>2, FailureFields, FailureOwesNothing DEF B1Reject, USABLE
<1>3. ASSUME B1Tenderly \/ B1Dry PROVE Paid'
  <2>1. req.engine = "B1" /\ ~Fails(InPlan(B1Start))
    BY <1>3 DEF B1Tenderly, B1Dry, B1Run, Running
  <2>2. PICK r : Conclude(r) /\ DOMAIN r = Fields
    <3>1. CASE B1Tenderly
      <4>1. \E r : Conclude(r) /\ DOMAIN r = Fields
        BY <3>1 DEF B1Tenderly, Fields
      <4> QED  BY <4>1
    <3>2. CASE B1Dry
      <4>1. \E r : Conclude(r) /\ DOMAIN r = Fields
        BY <3>2 DEF B1Dry, Fields
      <4> QED  BY <4>1
    <3> QED  BY <1>3, <3>1, <3>2
  <2>3. Promised \subseteq Heard(DOMAIN got)
    <3>1. Asked("rpc") /\ Asked("block")
      <4>1. Asked("simulate") \/ Asked("dryrun")
        BY <1>3 DEF B1Tenderly, B1Dry, B1Simulated, Said
      <4> QED  BY <2>1, <4>1 DEF Sound, BlockFirst, Asked
    <3> QED  BY <2>1, <3>1 DEF Promised, B1Promised, B1Start, InPlan, Fails, Heard, Said, Asked
  <2>4. PinnedIn(r) /\ AgedIn(r) /\ SaidIn(r) /\ EarnedIn(r)
    BY <2>1 DEF PinnedIn, AgedIn, SaidIn, EarnedIn, Contradicted
  <2> QED  BY <2>2, <2>3, <2>4, OwedIsPaid DEF Owed
<1> QED  BY <1>1, <1>2, <1>3 DEF B1Next

\* B2 pays what it owes the caller.
LEMMA B2Pays == Sound /\ B2Next => Paid'
<1> SUFFICES ASSUME Sound, B2Next PROVE Paid'
  OBVIOUS
<1>1. ASSUME B2Read PROVE Paid'
  BY <1>1, CallOwesNothing DEF B2Read, B2Run, Running
<1>2. ASSUME B2Reject PROVE Paid'
  BY <1>2, FailureFields, FailureOwesNothing DEF B2Reject, USABLE
<1>3. ASSUME B2Value PROVE Paid'
  <2> DEFINE r == [status |-> "PARTIAL", risk |-> B2Score,
                   dataConf |-> MaxOf(45, 88 - MinOf(25, 5 * B2Missing)),
                   engConf |-> IF Heard({"scan"}) # {} THEN 82 ELSE 75,
                   blockers |-> B2Malicious, conflicts |-> When(B2Conflict, 1),
                   consensus |-> "MULTI_SOURCE", fresh |-> B2Fresh,
                   block |-> ReadAt("block"), evidence |-> B2Evidence]
  <2>1. Conclude(r) /\ DOMAIN r = Fields
    BY <1>3 DEF B2Value, Fields
  <2>2. /\ r.status = "PARTIAL" /\ r.fresh = B2Fresh /\ r.evidence = B2Evidence
        /\ r.conflicts = When(B2Conflict, 1)
    OBVIOUS
  <2> HIDE DEF r
  <2>3. req.engine = "B2" /\ ~B2Down /\ Finished(B2Plan)
    BY <1>3 DEF B2Value, B2Run, Running
  <2>4. Promised \subseteq Heard(DOMAIN got)
    BY <2>3, B2Calls, StartHeard DEF Promised, B2Promised, B2Down
  <2>5. \A e \in B2Evidence : /\ e.from = "rpc" => e.read = e.block
                              /\ e.fresh = "LIVE" \/ (e.fresh = "UNKNOWN" /\ B2Fresh = "UNKNOWN")
    <3> SUFFICES ASSUME NEW e \in B2Evidence
                 PROVE  /\ e.from = "rpc" => e.read = e.block
                        /\ e.fresh = "LIVE" \/ (e.fresh = "UNKNOWN" /\ B2Fresh = "UNKNOWN")
      OBVIOUS
    <3>1. CASE e \in AtBlock({"block", "code"}, ReadAt("block"))
      BY <2>3, <3>1, PinnedReads DEF Sound, CallsPinned, PinnedCalls
    <3>2. CASE e \in {Evidence("rpc", Past, Past, "LIVE") : c \in {c \in {"tx"} : B2Found}}
      BY <3>2 DEF Evidence
    <3>3. CASE e \in {Evidence("etherscan", Nowhere, Nowhere, "UNKNOWN") : c \in Heard({"source"})}
      BY <3>3 DEF Evidence, B2Fresh
    <3>4. CASE e \in {Evidence("blockaid", ReadAt("block"), ReadAt(c), "LIVE") : c \in Heard({"scan"})}
      BY <3>4 DEF Evidence
    <3> QED  BY <3>1, <3>2, <3>3, <3>4 DEF B2Evidence
  <2>6. PinnedIn(r)
    BY <2>2, <2>5 DEF PinnedIn
  <2>7. AgedIn(r)
    <3>1. B2Fresh \in {"LIVE", "UNKNOWN"}
      BY DEF B2Fresh
    <3> QED  BY <2>2, <2>3, <2>5, <3>1 DEF AgedIn, Rank
  <2>8. SaidIn(r) /\ EarnedIn(r)
    BY <2>2, <2>3 DEF SaidIn, EarnedIn, Contradicted, B2Conflict, When
  <2> QED  BY <2>1, <2>4, <2>6, <2>7, <2>8, OwedIsPaid DEF Owed
<1> QED  BY <1>1, <1>2, <1>3 DEF B2Next

\* B3 pays what it owes the caller.
LEMMA B3Pays == Sound /\ B3Next => Paid'
<1> SUFFICES ASSUME Sound, B3Next PROVE Paid'
  OBVIOUS
<1>1. ASSUME B3Read PROVE Paid'
  BY <1>1, CallOwesNothing DEF B3Read, B3Run, Running
<1>2. ASSUME B3Reject PROVE Paid'
  BY <1>2, FailureFields, FailureOwesNothing DEF B3Reject, USABLE
<1>3. ASSUME B3Value PROVE Paid'
  <2> DEFINE r == [status |-> IF B3Stale THEN "STALE_DATA" ELSE "PARTIAL", risk |-> B3Score,
                   dataConf |-> B3DataConfidence,
                   engConf |-> IF B3Scanned THEN IF B3Compared THEN 80 ELSE 68
                               ELSE IF B3Compared THEN 70 ELSE 58,
                   blockers |-> \/ Said("feed", {"invalid"}) \/ B3Malicious
                                \/ B3Changed("code", {"changed"}),
                   conflicts |-> 0, consensus |-> "MULTI_SOURCE", fresh |-> B3Fresh,
                   block |-> ReadAt("block"), evidence |-> B3Evidence]
  <2>1. Conclude(r) /\ DOMAIN r = Fields
    BY <1>3 DEF B3Value, Fields
  <2>2. /\ r.status = IF B3Stale THEN "STALE_DATA" ELSE "PARTIAL"
        /\ r.fresh = B3Fresh /\ r.evidence = B3Evidence
    OBVIOUS
  <2> HIDE DEF r
  <2>3. req.engine = "B3" /\ ~B3Down /\ Finished(B3Plan)
    BY <1>3 DEF B3Value, B3Run, Running
  <2>4. Promised \subseteq Heard(DOMAIN got)
    <3>1. InPlan(B3State) \subseteq InPlan(B3Plan)
      <4> DEFINE S == B3Names
      <4>1. {"rpc", "block", "balance", "code", "supply", "scan"} \subseteq S /\ "feed" \in S
        BY DEF B3Names
      <4> HIDE DEF S
      <4> QED  BY <2>3, <4>1, B3Calls
    <3> QED  BY <2>3, <3>1, StartHeard DEF Promised, B3Promised, B3Down
  <2>5. \A e \in B3Evidence : /\ e.from = "rpc" => e.read = e.block
                              /\ \/ e.fresh = "LIVE"
                                 \/ e.fresh = "UNKNOWN" /\ B3Scanned
                                 \/ e.fresh = B3FeedFresh /\ req.feed
    <3> SUFFICES ASSUME NEW e \in B3Evidence
                 PROVE  /\ e.from = "rpc" => e.read = e.block
                        /\ \/ e.fresh = "LIVE"
                           \/ e.fresh = "UNKNOWN" /\ B3Scanned
                           \/ e.fresh = B3FeedFresh /\ req.feed
      OBVIOUS
    <3>1. CASE e \in AtBlock({"block", "balance", "code", "supply"}, ReadAt("block"))
      BY <2>3, <3>1, PinnedReads DEF Sound, CallsPinned, PinnedCalls
    <3>2. CASE e \in External("rpc", "LIVE")
      BY <3>2, ExternalEvidence
    <3>3. CASE e \in {Evidence("rpc", ReadAt("block"), ReadAt(c), B3FeedFresh) : c \in Heard({"feed"})}
      BY <2>3, <3>3 DEF Evidence, Heard, Sound, CallsPinned, PinnedCalls, AnswersKnown
    <3>4. CASE e \in {Evidence("blockaid", Nowhere, Nowhere, "UNKNOWN") : c \in Heard({"scan"})}
      BY <3>4 DEF Evidence, B3Scanned
    <3> QED  BY <3>1, <3>2, <3>3, <3>4 DEF B3Evidence
  <2>6. PinnedIn(r)
    BY <2>2, <2>5 DEF PinnedIn
  <2>7. AgedIn(r)
    <3>1. B3FeedFresh \in {"LIVE", "UNKNOWN", "STALE"}
      BY <2>3 DEF B3FeedFresh, Said, Freshness, Sound, AnswersKnown, FeedAnswers
    <3>2. \A e \in B3Evidence : /\ Rank[e.fresh] <= Rank[B3Fresh]
                                /\ e.fresh \in Old => B3Stale
      BY <2>5, <3>1 DEF B3Fresh, B3Stale, Old, Rank
    <3> QED  BY <2>2, <2>3, <3>2 DEF AgedIn
  <2>8. SaidIn(r) /\ EarnedIn(r)
    BY <2>3 DEF SaidIn, EarnedIn, Contradicted
  <2> QED  BY <2>1, <2>4, <2>6, <2>7, <2>8, OwedIsPaid DEF Owed
<1> QED  BY <1>1, <1>2, <1>3 DEF B3Next

\* Two labels that differ are two labels.
LEMMA LabelsDiffer ==
  ASSUME NEW c \in {"nansen", "arkham"}, NEW d \in {"nansen", "arkham"},
         Said(c, {"alice", "bob"}), Said(d, {"alice", "bob"}), Answer(c) # Answer(d)
  PROVE  B4Conflict
<1> DEFINE both == {"alice"} \cup {"bob"}
<1>1. B4Labels = both
  BY DEF B4Labels, Said
<1>2. Cardinality(both) = 2
  <2>1. IsFiniteSet({"alice"}) /\ Cardinality({"alice"}) = 1 /\ "bob" \notin {"alice"}
    BY FS_Singleton
  <2> QED  BY <2>1, FS_AddElement
<1> HIDE DEF both
<1> QED  BY <1>1, <1>2 DEF B4Conflict

\* B4 pays what it owes the caller.
LEMMA B4Pays == Sound /\ B4Next => Paid'
<1> SUFFICES ASSUME Sound, B4Next PROVE Paid'
  OBVIOUS
<1>1. ASSUME B4Read PROVE Paid'
  BY <1>1, CallOwesNothing DEF B4Read, B4Run, Running
<1>2. ASSUME B4Reject PROVE Paid'
  BY <1>2, FailureFields, FailureOwesNothing DEF B4Reject, USABLE
<1>3. ASSUME B4Value PROVE Paid'
  <2> DEFINE r == [status |-> "PARTIAL", risk |-> 10 + When(B4Conflict, 8),
                   dataConf |-> B4DataConfidence, engConf |-> IF B4Labels # {} THEN 62 ELSE 55,
                   blockers |-> FALSE, conflicts |-> When(B4Conflict, 1),
                   consensus |-> "MULTI_SOURCE", fresh |-> B4Fresh, block |-> Nowhere,
                   evidence |-> B4Evidence]
  <2>1. Conclude(r) /\ DOMAIN r = Fields
    BY <1>3 DEF B4Value, Fields
  <2>2. /\ r.status = "PARTIAL" /\ r.fresh = B4Fresh /\ r.evidence = B4Evidence
        /\ r.conflicts = When(B4Conflict, 1)
    OBVIOUS
  <2> HIDE DEF r
  <2>3. req.engine = "B4" /\ ~B4Down /\ Finished(B4Plan)
    BY <1>3 DEF B4Value, B4Run, Running
  <2>4. Promised \subseteq Heard(DOMAIN got)
    BY <2>3, B4Calls, StartHeard DEF Promised, B4Promised, B4Down
  <2>5. \A e \in B4Evidence : /\ e.read = e.block
                              /\ e.fresh = "LIVE" \/ (e.fresh = "UNKNOWN" /\ B4Fresh = "UNKNOWN")
    <3> SUFFICES ASSUME NEW e \in B4Evidence
                 PROVE  /\ e.read = e.block
                        /\ e.fresh = "LIVE" \/ (e.fresh = "UNKNOWN" /\ B4Fresh = "UNKNOWN")
      OBVIOUS
    <3>1. CASE e \in AtBlock({"balance"}, ReadAt("block"))
      BY <2>3, <3>1, PinnedReads DEF Sound, CallsPinned, PinnedCalls
    <3>2. CASE e \in IF B4History THEN External("etherscan", "UNKNOWN") ELSE {}
      BY <3>2, ExternalEvidence DEF B4Fresh
    <3>3. CASE e \in {Evidence(c, Nowhere, Nowhere, "UNKNOWN") : c \in Heard({"nansen", "arkham"})}
      BY <3>3 DEF Evidence, B4Fresh, B4Labelled
    <3> QED  BY <3>1, <3>2, <3>3 DEF B4Evidence
  <2>6. PinnedIn(r)
    BY <2>2, <2>5 DEF PinnedIn
  <2>7. AgedIn(r)
    <3>1. B4Fresh \in {"LIVE", "UNKNOWN"}
      BY DEF B4Fresh
    <3> QED  BY <2>2, <2>3, <2>5, <3>1 DEF AgedIn, Rank
  <2>8. SaidIn(r) /\ EarnedIn(r)
    <3>1. Contradicted => B4Conflict
      BY <2>3, LabelsDiffer DEF Contradicted
    <3> QED  BY <2>2, <2>3, <3>1 DEF SaidIn, EarnedIn, When
  <2> QED  BY <2>1, <2>4, <2>6, <2>7, <2>8, OwedIsPaid DEF Owed
<1> QED  BY <1>1, <1>2, <1>3 DEF B4Next

\* B5 pays what it owes the caller.
LEMMA B5Pays == Sound /\ B5Next => Paid'
<1> SUFFICES ASSUME Sound, B5Next PROVE Paid'
  OBVIOUS
<1>1. ASSUME B5Quote PROVE Paid'
  BY <1>1, CallOwesNothing DEF B5Quote, Running
<1>2. ASSUME B5Reject PROVE Paid'
  BY <1>2, FailureFields, FailureOwesNothing DEF B5Reject, USABLE
<1>3. ASSUME B5Value PROVE Paid'
  <2> DEFINE matched == [status |-> "PARTIAL",
                         risk |-> 22 + When(Said("quote", {"long"}), 10) + When(req.wide, 12)
                                     + When(req.bridged, 8),
                         dataConf |-> 84, engConf |-> 74, blockers |-> FALSE, conflicts |-> 0,
                         consensus |-> "SINGLE_SOURCE", fresh |-> "UNKNOWN", block |-> Nowhere,
                         evidence |-> B5Evidence]
             mismatch == [Failure("CONFLICTING_DATA", 25, B5Evidence)
                            EXCEPT !.conflicts = B5Conflicts(Answer("quote")), !.fresh = "UNKNOWN"]
             r == IF B5Matched THEN matched ELSE mismatch
  <2>1. Conclude(r)
    BY <1>3 DEF B5Value
  <2>2. /\ DOMAIN r = Fields /\ r.fresh = "UNKNOWN" /\ r.evidence = B5Evidence
        /\ ~B5Matched => /\ r.status = "CONFLICTING_DATA" /\ r.risk = 0
                         /\ r.conflicts = B5Conflicts(Answer("quote"))
    <3>1. CASE B5Matched
      BY <3>1 DEF Fields
    <3>2. CASE ~B5Matched
      BY <3>2 DEF Fields, Failure
    <3> QED  BY <3>1, <3>2
  <2> HIDE DEF r
  <2>3. req.engine = "B5" /\ Asked("quote") /\ ~Fails({"quote"})
    BY <1>3 DEF B5Value, Running
  <2>4. Promised \subseteq Heard(DOMAIN got)
    BY <2>3 DEF Promised, B5Promised, Heard, Asked, Fails, Said
  <2>5. PinnedIn(r) /\ AgedIn(r)
    BY <2>2, <2>3, ExternalEvidence DEF PinnedIn, AgedIn, B5Evidence, Rank
  <2>6. SaidIn(r) /\ EarnedIn(r)
    BY <2>2, <2>3 DEF SaidIn, EarnedIn, Contradicted, B5Matched, B5Conflicts, Said
  <2> QED  BY <2>1, <2>2, <2>4, <2>5, <2>6, OwedIsPaid DEF Owed
<1> QED  BY <1>1, <1>2, <1>3 DEF B5Next

\* Every result of every run pays what it owes.
THEOREM EveryResultPays == Spec => []Paid
<1>1. Init => Paid
  BY DEF Init, Paid, NothingPartial, SnapshotIsPinned, AgeIsHonest, FreshnessIsHonest,
         OldEvidenceGates, ConflictIsSaid, ConfidenceIsEarned, Usable, Done
<1>2. Sound /\ Paid /\ [Next]_vars => Paid'
  <2> SUFFICES ASSUME Sound, Paid, [Next]_vars PROVE Paid'
    OBVIOUS
  <2>1. CASE UNCHANGED vars
    BY <2>1, SameCalls
    DEF vars, Paid, NothingPartial, SnapshotIsPinned, AgeIsHonest, FreshnessIsHonest,
        OldEvidenceGates, ConflictIsSaid, ConfidenceIsEarned, Usable, Done
  <2>2. CASE Advance
    BY <2>2, NothingIsOwed DEF Advance, Usable, Done
  <2>3. CASE Dispatch
    BY <2>3, F1Pays, F2Pays, F3Pays, F4Pays, F5Pays, B1Pays, B2Pays, B3Pays, B4Pays, B5Pays
    DEF Dispatch
  <2> QED  BY <2>1, <2>2, <2>3 DEF Next
<1> QED  BY <1>1, <1>2, CallsAreSound, PTL DEF Spec

\* live_*.py: no result with a score lacks a read that the caller was promised.
THEOREM NoPartialResult == Spec => []NothingPartial
<1>1. Paid => NothingPartial
  BY DEF Paid
<1> QED  BY <1>1, EveryResultPays, PTL

\* live_*.py: what a result says of contract state is of the one block it captured,
\* however far the chain went meanwhile.
THEOREM OneSnapshot == Spec => []SnapshotIsPinned
<1>1. Paid => SnapshotIsPinned
  BY DEF Paid
<1> QED  BY <1>1, EveryResultPays, PTL

\* live_*.py: no result hides the age of its evidence.
THEOREM AgeShows == Spec => []AgeIsHonest
<1>1. Paid => AgeIsHonest
  BY DEF Paid
<1> QED  BY <1>1, EveryResultPays, PTL

\* live_*.py and _normalize_current_live_contract: no result resolves a contradiction
\* of its sources in silence.
THEOREM ConflictShows == Spec => []ConflictIsSaid
<1>1. Paid => ConflictIsSaid
  BY DEF Paid
<1> QED  BY <1>1, EveryResultPays, PTL

\* live_f4.py, live_f5.py: no confidence is raised by evidence that is not there.
THEOREM ConfidenceHasEvidence == Spec => []ConfidenceIsEarned
<1>1. Paid => ConfidenceIsEarned
  BY DEF Paid
<1> QED  BY <1>1, EveryResultPays, PTL

-----------------------------------------------------------------------------
(* Scores *)

Statuses == USABLE \cup {"INSUFFICIENT_DATA", "PROVIDER_UNAVAILABLE", "UNSUPPORTED"}

\* What TypeOK asks of a result, as it asks it of the record an engine concludes
\* with.
Scored(r) ==
  /\ r.status \in Statuses
  /\ {r.risk, r.dataConf, r.engConf} \subseteq 0 .. 100
  /\ r.fresh \in Freshness \cup {"NONE"}
\* A result has the scores of its record.
ScoreHolds == Done => Scored(result)

\* F1 prices what it holds.
PricesSomething == req.engine = "F1" /\ Asked("prices") => Finished(F1Plan) /\ F1Total > 0

\* The dispatch keeps the scores.
LEMMA ScoredIsKept ==
  ASSUME NEW r, DOMAIN r = Fields, Conclude(r), Scored(r)
  PROVE  ScoreHolds'
<1> DEFINE n == Normalized(r)
<1>1. result' = n
  BY DEF Conclude
<1>2. /\ n.risk = r.risk /\ n.dataConf = r.dataConf /\ n.engConf = r.engConf
      /\ n.fresh = r.fresh
      /\ n.status = IF r.conflicts > 0 /\ r.status \in {"COMPLETED", "PARTIAL"}
                      THEN "CONFLICTING_DATA" ELSE r.status
  BY NormalizedFields
<1>3. n.status \in Statuses
  <2>1. "CONFLICTING_DATA" \in Statuses
    BY DEF Statuses, USABLE
  <2> HIDE DEF n
  <2> QED  BY <1>2, <2>1 DEF Scored
<1> HIDE DEF n
<1> QED  BY <1>1, <1>2, <1>3 DEF Scored, ScoreHolds

\* What a failure may say of itself.
Reasons == {"INSUFFICIENT_DATA", "PROVIDER_UNAVAILABLE", "UNSUPPORTED", "CONFLICTING_DATA"}

\* A failure has the scores of one.
LEMMA FailureScored ==
  ASSUME NEW s, NEW d, NEW e, s \in Reasons, d \in 0 .. 100
  PROVE  Scored(Failure(s, d, e)) /\ DOMAIN Failure(s, d, e) = Fields
<1>1. s \in Statuses
  BY DEF Reasons, Statuses, USABLE
<1> QED  BY <1>1 DEF Scored, Failure, Fields

\* So it has when it says how fresh its evidence is.
LEMMA DatedFailureScored ==
  ASSUME NEW s, NEW d, NEW e, NEW f, s \in Reasons, d \in 0 .. 100, f \in Freshness
  PROVE  LET r == [Failure(s, d, e) EXCEPT !.fresh = f] IN Scored(r) /\ DOMAIN r = Fields
<1>1. s \in Statuses
  BY DEF Reasons, Statuses, USABLE
<1> QED  BY <1>1 DEF Scored, Failure, Fields

\* A failure keeps the scores.
LEMMA FailureKeeps ==
  ASSUME NEW s, NEW d, NEW e, Conclude(Failure(s, d, e)), s \in Reasons, d \in 0 .. 100
  PROVE  ScoreHolds'
BY FailureScored, ScoredIsKept

\* A call gives no score.
LEMMA CallScoresNothing ==
  ASSUME NEW c, NEW answers, NEW at, result = None, Ask(c, answers, at)
  PROVE  ScoreHolds'
BY DEF Ask, ScoreHolds, Done

\* A position that was read has a health factor.
LEMMA HealthIs ==
  ASSUME Sound
  PROVE  Health \in {"unread", "safe", "near", "close", "at", "below"}
BY DEF Health, HalfRead, Fails, Said, Broken, Sound, AnswersKnown, PositionAnswers

\* What protocol-native evidence adds is bounded.
LEMMA NativeScores ==
  ASSUME Sound
  PROVE  NativeDelta \in 0 .. 55 /\ NativeConfidence \in 0 .. 100
<1>1. HealthDelta \in 0 .. 50
  BY HealthIs DEF HealthDelta, When
<1>2. AdapterDelta \in 0 .. 95
  <2> DEFINE cap == IF req.native.adapter = "aave_v3" THEN 65 ELSE 70
             own == MinOf(cap, When(Said("a.config", {"unsafe"}), 35) + HealthDelta)
  <2>1. own \in 0 .. 70
    BY <1>1 DEF MinOf, When
  <2>2. AdapterDelta = When(~AdapterFailed, own + When(req.native.identity = "MISMATCH", 25))
    BY DEF AdapterDelta
  <2> HIDE DEF own
  <2> QED  BY <2>1, <2>2 DEF When
<1>3. AdapterConfidence \in 0 .. 100
  <2> DEFINE own == CASE req.native.adapter = "aave_v3" -> 90
                      [] req.native.adapter = "compound_v3" -> IF Said("a.price", {"ok"}) THEN 98 ELSE 91
                      [] OTHER -> IF MorphoPriced THEN 99 ELSE 92
  <2>1. own \in 90 .. 99
    OBVIOUS
  <2>2. AdapterConfidence = When(~AdapterFailed, MinOf(100, own + When(Verified, 3)))
    BY DEF AdapterConfidence
  <2> HIDE DEF own
  <2> QED  BY <2>1, <2>2 DEF When, MinOf
<1>4. NativeDelta \in 0 .. 55
  <2> DEFINE direct == When(AdapterRequested, AdapterDelta)
                  + When(Said("n.code", {"empty"}), IF req.native.contract = "core" THEN 12 ELSE 10)
                  + When(Said("n.slots", {"proxy"}), 10)
                  + When(Said("n.source", {"unverified"}), 10)
                  + When(Said("n.source", {"conflicts"}),
                         6 + When(Said("n.slots", {"proxy"}), 8))
                  + When(Said("n.oracle", {"zero", "failed"}), 35)
                  + When(Said("n.oracle", {"EXPIRED", "failed"}), 22)
                  + When(Said("n.oracle", {"behind", "failed"}), 22)
  <2>1. direct \in Nat
    BY <1>2 DEF When
  <2>2. NativeDelta = MinOf(55, (IF NativeDirect /\ NativeCaptured THEN direct ELSE 0)
                                  + When(GovernanceUsed, 15))
    BY DEF NativeDelta
  <2> HIDE DEF direct
  <2> QED  BY <2>1, <2>2 DEF When, MinOf
<1>5. NativeConfidence \in 0 .. 100
  <2> DEFINE found == 62 + When(Heard({"n.code"}) # {}, 12)
                         + When(Heard({"n.oracle"}) # {} /\ Answer("n.oracle") # "UNKNOWN", 12)
             most == MaxOf(When(AdapterRequested, AdapterConfidence), found)
  <2>1. found \in 62 .. 86
    BY DEF When
  <2> HIDE DEF found
  <2>2. most \in 0 .. 100
    BY <1>3, <2>1 DEF When, MaxOf
  <2>3. NativeConfidence = CASE ~NativeDirect -> When(GovernanceUsed, 45)
                             [] NativeDirect /\ ~NativeCaptured -> 0
                             [] OTHER -> most
    BY DEF NativeConfidence, most, found
  <2> HIDE DEF most
  <2> QED  BY <2>2, <2>3 DEF When
<1> QED  BY <1>4, <1>5

\* The first calls of two.
LEMMA FirstOfTwo ==
  ASSUME NEW a, NEW b, NEW n \in 0 .. 2
  PROVE  InPlan(SubSeq(<<a, b>>, 1, n)) \subseteq {a, b}
<1> DEFINE two == <<a, b>>
<1>1. \A i \in 1 .. n : two[i] \in {a, b}
  OBVIOUS
<1> HIDE DEF two
<1>2. SubSeq(two, 1, n) \in Seq({a, b})
  BY <1>1, SubSeqProperties
<1>3. InPlan(SubSeq(two, 1, n)) \subseteq {a, b}
  BY <1>2, PlanCalls
<1> QED  BY <1>3 DEF two

\* F1 holds a number of things.
LEMMA F1Counts ==
  ASSUME req \in F1Requests
  PROVE  F1Holdings.native \in Nat /\ F1Holdings.token \in Nat /\ F1Holdings.other \in Nat
<1> DEFINE count(calls) == Cardinality({c \in InPlan(calls) : Said(c, {"some"})})
<1>1. ASSUME NEW calls, IsFiniteSet(InPlan(calls)) PROVE count(calls) \in Nat
  BY <1>1, FS_Subset, FS_CardinalityType
<1>2. req.wallets \in 0 .. 2
  BY DEF F1Requests
<1>3. ASSUME NEW a, NEW b PROVE IsFiniteSet(InPlan(SubSeq(<<a, b>>, 1, req.wallets)))
  <2>1. InPlan(SubSeq(<<a, b>>, 1, req.wallets)) \subseteq {a} \cup {b}
    BY <1>2, FirstOfTwo
  <2>2. IsFiniteSet({a} \cup {b})
    BY FS_Singleton, FS_Union
  <2> QED  BY <2>1, <2>2, FS_Subset
<1>4. count(F1Natives) \in Nat /\ count(F1Balances) \in Nat
  <2>1. IsFiniteSet(InPlan(F1Natives)) /\ IsFiniteSet(InPlan(F1Balances))
    BY <1>3 DEF F1Natives, F1Balances
  <2> HIDE DEF count
  <2> QED  BY <1>1, <2>1
<1>5. /\ F1Holdings.native = When(req.manual = "native", 3) + count(F1Natives)
      /\ F1Holdings.token = count(F1Balances) /\ F1Holdings.other = When(req.manual = "other", 3)
  BY DEF F1Holdings
<1> HIDE DEF count
<1> QED  BY <1>4, <1>5 DEF When

\* The score of a portfolio that holds something.
LEMMA F1ScoreIs ==
  ASSUME req \in F1Requests, F1Total > 0
  PROVE  F1Score \in 0 .. 100
<1> DEFINE n == F1Holdings.native
           t == F1Holdings.token
           o == F1Holdings.other
           largest == MaxOf(n, MaxOf(t, o))
           squared == 2 * F1Squares > F1Total ^ 2
<1>1. n \in Nat /\ t \in Nat /\ o \in Nat
  BY F1Counts
<1>2. F1Total = n + t + o
  BY DEF F1Total
<1>3. F1Largest = (100 * largest) \div F1Total
  BY DEF F1Largest
<1>4. F1Score = MinOf(100, MaxOf(10, F1Largest) + When(squared, 10))
  BY DEF F1Score
<1> HIDE DEF n, t, o, squared
<1>5. largest \in Nat
  BY <1>1 DEF MaxOf
<1> HIDE DEF largest
<1>6. F1Largest \in Int
  BY <1>1, <1>2, <1>3, <1>5
<1> QED  BY <1>4, <1>6 DEF MinOf, MaxOf, When

\* Only F1 prices what it holds, and only when it holds something.
LEMMA F1Prices == Sound /\ PricesSomething /\ F1Next => PricesSomething'
<1> SUFFICES ASSUME Sound, PricesSomething, F1Next, req.engine = "F1", Asked("prices")'
             PROVE  Finished(F1Plan)' /\ F1Total' > 0
  BY DEF PricesSomething, F1Next, F1Read, F1Reject, F1Unreadable, F1Empty, F1Price, F1Unvalued,
         F1Value, F1ReadAll, Running, Ask, Conclude
<1>1. req \in F1Requests
  BY RequestOf DEF Sound
<1>2. Finished(F1Plan) /\ F1Total > 0
  <2>1. CASE F1Price
    BY <2>1 DEF F1Price, F1ReadAll
  <2>2. CASE F1Read
    <3> DEFINE c == NextOf(F1Plan)
    <3>1. c \in F1CallNames /\ ~Asked(c) /\ Ask(c, F1Answers(c), F1BlockOf(c))
      BY <1>1, <2>2, F1Calls, NextCall DEF F1Read
    <3>2. c # "prices"
      BY <3>1 DEF F1CallNames
    <3> HIDE DEF c
    <3>3. DOMAIN got' = DOMAIN got \cup {c} /\ UNCHANGED req
      BY <3>1, AskAdds
    <3>4. Asked("prices")
      BY <3>2, <3>3 DEF Asked
    <3> QED  BY <2>2, <3>4 DEF PricesSomething, F1Read, Running
  <2>3. CASE F1Reject \/ F1Unreadable \/ F1Empty \/ F1Unvalued \/ F1Value
    BY <2>3 DEF F1Reject, F1Unreadable, F1Empty, F1Unvalued, F1Value, Conclude, PricesSomething, Asked
  <2> QED  BY <2>1, <2>2, <2>3 DEF F1Next
<1>3. /\ UNCHANGED req /\ DOMAIN got \subseteq DOMAIN got'
      /\ \A c \in DOMAIN got : got'[c] = got[c]
      /\ DOMAIN got' \subseteq DOMAIN got \cup {"prices"}
  <2>1. CASE F1Price
    BY <2>1, AskAdds DEF F1Price, Asked
  <2>2. CASE F1Read
    BY <1>2, <2>2 DEF F1Read
  <2>3. CASE F1Reject \/ F1Unreadable \/ F1Empty \/ F1Unvalued \/ F1Value
    BY <2>3 DEF F1Reject, F1Unreadable, F1Empty, F1Unvalued, F1Value, Conclude
  <2> QED  BY <2>1, <2>2, <2>3 DEF F1Next
<1>4. F1Plan' = F1Plan /\ F1Natives' = F1Natives /\ F1Balances' = F1Balances
  BY <1>3 DEF F1Plan, F1Natives, F1Balances
<1>5. Finished(F1Plan)'
  BY <1>2, <1>3, <1>4 DEF Finished, Unasked, Asked
<1>6. F1Total' = F1Total
  <2> DEFINE natives == {c \in InPlan(F1Natives) : Said(c, {"some"})}
             balances == {c \in InPlan(F1Balances) : Said(c, {"some"})}
  <2>1. F1Total = When(req.manual = "native", 3) + Cardinality(natives) + Cardinality(balances)
                    + When(req.manual = "other", 3)
    BY DEF F1Total, F1Holdings
  <2>2. F1Total' = When(req'.manual = "native", 3) + Cardinality(natives') + Cardinality(balances')
                     + When(req'.manual = "other", 3)
    BY DEF F1Total, F1Holdings, When
  <2>3. InPlan(F1Natives) \subseteq {"native1", "native2"}
        /\ InPlan(F1Balances) \subseteq {"balance1", "balance2"}
    <3>1. req.wallets \in 0 .. 2
      BY <1>1 DEF F1Requests
    <3> QED  BY <3>1, FirstOfTwo DEF F1Natives, F1Balances
  <2>4. InPlan(F1Natives)' = InPlan(F1Natives) /\ InPlan(F1Balances)' = InPlan(F1Balances)
    BY <1>4 DEF InPlan
  <2>5. ASSUME NEW c, c # "prices" PROVE Said(c, {"some"})' <=> Said(c, {"some"})
    BY <1>3, <2>5 DEF Said, Asked, Answer
  <2>6. natives' = natives /\ balances' = balances
    BY <2>3, <2>4, <2>5
  <2> HIDE DEF natives, balances
  <2> QED  BY <1>3, <2>1, <2>2, <2>6
<1> QED  BY <1>2, <1>5, <1>6

-----------------------------------------------------------------------------
(* The engines, one by one: their scores *)

\* The scores of F1 are bounded.
LEMMA F1Scores == Sound /\ PricesSomething /\ F1Next => ScoreHolds'
<1> SUFFICES ASSUME Sound, PricesSomething, F1Next PROVE ScoreHolds'
  OBVIOUS
<1>1. ASSUME F1Read \/ F1Price PROVE ScoreHolds'
  BY <1>1, CallScoresNothing DEF F1Read, F1Price, F1ReadAll, Running
<1>2. ASSUME F1Reject \/ F1Unreadable \/ F1Empty PROVE ScoreHolds'
  BY <1>2, FailureKeeps DEF F1Reject, F1Unreadable, F1Empty, Reasons
<1>3. ASSUME F1Unvalued PROVE ScoreHolds'
  <2> DEFINE a == Answer("prices")
             missing == [Failure("INSUFFICIENT_DATA", 30, F1Direct \cup F1Market)
                           EXCEPT !.fresh = F1Fresh]
  <2>1. CASE a = "error"
    BY <1>3, <2>1, FailureKeeps DEF F1Unvalued, Reasons
  <2>2. CASE a = "malformed"
    BY <1>3, <2>2, FailureKeeps DEF F1Unvalued, Reasons
  <2>3. CASE a = "unpriced"
    <3>1. F1Fresh \in Freshness
      BY <2>3 DEF F1Fresh, Freshness
    <3>2. Scored(missing) /\ DOMAIN missing = Fields
      BY <3>1, DatedFailureScored DEF Reasons
    <3>3. Conclude(missing)
      BY <1>3, <2>3 DEF F1Unvalued
    <3> HIDE DEF missing
    <3> QED  BY <3>2, <3>3, ScoredIsKept
  <2> QED  BY <1>3, <2>1, <2>2, <2>3 DEF F1Unvalued, Said, Broken
<1>4. ASSUME F1Value PROVE ScoreHolds'
  <2> DEFINE fresh == Answer("prices")
             r == [status |-> IF fresh \in Old THEN "STALE_DATA" ELSE "PARTIAL",
                   risk |-> F1Score,
                   dataConf |-> CASE fresh \in {"LIVE", "CURRENT"} -> 82
                                  [] fresh = "RECENT" -> 72
                                  [] OTHER -> 60,
                   engConf |-> IF req.tokens > 0 THEN 78 ELSE 76,
                   blockers |-> FALSE, conflicts |-> 0, consensus |-> "MULTI_SOURCE",
                   fresh |-> fresh,
                   block |-> IF req.wallets > 0 THEN ReadAt("block") ELSE Nowhere,
                   evidence |-> F1Direct \cup F1Market]
  <2>1. Conclude(r) /\ DOMAIN r = Fields
    BY <1>4 DEF F1Value, Fields
  <2>2. /\ r.status \in {"STALE_DATA", "PARTIAL"} /\ r.fresh = fresh /\ r.risk = F1Score
        /\ r.dataConf \in {82, 72, 60} /\ r.engConf \in {78, 76}
    OBVIOUS
  <2> HIDE DEF r
  <2>3. req \in F1Requests /\ F1Total > 0 /\ fresh \in Freshness
    BY <1>4, RequestOf DEF F1Value, F1ReadAll, Running, Said, Sound, PricesSomething
  <2>4. Scored(r)
    BY <2>2, <2>3, F1ScoreIs DEF Scored, Statuses, USABLE
  <2> QED  BY <2>1, <2>4, ScoredIsKept
<1> QED  BY <1>1, <1>2, <1>3, <1>4 DEF F1Next

\* The scores of F2 are bounded.
LEMMA F2Scores == Sound /\ F2Next => ScoreHolds'
<1> SUFFICES ASSUME Sound, F2Next PROVE ScoreHolds'
  OBVIOUS
<1>1. ASSUME F2Protocol \/ F2Native PROVE ScoreHolds'
  BY <1>1, CallScoresNothing DEF F2Protocol, F2Native, Running
<1>2. ASSUME F2Reject PROVE ScoreHolds'
  BY <1>2, FailureKeeps DEF F2Reject, Reasons
<1>3. ASSUME F2Value PROVE ScoreHolds'
  <2> DEFINE r == [status |-> IF F2Fresh \in Old THEN "STALE_DATA" ELSE "PARTIAL",
                   risk |-> F2Score, dataConf |-> F2DataConfidence,
                   engConf |-> IF NativeRequested THEN 75 ELSE 65,
                   blockers |-> FALSE, conflicts |-> 0, consensus |-> "MULTI_SOURCE",
                   fresh |-> F2Fresh, block |-> Nowhere, evidence |-> F2Evidence]
  <2>1. Conclude(r) /\ DOMAIN r = Fields
    BY <1>3 DEF F2Value, Fields
  <2>2. /\ r.status \in {"STALE_DATA", "PARTIAL"} /\ r.fresh = F2Fresh /\ r.risk = F2Score
        /\ r.dataConf = F2DataConfidence /\ r.engConf \in {75, 65}
    OBVIOUS
  <2> HIDE DEF r
  <2>3. F2Score \in 0 .. 100 /\ F2DataConfidence \in 0 .. 100
    BY NativeScores DEF F2Score, F2DataConfidence, When, MinOf, MaxOf
  <2>4. F2Fresh \in Freshness
    <3>1. \A e \in F2Evidence : e.fresh \in Freshness
      BY <1>3, ExternalEvidence, NativeEvidenceIs DEF F2Evidence, F2Value, Said
    <3>2. F2Evidence # {}
      BY DEF F2Evidence, External
    <3>3. Worst({e.fresh : e \in F2Evidence}) \in Freshness
      BY <3>1, <3>2, WorstShows
    <3> QED  BY <3>3 DEF F2Fresh, Freshness
  <2>5. Scored(r)
    BY <2>2, <2>3, <2>4 DEF Scored, Statuses, USABLE
  <2> QED  BY <2>1, <2>5, ScoredIsKept
<1> QED  BY <1>1, <1>2, <1>3 DEF F2Next

\* The scores of F3 are bounded.
LEMMA F3Scores == Sound /\ F3Next => ScoreHolds'
<1> SUFFICES ASSUME Sound, F3Next PROVE ScoreHolds'
  OBVIOUS
<1>1. ASSUME F3Attempt \/ F3Read PROVE ScoreHolds'
  BY <1>1, CallScoresNothing DEF F3Attempt, F3Read, F3Modelled, F3Supported, Running
<1>2. ASSUME F3Unsupported \/ F3Reject PROVE ScoreHolds'
  BY <1>2, FailureKeeps DEF F3Unsupported, F3Reject, Reasons
<1>3. ASSUME F3Authoritative PROVE ScoreHolds'
  <2> DEFINE r == [status |-> "PARTIAL",
                   risk |-> MinOf(100, F3Position + MinOf(20, NativeDelta)),
                   dataConf |-> MaxOf(88, NativeConfidence), engConf |-> 92,
                   blockers |-> F3Liquidatable, conflicts |-> 0, consensus |-> "MULTI_SOURCE",
                   fresh |-> "LIVE", block |-> NativeBlock, evidence |-> NativeEvidence]
  <2>1. Conclude(r) /\ DOMAIN r = Fields
    BY <1>3 DEF F3Authoritative, Fields
  <2>2. /\ r.status = "PARTIAL" /\ r.fresh = "LIVE" /\ r.engConf = 92
        /\ r.risk = MinOf(100, F3Position + MinOf(20, NativeDelta))
        /\ r.dataConf = MaxOf(88, NativeConfidence)
    OBVIOUS
  <2> HIDE DEF r
  <2>3. F3Position \in 22 .. 96
    BY <1>3, HealthIs DEF F3Authoritative, F3Reported, F3Position
  <2>4. MinOf(100, F3Position + MinOf(20, NativeDelta)) \in 0 .. 100
        /\ MaxOf(88, NativeConfidence) \in 0 .. 100
    BY <2>3, NativeScores DEF MinOf, MaxOf
  <2>5. Scored(r)
    BY <2>2, <2>4 DEF Scored, Statuses, USABLE, Freshness
  <2> QED  BY <2>1, <2>5, ScoredIsKept
<1>4. ASSUME F3Value PROVE ScoreHolds'
  <2> DEFINE own == [below |-> 92, near |-> 72, safe |-> 22][req.health]
             r == [status |-> IF F3Conflict THEN "CONFLICTING_DATA"
                              ELSE IF F3Stale THEN "STALE_DATA" ELSE "PARTIAL",
                   risk |-> MinOf(100, own + When(NativeRequested, NativeDelta)),
                   dataConf |-> F3DataConfidence,
                   engConf |-> IF F3NativeFound THEN 84 ELSE 80,
                   blockers |-> req.health = "below",
                   conflicts |-> When(F3Conflict, 1), consensus |-> "MULTI_SOURCE",
                   fresh |-> Answer("collateral"), block |-> ReadAt("block"),
                   evidence |-> F3Evidence]
  <2>1. Conclude(r) /\ DOMAIN r = Fields
    BY <1>4 DEF F3Value, Fields
  <2>2. /\ r.status \in {"CONFLICTING_DATA", "STALE_DATA", "PARTIAL"}
        /\ r.fresh = Answer("collateral") /\ r.engConf \in {84, 80}
        /\ r.risk = MinOf(100, own + When(NativeRequested, NativeDelta))
        /\ r.dataConf = F3DataConfidence
    OBVIOUS
  <2> HIDE DEF r
  <2>3. req.engine = "F3" /\ ~F3Explicit /\ ~F3Down /\ Finished(F3Plan)
    BY <1>4 DEF F3Value, F3Generic, F3Modelled, F3Supported, Running
  <2>4. own \in {92, 72, 22}
    <3>1. req \in F3Requests
      BY <2>3, RequestOf DEF Sound
    <3>2. req.health \in {"below", "near", "safe"}
      BY <3>1 DEF F3Requests
    <3> QED  BY <3>2
  <2> HIDE DEF own
  <2>5. F3DataConfidence \in 0 .. 100
    <3> DEFINE mine == 84 - When(F3Conflict, 12) - When(F3Stale, 15)
               dated == IF Said("collateral", {"UNKNOWN"}) THEN MaxOf(45, mine - 15) ELSE mine
    <3>1. dated \in 45 .. 84
      BY DEF When, MaxOf
    <3>2. F3DataConfidence = IF F3NativeFound THEN MinOf(94, dated + 5) ELSE dated
      BY DEF F3DataConfidence
    <3> HIDE DEF dated
    <3> QED  BY <3>1, <3>2 DEF MinOf
  <2>6. MinOf(100, own + When(NativeRequested, NativeDelta)) \in 0 .. 100
    BY <2>4, NativeScores DEF MinOf, When
  <2>7. Answer("collateral") \in Freshness
    <3>1. Promised \subseteq Heard(DOMAIN got)
      BY <2>3, F3Heard
    <3>2. "collateral" \in InPlan(F3Feeds)
      <4> DEFINE start == <<"rpc", "block", "collateral">>
                 debt == IF req.debt THEN <<"debt">> ELSE <<>>
                 S == {"rpc", "block", "collateral", "debt"}
      <4>1. start \in Seq(S) /\ debt \in Seq(S)
        BY ShortPlans
      <4>2. "collateral" \in InPlan(start)
        <5>1. DOMAIN start = 1 .. 3 /\ 3 \in 1 .. 3 /\ start[3] = "collateral"
          OBVIOUS
        <5> HIDE DEF start
        <5> QED  BY <5>1, OnPlan
      <4>3. F3Feeds = start \o debt
        BY DEF F3Feeds
      <4> HIDE DEF start, debt, S
      <4> QED  BY <4>1, <4>2, <4>3, JoinedPlan
    <3>3. Asked("collateral") /\ Answer("collateral") \notin Broken
      BY <2>3, <3>1, <3>2 DEF Promised, F3Promised, Heard
    <3> QED  BY <2>3, <3>3 DEF Sound, AnswersKnown, CollateralAnswers, Freshness
  <2>8. Scored(r)
    BY <2>2, <2>5, <2>6, <2>7 DEF Scored, Statuses, USABLE
  <2> QED  BY <2>1, <2>8, ScoredIsKept
<1> QED  BY <1>1, <1>2, <1>3, <1>4 DEF F3Next

\* The scores of F4 are bounded.
LEMMA F4Scores == Sound /\ F4Next => ScoreHolds'
<1> SUFFICES ASSUME Sound, F4Next PROVE ScoreHolds'
  OBVIOUS
<1>1. ASSUME F4Pools \/ F4Native PROVE ScoreHolds'
  BY <1>1, CallScoresNothing DEF F4Pools, F4Native, Running
<1>2. ASSUME F4Reject PROVE ScoreHolds'
  <2> DEFINE unmatched == [Failure("INSUFFICIENT_DATA", 30, {}) EXCEPT !.engConf = 40]
             conflict == [Failure("CONFLICTING_DATA", 25, {}) EXCEPT !.consensus = "CONFLICTING"]
  <2>1. /\ Scored(unmatched) /\ DOMAIN unmatched = Fields
        /\ Scored(conflict) /\ DOMAIN conflict = Fields
    BY DEF Failure, Scored, Fields, Statuses, USABLE
  <2>2. ASSUME Conclude(unmatched) \/ Conclude(conflict) PROVE ScoreHolds'
    <3> HIDE DEF unmatched, conflict
    <3> QED  BY <2>1, <2>2, ScoredIsKept
  <2> QED
    <3> HIDE DEF unmatched, conflict
    <3>1. CASE req.input = "malformed"
      BY <1>2, <3>1, FailureKeeps DEF F4Reject, Reasons
    <3>2. CASE req.input # "malformed"
      <4> DEFINE a == Answer("pools")
      <4>1. Said("pools", F4Unfit \cup Broken)
        BY <1>2, <3>2 DEF F4Reject
      <4>2. CASE a \in Broken
        BY <1>2, <3>2, <4>2, FailureKeeps DEF F4Reject, Reasons, Broken
      <4>3. CASE a = "unmatched"
        BY <1>2, <2>2, <3>2, <4>3 DEF F4Reject, unmatched, Broken
      <4>4. CASE a \in {"ambiguous", "unnamed", "unmeasured"}
        BY <1>2, <3>2, <4>4, FailureKeeps DEF F4Reject, Reasons, Broken
      <4>5. CASE a = "contradictory"
        BY <1>2, <2>2, <3>2, <4>5 DEF F4Reject, conflict, Broken
      <4> QED  BY <4>1, <4>2, <4>3, <4>4, <4>5 DEF Said, F4Unfit
    <3> QED  BY <3>1, <3>2
<1>3. ASSUME F4Value PROVE ScoreHolds'
  <2> DEFINE own == [CURRENT |-> 70, RECENT |-> 70, STALE |-> 55, EXPIRED |-> 45, UNKNOWN |-> 62]
                      [Answer("pools")]
             r == [status |-> IF F4Fresh \in Old THEN "STALE_DATA" ELSE "PARTIAL",
                   risk |-> MinOf(100, 20 + When(req.profile = "risky", 80)
                                         + When(NativeRequested, NativeDelta)),
                   dataConf |-> IF F4NativeFound THEN MinOf(92, MaxOf(own, NativeConfidence)) ELSE own,
                   engConf |-> IF F4NativeFound THEN 72 ELSE 62,
                   blockers |-> FALSE, conflicts |-> 0, consensus |-> "MULTI_SOURCE",
                   fresh |-> F4Fresh, block |-> Nowhere, evidence |-> F4Evidence]
  <2>1. Conclude(r) /\ DOMAIN r = Fields
    BY <1>3 DEF F4Value, Fields
  <2>2. Answer("pools") \in F4Dated
    BY <1>3 DEF F4Value, Said
  <2>3. own \in {70, 55, 45, 62}
    BY <2>2 DEF F4Dated
  <2> HIDE DEF own
  <2>4. /\ r.status \in {"STALE_DATA", "PARTIAL"} /\ r.fresh = F4Fresh /\ r.engConf \in {72, 62}
        /\ r.risk \in 0 .. 100 /\ r.dataConf \in 0 .. 100
    BY <2>3, NativeScores DEF MinOf, MaxOf, When
  <2> HIDE DEF r
  <2>5. F4Fresh \in Freshness
    <3>1. \A e \in F4Evidence : e.fresh \in Freshness
      BY <2>2, ExternalEvidence, NativeEvidenceIs DEF F4Evidence, F4Dated, Freshness
    <3>2. F4Evidence # {}
      BY DEF F4Evidence, External
    <3> QED  BY <3>1, <3>2, WorstShows DEF F4Fresh
  <2>6. Scored(r)
    BY <2>4, <2>5 DEF Scored, Statuses, USABLE
  <2> QED  BY <2>1, <2>6, ScoredIsKept
<1> QED  BY <1>1, <1>2, <1>3 DEF F4Next

\* The scores of F5 are bounded.
LEMMA F5Scores == Sound /\ F5Next => ScoreHolds'
<1> SUFFICES ASSUME Sound, F5Next PROVE ScoreHolds'
  OBVIOUS
<1>1. ASSUME F5Prices \/ F5Native PROVE ScoreHolds'
  BY <1>1, CallScoresNothing DEF F5Prices, F5Native, Running
<1>2. ASSUME F5Reject PROVE ScoreHolds'
  <2> DEFINE worthless == [Failure("INSUFFICIENT_DATA", 25, {}) EXCEPT !.engConf = 30]
  <2>1. Scored(worthless) /\ DOMAIN worthless = Fields
    BY DEF Failure, Scored, Fields, Statuses
  <2>2. ASSUME Conclude(worthless) PROVE ScoreHolds'
    <3> HIDE DEF worthless
    <3> QED  BY <2>1, <2>2, ScoredIsKept
  <2> QED
    <3> HIDE DEF worthless
    <3>1. CASE req.input = "malformed"
      BY <1>2, <3>1, FailureKeeps DEF F5Reject, Reasons
    <3>2. CASE req.input # "malformed"
      <4>1. CASE F5Down
        BY <1>2, <3>2, <4>1, FailureKeeps DEF F5Reject, Reasons
      <4>2. CASE ~F5Down /\ F5Incomplete
        <5>1. When(req.priced, 30) \in 0 .. 100
          BY DEF When
        <5>2. Conclude(Failure("INSUFFICIENT_DATA", When(req.priced, 30), {}))
          BY <1>2, <3>2, <4>2 DEF F5Reject
        <5> QED  BY <5>1, <5>2, FailureKeeps DEF Reasons
      <4>3. CASE ~F5Down /\ ~F5Incomplete /\ F5Worthless
        BY <1>2, <2>2, <3>2, <4>3 DEF F5Reject, worthless
      <4>4. CASE ~F5Down /\ ~F5Incomplete /\ ~F5Worthless
        BY <1>2, <3>2, <4>4, FailureKeeps DEF F5Reject, Reasons
      <4> QED  BY <4>1, <4>2, <4>3, <4>4
    <3> QED  BY <3>1, <3>2
<1>3. ASSUME F5Value PROVE ScoreHolds'
  <2> DEFINE other == 100 - req.largest
             index == (req.largest * req.largest + other * other) \div 100
             concentrated == req.largest > 50
             own == IF ~req.priced \/ Said("prices", {"partial"}) THEN 48
                    ELSE IF F5Market \in {"LIVE", "CURRENT"} THEN 72 ELSE 64
             score == MinOf(100, 15 + MinOf(45, (55 * req.largest) \div 100)
                                  + MinOf(20, (35 * index) \div 100)
                                  + When(concentrated, 12) + When(req.stable /\ concentrated, 8)
                                  + When(NativeRequested, MinOf(25, NativeDelta)))
             r == [status |-> IF F5Fresh \in Old THEN "STALE_DATA" ELSE "PARTIAL",
                   risk |-> score,
                   dataConf |-> IF F5NativeFound THEN MinOf(92, MaxOf(own + 8, NativeConfidence)) ELSE own,
                   engConf |-> 68, blockers |-> FALSE, conflicts |-> 0,
                   consensus |-> IF F5Evidence = {} THEN "USER_INPUT_ONLY" ELSE "MULTI_SOURCE",
                   fresh |-> F5Fresh, block |-> Nowhere, evidence |-> F5Evidence]
  <2>1. Conclude(r) /\ DOMAIN r = Fields
    BY <1>3 DEF F5Value, Fields
  <2>2. score \in 0 .. 100
    <3>1. req.largest \in {50, 75}
      <4>1. req \in F5Requests
        BY <1>3, RequestOf DEF F5Value, Running, Sound
      <4> QED  BY <4>1 DEF F5Requests
    <3> DEFINE share == (55 * req.largest) \div 100
               spread == (35 * index) \div 100
    <3>2. share \in Nat
      BY <3>1
    <3>3. spread \in Nat
      <4>1. req.largest * req.largest + other * other \in {5000, 6250}
        BY <3>1
      <4>2. index \in Nat
        <5> HIDE DEF other
        <5> QED  BY <4>1
      <4> HIDE DEF index
      <4> QED  BY <4>2
    <3> HIDE DEF share, spread, concentrated
    <3>4. score = MinOf(100, 15 + MinOf(45, share) + MinOf(20, spread)
                              + When(concentrated, 12) + When(req.stable /\ concentrated, 8)
                              + When(NativeRequested, MinOf(25, NativeDelta)))
      BY DEF share, spread
    <3> HIDE DEF score
    <3>5. /\ MinOf(45, share) \in 0 .. 45 /\ MinOf(20, spread) \in 0 .. 20
          /\ MinOf(25, NativeDelta) \in 0 .. 25
      BY <3>2, <3>3, NativeScores DEF MinOf
    <3>6. /\ When(concentrated, 12) \in 0 .. 12 /\ When(req.stable /\ concentrated, 8) \in 0 .. 8
          /\ When(NativeRequested, MinOf(25, NativeDelta)) \in 0 .. 25
      BY <3>5 DEF When
    <3> QED  BY <3>4, <3>5, <3>6 DEF MinOf
  <2> HIDE DEF score
  <2>3. /\ r.status \in {"STALE_DATA", "PARTIAL"} /\ r.fresh = F5Fresh /\ r.engConf = 68
        /\ r.risk \in 0 .. 100 /\ r.dataConf \in 0 .. 100
    BY <2>2, NativeScores DEF MinOf, MaxOf
  <2> HIDE DEF r
  <2>4. F5Fresh \in Freshness
    <3>1. F5Market \in Freshness
      BY DEF F5Market, Said, Freshness
    <3>2. \A e \in F5Evidence : e.fresh \in Freshness
      BY <3>1, ExternalEvidence, NativeEvidenceIs DEF F5Evidence
    <3>3. CASE F5Evidence = {}
      BY <3>3 DEF F5Fresh, Freshness
    <3>4. CASE F5Evidence # {}
      BY <3>2, <3>4, WorstShows DEF F5Fresh
    <3> QED  BY <3>3, <3>4
  <2>5. Scored(r)
    BY <2>3, <2>4 DEF Scored, Statuses, USABLE
  <2> QED  BY <2>1, <2>5, ScoredIsKept
<1> QED  BY <1>1, <1>2, <1>3 DEF F5Next

\* The scores of B1 are bounded.
LEMMA B1Scores == B1Next => ScoreHolds'
<1> SUFFICES ASSUME B1Next PROVE ScoreHolds'
  OBVIOUS
<1>1. ASSUME B1Read PROVE ScoreHolds'
  BY <1>1, CallScoresNothing DEF B1Read, B1Run, Running
<1>2. ASSUME B1Reject PROVE ScoreHolds'
  BY <1>2, FailureKeeps DEF B1Reject, Reasons
<1>3. ASSUME B1Tenderly \/ B1Dry PROVE ScoreHolds'
  <2>1. PICK r : Conclude(r) /\ Scored(r) /\ DOMAIN r = Fields
    <3>1. CASE B1Tenderly
      <4>1. \E r : Conclude(r) /\ Scored(r) /\ DOMAIN r = Fields
        BY <3>1 DEF B1Tenderly, Fields, Scored, Statuses, USABLE, Freshness
      <4> QED  BY <4>1
    <3>2. CASE B1Dry
      <4>1. \E r : Conclude(r) /\ Scored(r) /\ DOMAIN r = Fields
        BY <3>2 DEF B1Dry, Fields, Scored, Statuses, USABLE, Freshness
      <4> QED  BY <4>1
    <3> QED  BY <1>3, <3>1, <3>2
  <2> QED  BY <2>1, ScoredIsKept
<1> QED  BY <1>1, <1>2, <1>3 DEF B1Next

\* The scores of B2 are bounded.
LEMMA B2Scores == B2Next => ScoreHolds'
<1> SUFFICES ASSUME B2Next PROVE ScoreHolds'
  OBVIOUS
<1>1. ASSUME B2Read PROVE ScoreHolds'
  BY <1>1, CallScoresNothing DEF B2Read, B2Run, Running
<1>2. ASSUME B2Reject PROVE ScoreHolds'
  BY <1>2, FailureKeeps DEF B2Reject, Reasons
<1>3. ASSUME B2Value PROVE ScoreHolds'
  <2> DEFINE r == [status |-> "PARTIAL", risk |-> B2Score,
                   dataConf |-> MaxOf(45, 88 - MinOf(25, 5 * B2Missing)),
                   engConf |-> IF Heard({"scan"}) # {} THEN 82 ELSE 75,
                   blockers |-> B2Malicious, conflicts |-> When(B2Conflict, 1),
                   consensus |-> "MULTI_SOURCE", fresh |-> B2Fresh,
                   block |-> ReadAt("block"), evidence |-> B2Evidence]
  <2>1. Conclude(r) /\ DOMAIN r = Fields
    BY <1>3 DEF B2Value, Fields
  <2>2. /\ r.status = "PARTIAL" /\ r.fresh = B2Fresh /\ r.risk = B2Score
        /\ r.dataConf = MaxOf(45, 88 - MinOf(25, 5 * B2Missing)) /\ r.engConf \in {82, 75}
    OBVIOUS
  <2> HIDE DEF r
  <2>3. B2Score \in 0 .. 100
    BY DEF B2Score, When, MinOf
  <2>4. MaxOf(45, 88 - MinOf(25, 5 * B2Missing)) \in 0 .. 100
    <3>1. B2Missing \in 0 .. 5
      BY DEF B2Missing, When
    <3> QED  BY <3>1 DEF MinOf, MaxOf
  <2>5. B2Fresh \in Freshness
    BY DEF B2Fresh, Freshness
  <2>6. Scored(r)
    BY <2>2, <2>3, <2>4, <2>5 DEF Scored, Statuses, USABLE
  <2> QED  BY <2>1, <2>6, ScoredIsKept
<1> QED  BY <1>1, <1>2, <1>3 DEF B2Next

\* The largest signal of B3 is one of them.
LEMMA B3OwnIs == B3Own \in {10, 55, 60, 65, 88, 90}
<1> DEFINE signals == {10} \cup (IF Said("feed", {"invalid"}) THEN {90} ELSE {})
             \cup (IF Said("feed", {"STALE"}) THEN {65} ELSE {})
             \cup (IF B3Changed("balance", {"drained"}) THEN {60} ELSE {})
             \cup (IF B3Changed("code", {"changed"}) THEN {88} ELSE {})
             \cup (IF B3Changed("supply", {"moved"}) THEN {55} ELSE {})
<1>1. 10 \in signals /\ signals \subseteq {10, 55, 60, 65, 88, 90}
  OBVIOUS
<1>2. B3Own = CHOOSE s \in signals : \A t \in signals : t <= s
  BY DEF B3Own
<1> HIDE DEF signals
<1>3. \E s \in signals : \A t \in signals : t <= s
  <2>1. CASE 90 \in signals
    BY <1>1, <2>1
  <2>2. CASE 90 \notin signals /\ 88 \in signals
    BY <1>1, <2>2
  <2>3. CASE signals \cap {88, 90} = {} /\ 65 \in signals
    BY <1>1, <2>3
  <2>4. CASE signals \cap {65, 88, 90} = {} /\ 60 \in signals
    BY <1>1, <2>4
  <2>5. CASE signals \cap {60, 65, 88, 90} = {} /\ 55 \in signals
    BY <1>1, <2>5
  <2>6. CASE signals \cap {55, 60, 65, 88, 90} = {}
    BY <1>1, <2>6
  <2> QED  BY <2>1, <2>2, <2>3, <2>4, <2>5, <2>6
<1> QED  BY <1>1, <1>2, <1>3

\* The scores of B3 are bounded.
LEMMA B3Scores == Sound /\ B3Next => ScoreHolds'
<1> SUFFICES ASSUME Sound, B3Next PROVE ScoreHolds'
  OBVIOUS
<1>1. ASSUME B3Read PROVE ScoreHolds'
  BY <1>1, CallScoresNothing DEF B3Read, B3Run, Running
<1>2. ASSUME B3Reject PROVE ScoreHolds'
  BY <1>2, FailureKeeps DEF B3Reject, Reasons
<1>3. ASSUME B3Value PROVE ScoreHolds'
  <2> DEFINE r == [status |-> IF B3Stale THEN "STALE_DATA" ELSE "PARTIAL", risk |-> B3Score,
                   dataConf |-> B3DataConfidence,
                   engConf |-> IF B3Scanned THEN IF B3Compared THEN 80 ELSE 68
                               ELSE IF B3Compared THEN 70 ELSE 58,
                   blockers |-> \/ Said("feed", {"invalid"}) \/ B3Malicious
                                \/ B3Changed("code", {"changed"}),
                   conflicts |-> 0, consensus |-> "MULTI_SOURCE", fresh |-> B3Fresh,
                   block |-> ReadAt("block"), evidence |-> B3Evidence]
  <2>1. Conclude(r) /\ DOMAIN r = Fields
    BY <1>3 DEF B3Value, Fields
  <2>2. /\ r.status \in {"STALE_DATA", "PARTIAL"} /\ r.fresh = B3Fresh /\ r.risk = B3Score
        /\ r.dataConf = B3DataConfidence /\ r.engConf \in {80, 68, 70, 58}
    OBVIOUS
  <2> HIDE DEF r
  <2>3. B3Score \in 0 .. 100
    BY B3OwnIs DEF B3Score, MinOf, MaxOf
  <2>4. B3DataConfidence \in 0 .. 100
    BY DEF B3DataConfidence, When, MinOf
  <2>5. B3Fresh \in Freshness
    BY DEF B3Fresh, B3Stale, Freshness, Old
  <2>6. Scored(r)
    BY <2>2, <2>3, <2>4, <2>5 DEF Scored, Statuses, USABLE
  <2> QED  BY <2>1, <2>6, ScoredIsKept
<1> QED  BY <1>1, <1>2, <1>3 DEF B3Next

\* The scores of B4 are bounded.
LEMMA B4Scores == B4Next => ScoreHolds'
<1> SUFFICES ASSUME B4Next PROVE ScoreHolds'
  OBVIOUS
<1>1. ASSUME B4Read PROVE ScoreHolds'
  BY <1>1, CallScoresNothing DEF B4Read, B4Run, Running
<1>2. ASSUME B4Reject PROVE ScoreHolds'
  BY <1>2, FailureKeeps DEF B4Reject, Reasons
<1>3. ASSUME B4Value PROVE ScoreHolds'
  <2> DEFINE r == [status |-> "PARTIAL", risk |-> 10 + When(B4Conflict, 8),
                   dataConf |-> B4DataConfidence, engConf |-> IF B4Labels # {} THEN 62 ELSE 55,
                   blockers |-> FALSE, conflicts |-> When(B4Conflict, 1),
                   consensus |-> "MULTI_SOURCE", fresh |-> B4Fresh, block |-> Nowhere,
                   evidence |-> B4Evidence]
  <2>1. Conclude(r) /\ DOMAIN r = Fields
    BY <1>3 DEF B4Value, Fields
  <2>2. /\ r.status = "PARTIAL" /\ r.fresh = B4Fresh /\ r.risk = 10 + When(B4Conflict, 8)
        /\ r.dataConf = B4DataConfidence /\ r.engConf \in {62, 55}
    OBVIOUS
  <2> HIDE DEF r
  <2>3. 10 + When(B4Conflict, 8) \in 0 .. 100
    BY DEF When
  <2>4. B4DataConfidence \in 0 .. 100
    BY DEF B4DataConfidence, MinOf, MaxOf
  <2>5. B4Fresh \in Freshness
    BY DEF B4Fresh, Freshness
  <2>6. Scored(r)
    BY <2>2, <2>3, <2>4, <2>5 DEF Scored, Statuses, USABLE
  <2> QED  BY <2>1, <2>6, ScoredIsKept
<1> QED  BY <1>1, <1>2, <1>3 DEF B4Next

\* The scores of B5 are bounded.
LEMMA B5Scores == B5Next => ScoreHolds'
<1> SUFFICES ASSUME B5Next PROVE ScoreHolds'
  OBVIOUS
<1>1. ASSUME B5Quote PROVE ScoreHolds'
  BY <1>1, CallScoresNothing DEF B5Quote, Running
<1>2. ASSUME B5Reject PROVE ScoreHolds'
  BY <1>2, FailureKeeps DEF B5Reject, Reasons
<1>3. ASSUME B5Value PROVE ScoreHolds'
  <2> DEFINE matched == [status |-> "PARTIAL",
                         risk |-> 22 + When(Said("quote", {"long"}), 10) + When(req.wide, 12)
                                     + When(req.bridged, 8),
                         dataConf |-> 84, engConf |-> 74, blockers |-> FALSE, conflicts |-> 0,
                         consensus |-> "SINGLE_SOURCE", fresh |-> "UNKNOWN", block |-> Nowhere,
                         evidence |-> B5Evidence]
             mismatch == [Failure("CONFLICTING_DATA", 25, B5Evidence)
                            EXCEPT !.conflicts = B5Conflicts(Answer("quote")), !.fresh = "UNKNOWN"]
  <2>1. Scored(matched) /\ DOMAIN matched = Fields
    BY DEF Fields, Scored, Statuses, USABLE, Freshness, When
  <2>2. Scored(mismatch) /\ DOMAIN mismatch = Fields
    BY DEF Fields, Scored, Statuses, USABLE, Freshness, Failure
  <2>3. Conclude(IF B5Matched THEN matched ELSE mismatch)
    BY <1>3 DEF B5Value
  <2> HIDE DEF matched, mismatch
  <2> QED  BY <2>1, <2>2, <2>3, ScoredIsKept
<1> QED  BY <1>1, <1>2, <1>3 DEF B5Next

\* What F1 holds depends on the request and the calls.
LEMMA SamePrices ==
  ASSUME PricesSomething, UNCHANGED <<req, got>>
  PROVE  PricesSomething'
<1>1. F1Plan' = F1Plan /\ F1Natives' = F1Natives /\ F1Balances' = F1Balances
  BY DEF F1Plan, F1Natives, F1Balances
<1>2. Finished(F1Plan)' = Finished(F1Plan)
  BY <1>1 DEF Finished, Unasked, Asked
<1>3. F1Total' = F1Total
  BY <1>1 DEF F1Total, F1Holdings, InPlan, Said, Asked, Answer, When
<1> QED  BY <1>2, <1>3 DEF PricesSomething, Asked

\* live_*.py: every score and confidence is a percentage whatever adds up to it, every
\* call is of a block the chain had reached, and every status is one of a conclusion.
THEOREM EnginesType == Spec => []TypeOK
<1> DEFINE Inv == PricesSomething /\ ScoreHolds
<1>1. Init => Inv
  BY DEF Init, PricesSomething, Asked, ScoreHolds, Done
<1>2. Sound /\ Inv /\ [Next]_vars => Inv'
  <2> SUFFICES ASSUME Sound, Inv, [Next]_vars PROVE Inv'
    OBVIOUS
  <2>1. CASE UNCHANGED vars
    BY <2>1, SamePrices DEF vars, ScoreHolds, Done, Scored
  <2>2. CASE Advance
    BY <2>2, SamePrices DEF Advance, ScoreHolds, Done
  <2>3. CASE F1Next
    BY <2>3, F1Prices, F1Scores
  <2>4. CASE F2Next \/ F3Next \/ F4Next \/ F5Next \/ B1Next \/ B2Next \/ B3Next \/ B4Next \/ B5Next
    <3>1. req.engine # "F1" /\ req' = req
      BY <2>4, EngineSteps
    <3>2. ScoreHolds'
      BY <2>4, F2Scores, F3Scores, F4Scores, F5Scores, B1Scores, B2Scores, B3Scores, B4Scores,
         B5Scores
    <3> QED  BY <3>1, <3>2 DEF PricesSomething
  <2> QED  BY <2>1, <2>2, <2>3, <2>4 DEF Next, Dispatch
<1>3. Sound /\ Inv => TypeOK
  BY DEF Sound, CallsReached, Reached, ScoreHolds, Scored, Statuses, TypeOK
<1> HIDE DEF Inv
<1> QED  BY <1>1, <1>2, <1>3, CallsAreSound, PTL DEF Spec

=============================================================================
