------------------------------- MODULE Engines -------------------------------
(***************************************************************************)
(* The ten live engines behind one dispatch (engines.py, _run_live): what  *)
(* every one of them owes the caller, whatever its providers answer and    *)
(* however far the chain goes meanwhile.                                   *)
(***************************************************************************)
EXTENDS LiveF1, LiveF2, LiveF3, LiveF4, LiveF5, LiveB1, LiveB2, LiveB3, LiveB4, LiveB5,
        Decision

Requests ==
  UNION {F1Requests, F2Requests, F3Requests, F4Requests, F5Requests,
         B1Requests, B2Requests, B3Requests, B4Requests, B5Requests}

Init ==
  /\ req \in Requests
  /\ head = Past + 1
  /\ got = <<>>
  /\ result = None

Dispatch ==
  \/ F1Next \/ F2Next \/ F3Next \/ F4Next \/ F5Next
  \/ B1Next \/ B2Next \/ B3Next \/ B4Next \/ B5Next

Next == Advance \/ Dispatch
Spec == Init /\ [][Next]_vars /\ WF_vars(Dispatch)

-----------------------------------------------------------------------------
(* What a result owes the caller *)

Done == result # None
Usable == Done /\ result.status \in USABLE

\* Every read the caller asked for or the score rests on.
Promised ==
  CASE req.engine = "F1" -> F1Promised [] req.engine = "F2" -> F2Promised
    [] req.engine = "F3" -> F3Promised [] req.engine = "F4" -> F4Promised
    [] req.engine = "F5" -> F5Promised [] req.engine = "B1" -> B1Promised
    [] req.engine = "B2" -> B2Promised [] req.engine = "B3" -> B3Promised
    [] req.engine = "B4" -> B4Promised [] OTHER -> B5Promised

UsesAdapter == req.engine \in {"F2", "F3", "F4", "F5"} /\ AdapterRequested

\* The state of an engine: calls are answered at
\* blocks the chain has reached, a result has bounded scores.
TypeOK ==
  /\ head \in Past + 1 .. MaxHead
  /\ \A c \in DOMAIN got : got[c].at \in {Nowhere, Past - 1} \cup Past .. head
  /\ Done => /\ result.status \in USABLE \cup
                   {"INSUFFICIENT_DATA", "PROVIDER_UNAVAILABLE", "UNSUPPORTED"}
             /\ {result.risk, result.dataConf, result.engConf} \subseteq 0 .. 100
             /\ result.fresh \in Freshness \cup {"NONE"}

\* A result that carries a score rests on every read the caller asked for: one
\* wallet, token, feed or position that cannot be read leaves no result that
\* passes the others off as the whole (the all-or-nothing rule of live_f1.py, the
\* explicit adapter contract of engines.py, the captured block of the others).
NothingPartial == Usable => Promised \subseteq Heard(DOMAIN got)

\* Contract state that is claimed to be of one block was read at that block, while
\* the chain went on between the calls: the balances, the feeds, the code and the
\* slots of one result are one snapshot.  Left out are the reads the code does not
\* pin: B1's dry run, and adapters without at_block (protocol_adapters.py reads
\* them at the latest block and claims the one it found first).
SnapshotIsPinned ==
  Usable /\ req.engine # "B1" /\ (UsesAdapter => req.native.at = "past") =>
    \A e \in result.evidence :
      e.from = "rpc" /\ e.block # Nowhere => e.read = e.block

\* A result is never called fresher than the oldest piece of evidence it lists
\* (F3 and B1 answer for one observation of many).
FreshnessIsHonest ==
  Usable /\ req.engine \notin {"F3", "B1"} =>
    \A e \in result.evidence : Rank[e.fresh] <= Rank[result.fresh]

\* Old evidence closes the gate: a result that lists an observation past its
\* age is STALE_DATA, whatever else the engine found.
OldEvidenceGates ==
  Usable /\ req.engine \in {"F1", "F2", "F4", "F5", "B3"}
    /\ (\E e \in result.evidence : e.fresh \in Old) => result.status = "STALE_DATA"

\* The age of the evidence a result lists shows in its freshness and in its status.
AgeIsHonest == FreshnessIsHonest /\ OldEvidenceGates

\* The other half, which the code does not keep: history that B4 counts, and that
\* raises its data confidence, shows in its freshness although the page after it
\* could not be read and no evidence is listed of either ("aggregate freshness
\* remains UNKNOWN when such evidence is consumed", live_b4.py).
ConsumedHistoryShows ==
  Usable /\ req.engine = "B4" /\ B4CountedRows # {} => result.fresh = "UNKNOWN"

\* Providers said what cannot both be so, or the quote is not of the request.
Contradicted ==
  LET labels == {c \in {"nansen", "arkham"} : Said(c, {"alice", "bob"})}
  IN CASE req.engine = "B2" -> Said("code", {"proxy"}) /\ Said("source", {"other"})
       [] req.engine = "B4" -> \E c, d \in labels : Answer(c) # Answer(d)
       [] req.engine = "B5" -> Said("quote", {"identity", "economics", "structure", "several"})
       [] req.engine = "F3" -> Said("market", {"differs"})
       [] req.engine = "F4" -> Said("pools", {"contradictory"})
       [] OTHER -> FALSE

\* Providers that contradict each other, a quote that contradicts the request or a
\* pool that contradicts itself are never resolved by preferring one side: the
\* result says so, and neither quote nor pool gets a score.  F4 keeps no evidence
\* of its pool, so the dispatch makes UNAVAILABLE of its consensus.
ConflictIsSaid ==
  Usable /\ Contradicted =>
    /\ result.status = "CONFLICTING_DATA"
    /\ req.engine # "F4" => result.consensus = "CONFLICTING"
    /\ req.engine \in {"B5", "F4"} => result.risk = 0

\* A confidence that protocol-native evidence raises has that evidence: asking for
\* it is not enough (F4, F5).
ConfidenceIsEarned ==
  Usable /\ req.engine \in {"F4", "F5"}
    /\ (IF req.engine = "F4" THEN result.engConf > 62 ELSE result.dataConf > 72)
  => \E e \in result.evidence : e.from \notin {"defillama", "coingecko"}

\* A change is found only against a snapshot of an earlier block: without one, the
\* alarm of B3 comes from the feed or from the scan.
ChangeNeedsThePast ==
  Usable /\ req.engine = "B3" /\ req.previous # "earlier"
    /\ ~Said("feed", {"STALE", "invalid"}) /\ ~Said("scan", {"warning", "malicious"})
  => ~result.blockers /\ result.risk = 10

\* The stored result, and what a caller may say of it when he asks for a decision.
StoredResult ==
  [id |-> "live", engine |-> req.engine, status |-> result.status, risk |-> result.risk,
   dataConf |-> result.dataConf, engConf |-> result.engConf, blockers |-> result.blockers,
   conflicts |-> result.conflicts]
Claims == {StoredResult, [StoredResult EXCEPT !.status = "COMPLETED", !.risk = 0, !.blockers = FALSE]}

\* Demonstration results that may stand beside the live one.
Companions ==
  LET calm == DemoResult("d1", "F3", 20, FALSE, 0)
      risky == DemoResult("d2", "B1", 65, FALSE, 0)
      split == DemoResult("d3", "B4", 35, FALSE, 1)
  IN  {<<>>, <<calm>>, <<calm, risky>>, <<risky, split>>}

\* What is stored under the ids of some results, which tell them apart.
StoredOf(all) ==
  [id \in {all[i].id : i \in DOMAIN all} |-> CHOOSE r \in {all[i] : i \in DOMAIN all} : r.id = id]

\* Live evidence never says go: beside whatever completed demonstration runs, and
\* whatever the caller claims of it, a live result leads to no PROCEED or MODIFY,
\* and one with a blocker to AVOID (unless its engine is there twice).
FailsClosed ==
  Done => \A others \in Companions, claim \in Claims :
    LET all == Append(others, StoredResult)
        verdict == AnalyzeDecision(Append(others, claim), StoredOf(all)).decision
    IN  /\ verdict \in {"WAIT", "AVOID", "UNKNOWN"}
        /\ Usable /\ result.blockers /\ ~Duplicated(all) => verdict = "AVOID"

\* Whatever the providers answer, an engine comes to a result.
Concludes == <>Done

\* A simulated transaction is called reverting because a provider ran it: a
\* provider that does not answer is not a revert (live_b1.py takes any failure of
\* eth_call for one).
RevertWasRun ==
  Usable /\ req.engine = "B1" /\ result.blockers =>
    Said("simulate", {"revert"}) \/ Said("dryrun", {"revert"})
=============================================================================
