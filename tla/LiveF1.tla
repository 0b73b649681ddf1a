------------------------------- MODULE LiveF1 -------------------------------
(***************************************************************************)
(* F1, portfolio and exposure (services/live_f1.py): declared positions,   *)
(* direct balances of wallets at one captured block, one market reference. *)
(* A manual position holds three units, an observed balance one; every     *)
(* asset is priced at one.                                                 *)
(***************************************************************************)
EXTENDS LiveEngine

F1Requests ==
  [engine: {"F1"}, input: {"valid", "malformed", "unsupported"},
   manual: {"none", "native", "other"}, wallets: 0 .. 2, tokens: 0 .. 1]

F1Natives == SubSeq(<<"native1", "native2">>, 1, req.wallets)
F1Balances == SubSeq(<<"balance1", "balance2">>, 1, req.wallets)

\* The balance reads of one run, in order.
F1Plan ==
  IF req.wallets = 0 THEN <<>>
  ELSE <<"rpc", "block">> \o F1Natives
         \o (IF req.tokens = 0 THEN <<>> ELSE <<"decimals">> \o F1Balances)

F1Invalid ==
  \/ req.input = "malformed"
  \/ req.tokens > 0 /\ req.wallets = 0
F1Unsupported == req.input = "unsupported" /\ req.wallets > 0

F1Answers(c) ==
  CASE c = "rpc" -> {"ok", "error"}
    [] c \in {"block", "decimals"} -> {"ok"} \cup Broken
    [] OTHER -> {"zero", "some"} \cup Broken

F1BlockOf(c) ==
  IF c = "rpc" THEN Nowhere ELSE IF c = "block" THEN head ELSE ReadAt("block")

\* Variation: a wallet or token that cannot be read is left out.
F1LostNothing == FALSE
F1Lost == Fails(InPlan(F1Plan))

F1Read ==
  /\ Running("F1") /\ ~F1Invalid /\ ~F1Unsupported
  /\ ~F1Lost /\ ~Finished(F1Plan)
  /\ LET c == NextOf(F1Plan) IN Ask(c, F1Answers(c), F1BlockOf(c))

F1Direct == AtBlock(InPlan(F1Plan) \ {"rpc"}, ReadAt("block"))

F1Reject ==
  /\ Running("F1")
  /\ F1Invalid \/ F1Unsupported
  /\ Conclude(Failure(IF F1Invalid THEN "INSUFFICIENT_DATA" ELSE "UNSUPPORTED", 0, {}))

F1Unreadable ==
  /\ Running("F1") /\ ~F1Invalid /\ ~F1Unsupported
  /\ F1Lost
  /\ Conclude(Failure("PROVIDER_UNAVAILABLE", 0, F1Direct))

\* Exposures, one per economic asset: a manual position in the chain's native
\* asset and the wallets' balances of it are one exposure.
F1Holdings ==
  LET count(calls) == Cardinality({c \in InPlan(calls) : Said(c, {"some"})})
  IN [native |-> When(req.manual = "native", 3) + count(F1Natives),
      token |-> count(F1Balances),
      other |-> When(req.manual = "other", 3)]
F1Total == F1Holdings.native + F1Holdings.token + F1Holdings.other
F1ReadAll ==
  Running("F1") /\ ~F1Invalid /\ ~F1Unsupported /\ ~F1Lost /\ Finished(F1Plan)

F1Empty ==
  /\ F1ReadAll /\ F1Total = 0
  /\ Conclude(Failure("INSUFFICIENT_DATA", 0, {}))

F1Price ==
  /\ F1ReadAll /\ F1Total > 0
  /\ ~Asked("prices")
  /\ Ask("prices", Freshness \cup Broken \cup {"unpriced"}, Nowhere)

\* A missing row is a missing timestamp too.
F1Fresh == IF Answer("prices") = "unpriced" THEN "UNKNOWN" ELSE Answer("prices")
F1Market == External("coingecko", F1Fresh)

F1Unvalued ==
  /\ F1ReadAll /\ Said("prices", Broken \cup {"unpriced"})
  /\ Conclude(CASE Answer("prices") = "error" -> Failure("PROVIDER_UNAVAILABLE", 35, F1Direct)
                [] Answer("prices") = "malformed" -> Failure("PROVIDER_UNAVAILABLE", 0, F1Direct)
                [] OTHER -> [Failure("INSUFFICIENT_DATA", 30, F1Direct \cup F1Market)
                               EXCEPT !.fresh = F1Fresh])

F1Largest ==
  LET largest == MaxOf(F1Holdings.native, MaxOf(F1Holdings.token, F1Holdings.other))
  IN (100 * largest) \div F1Total
F1Squares == F1Holdings.native ^ 2 + F1Holdings.token ^ 2 + F1Holdings.other ^ 2
\* Variation: the diversification malus comes after the cap.
F1ScoreUncapped == MaxOf(10, F1Largest) + When(2 * F1Squares > F1Total ^ 2, 10)
F1Score == MinOf(100, MaxOf(10, F1Largest) + When(2 * F1Squares > F1Total ^ 2, 10))

F1Value ==
  /\ F1ReadAll /\ Said("prices", Freshness)
  /\ LET fresh == Answer("prices")
     IN Conclude([status |-> IF fresh \in Old THEN "STALE_DATA" ELSE "PARTIAL",
                  risk |-> F1Score,
                  dataConf |-> CASE fresh \in {"LIVE", "CURRENT"} -> 82
                                 [] fresh = "RECENT" -> 72
                                 [] OTHER -> 60,
                  engConf |-> IF req.tokens > 0 THEN 78 ELSE 76,
                  blockers |-> FALSE, conflicts |-> 0, consensus |-> "MULTI_SOURCE",
                  fresh |-> fresh,
                  block |-> IF req.wallets > 0 THEN ReadAt("block") ELSE Nowhere,
                  evidence |-> F1Direct \cup F1Market])

F1Next == \/ F1Read \/ F1Reject \/ F1Unreadable \/ F1Empty
          \/ F1Price \/ F1Unvalued \/ F1Value

\* Every read the caller asked for.
F1Promised == InPlan(F1Plan) \cup {"prices"}
=============================================================================
