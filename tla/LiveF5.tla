------------------------------- MODULE LiveF5 -------------------------------
(***************************************************************************)
(* F5, treasury (services/live_f5.py): two allocations valued by declared  *)
(* weights or by market prices, with protocol-native checks.  The first    *)
(* allocation is three quarters of the treasury or half of it.             *)
(***************************************************************************)
EXTENDS ProtocolNative

F5Requests ==
  [engine: {"F5"}, input: {"valid", "malformed"}, weights: {"declared", "zero", "derived"},
   priced: BOOLEAN, largest: {50, 75}, stable: BOOLEAN,
   native: {NoNative, Native("none", "UNVERIFIED", FALSE, "invalid", "core", TRUE, FALSE),
            Native("none", "UNVERIFIED", FALSE, "latest", "core", TRUE, FALSE)}]

\* priced: the allocations name their CoinGecko ids.
F5Asks == req.input = "valid" /\ req.priced

F5Prices ==
  /\ Running("F5") /\ F5Asks /\ ~Asked("prices")
  /\ Ask("prices", Freshness \cup {"partial", "worthless", "error"}, Nowhere)

F5Down == Said("prices", {"error"})
F5Priced == F5Asks => Said("prices", Freshness \cup {"partial", "worthless"})
\* An allocation without a price or without an id has no derived weight.
F5Incomplete == req.weights = "derived" /\ (~req.priced \/ Said("prices", {"partial"}))
F5Worthless == req.weights = "derived" /\ Said("prices", {"worthless"})
F5Unweighed == req.weights = "zero"
F5Rejected == req.input = "malformed" \/ F5Down \/ F5Incomplete \/ F5Worthless \/ F5Unweighed

F5Reject ==
  /\ Running("F5")
  /\ req.input = "malformed" \/ F5Down
       \/ (F5Priced /\ (F5Incomplete \/ F5Worthless \/ F5Unweighed))
  /\ Conclude(
       IF req.input = "malformed" THEN Failure("INSUFFICIENT_DATA", 0, {})
       ELSE CASE F5Down -> Failure("PROVIDER_UNAVAILABLE", 0, {})
              [] ~F5Down /\ F5Incomplete ->
                   Failure("INSUFFICIENT_DATA", When(req.priced, 30), {})
              [] ~F5Down /\ ~F5Incomplete /\ F5Worthless ->
                   [Failure("INSUFFICIENT_DATA", 25, {}) EXCEPT !.engConf = 30]
              [] OTHER -> Failure("INSUFFICIENT_DATA", 0, {}))

F5Native ==
  /\ Running("F5") /\ F5Priced /\ ~F5Rejected /\ ~Finished(NativePlan)
  /\ LET c == NextOf(NativePlan) IN Ask(c, NativeAnswers(c), NativeReadAt(c))

\* One price missing: the market reference is as old as nobody knows.
F5Market == IF Said("prices", Freshness) THEN Answer("prices") ELSE "UNKNOWN"
F5Evidence ==
  (IF req.priced THEN External("coingecko", F5Market) ELSE {})
  \cup (IF NativeRequested THEN NativeEvidence ELSE {})
F5Fresh == IF F5Evidence = {} THEN "UNKNOWN" ELSE Worst({e.fresh : e \in F5Evidence})
\* One protocol-native input stands for the several the code goes through: their
\* deltas are summed under one cap, and the best of their confidences counts.
F5NativeFound == NativeRequested /\ NativeEvidence # {}

F5Value ==
  /\ Running("F5") /\ F5Priced /\ ~F5Rejected /\ Finished(NativePlan)
  /\ LET other == 100 - req.largest
         index == (req.largest * req.largest + other * other) \div 100
         concentrated == req.largest > 50
         own == IF ~req.priced \/ Said("prices", {"partial"}) THEN 48
                ELSE IF F5Market \in {"LIVE", "CURRENT"} THEN 72 ELSE 64
     IN Conclude(
          [status |-> IF F5Fresh \in Old THEN "STALE_DATA" ELSE "PARTIAL",
           risk |-> MinOf(100, 15 + MinOf(45, (55 * req.largest) \div 100)
                                  + MinOf(20, (35 * index) \div 100)
                                  + When(concentrated, 12) + When(req.stable /\ concentrated, 8)
                                  + When(NativeRequested, MinOf(25, NativeDelta))),
           dataConf |-> IF F5NativeFound THEN MinOf(92, MaxOf(own + 8, NativeConfidence)) ELSE own,
           engConf |-> 68, blockers |-> FALSE, conflicts |-> 0,
           consensus |-> IF F5Evidence = {} THEN "USER_INPUT_ONLY" ELSE "MULTI_SOURCE",
           fresh |-> F5Fresh, block |-> Nowhere, evidence |-> F5Evidence])

F5Next == F5Prices \/ F5Reject \/ F5Native \/ F5Value
F5Promised == IF req.priced THEN {"prices"} ELSE {}
=============================================================================
