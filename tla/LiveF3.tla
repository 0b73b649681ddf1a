------------------------------- MODULE LiveF3 -------------------------------
(***************************************************************************)
(* F3, position and liquidation (services/live_f3.py).  A caller who names *)
(* a protocol adapter and a user wants the position the protocol reports;  *)
(* everyone else models one from oracle feeds at one captured block.       *)
(***************************************************************************)
EXTENDS ProtocolNative

\* health: where the caller's quantities put the health factor.
F3Requests ==
  LET contract == Native("none", "UNVERIFIED", FALSE, "latest", "core", TRUE, FALSE)
  IN [engine: {"F3"}, input: {"valid", "malformed", "unsupported"},
      health: {"below", "near", "safe"}, debt: BOOLEAN, market: BOOLEAN, native: {NoNative}]
     \cup
     [engine: {"F3"}, input: {"valid"}, health: {"safe"}, debt: {FALSE}, market: {FALSE},
      native: AdapterInputs \cup {contract}]

F3Explicit == AdapterRequested /\ req.native.user
\* The authoritative branch collects first, the modelled one last.
F3Attempted == F3Explicit => Finished(NativePlan)
F3Reported ==
  F3Explicit /\ Finished(NativePlan) /\ NativeCaptured /\ ~AdapterFailed /\ Health # "unread"

F3Feeds == <<"rpc", "block", "collateral">> \o (IF req.debt THEN <<"debt">> ELSE <<>>)
F3Down == Fails(InPlan(F3Feeds))
F3Plan ==
  IF F3Down THEN <<>>
  ELSE F3Feeds \o (IF req.market THEN <<"market">> ELSE <<>>)
         \o (IF NativeRequested /\ ~F3Explicit THEN NativePlan ELSE <<>>)

F3Answers(c) ==
  CASE c = "rpc" -> {"ok", "error"}
    [] c = "block" -> {"ok"} \cup Broken
    [] c \in {"collateral", "debt"} -> {"LIVE", "UNKNOWN", "STALE"} \cup Broken
    [] c = "market" -> {"LIVE", "EXPIRED", "differs"} \cup Broken
    [] OTHER -> NativeAnswers(c)

F3BlockOf(c) ==
  CASE c \in {"rpc", "market"} -> Nowhere
    [] c = "block" -> head
    [] c \in {"collateral", "debt"} -> ReadAt("block")
    [] OTHER -> NativeReadAt(c)

F3Supported == Running("F3") /\ req.input # "unsupported"

F3Unsupported ==
  /\ Running("F3") /\ req.input = "unsupported"
  /\ Conclude(Failure("UNSUPPORTED", 0, {}))

F3Attempt ==
  /\ F3Supported /\ F3Explicit /\ ~Finished(NativePlan)
  /\ LET c == NextOf(NativePlan) IN Ask(c, NativeAnswers(c), NativeReadAt(c))

F3Liquidatable ==
  Health = "below" \/ (Health = "at" /\ req.native.adapter # "compound_v3")
F3Position ==
  IF req.native.adapter = "compound_v3" THEN IF F3Liquidatable THEN 96 ELSE 22
  ELSE [below |-> 95, at |-> 95, close |-> 86, near |-> 72, safe |-> 22][Health]

F3Authoritative ==
  /\ F3Supported /\ F3Reported
  /\ Conclude([status |-> "PARTIAL",
               risk |-> MinOf(100, F3Position + MinOf(20, NativeDelta)),
               dataConf |-> MaxOf(88, NativeConfidence), engConf |-> 92,
               blockers |-> F3Liquidatable, conflicts |-> 0, consensus |-> "MULTI_SOURCE",
               fresh |-> "LIVE", block |-> NativeBlock, evidence |-> NativeEvidence])

F3Modelled == F3Supported /\ F3Attempted /\ ~F3Reported

F3Read ==
  /\ F3Modelled /\ req.input = "valid" /\ ~Finished(F3Plan)
  /\ LET c == NextOf(F3Plan) IN Ask(c, F3Answers(c), F3BlockOf(c))

\* _enforce_explicit_f3_adapter_contract discards what the modelled path found.
F3Generic == F3Modelled /\ req.input = "valid" /\ ~F3Explicit

\* Variation: nothing is said for an adapter that found no position.
F3RejectedDown == req.input = "malformed" \/ F3Down
F3Rejected == req.input = "malformed" \/ F3Down \/ (F3Explicit /\ Finished(F3Plan))

F3Reject ==
  /\ F3Modelled
  /\ F3Rejected
  /\ Conclude(Failure(IF F3Down THEN "PROVIDER_UNAVAILABLE" ELSE "INSUFFICIENT_DATA", 0, {}))

F3Conflict == Said("market", {"differs"})
F3NativeFound == NativeRequested /\ (NativeDirect => NativeCaptured)
F3Evidence ==
  AtBlock({"block"}, ReadAt("block"))
  \cup {Evidence("rpc", ReadAt("block"), ReadAt(c), Answer(c)) : c \in Heard({"collateral", "debt"})}
  \cup {Evidence("coingecko", Nowhere, Nowhere, IF F3Conflict THEN "LIVE" ELSE Answer(c)) :
          c \in Heard({"market"})}
  \cup (IF NativeRequested THEN NativeEvidence ELSE {})

\* The collateral's feed alone decides the freshness and the status.
F3Stale == ~F3Conflict /\ Said("collateral", Old)
F3DataConfidence ==
  LET own == 84 - When(F3Conflict, 12) - When(F3Stale, 15)
      dated == IF Said("collateral", {"UNKNOWN"}) THEN MaxOf(45, own - 15) ELSE own
  IN IF F3NativeFound THEN MinOf(94, dated + 5) ELSE dated

F3Value ==
  /\ F3Generic /\ ~F3Down /\ Finished(F3Plan)
  /\ Conclude([status |-> IF F3Conflict THEN "CONFLICTING_DATA"
                          ELSE IF F3Stale THEN "STALE_DATA" ELSE "PARTIAL",
               risk |-> MinOf(100, [below |-> 92, near |-> 72, safe |-> 22][req.health]
                                     + When(NativeRequested, NativeDelta)),
               dataConf |-> F3DataConfidence,
               engConf |-> IF F3NativeFound THEN 84 ELSE 80,
               blockers |-> req.health = "below",
               conflicts |-> When(F3Conflict, 1), consensus |-> "MULTI_SOURCE",
               fresh |-> Answer("collateral"), block |-> ReadAt("block"),
               evidence |-> F3Evidence])

F3Next == F3Unsupported \/ F3Attempt \/ F3Authoritative \/ F3Read \/ F3Reject \/ F3Value

\* What the caller asked to be read and no result may do without.
F3Promised == IF F3Explicit THEN {"a.position"} ELSE InPlan(F3Feeds)
=============================================================================
