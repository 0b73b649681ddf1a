------------------------------- MODULE LiveF2 -------------------------------
(***************************************************************************)
(* F2, protocol risk (services/live_f2.py): DefiLlama fundamentals, with   *)
(* protocol-native evidence when it is asked for.                          *)
(***************************************************************************)
EXTENDS ProtocolNative

\* tiny: TVL under a million and no usable audit reference; unaudited: the audit
\* metadata are absent or cannot be used; unhealthy: the last fetch of the
\* provider is not ok.
F2Requests ==
  [engine: {"F2"}, input: {"valid", "malformed"},
   profile: {"sound", "tiny", "unaudited", "unhealthy"},
   native: {NoNative}]
  \cup
  [engine: {"F2"}, input: {"valid"}, profile: {"tiny"}, native: NativeInputs]

\* The age of the last TVL point, which is never LIVE, or "malformed" when that
\* point has no TVL that can be one.
F2Answers == (Freshness \ {"LIVE"}) \cup Broken

F2Protocol ==
  /\ Running("F2") /\ req.input = "valid" /\ ~Asked("protocol")
  /\ Ask("protocol", F2Answers, Nowhere)

F2Reject ==
  /\ Running("F2")
  /\ req.input = "malformed" \/ Fails({"protocol"})
  /\ Conclude(CASE req.input = "malformed" -> Failure("INSUFFICIENT_DATA", 0, {})
                [] Answer("protocol") = "error" -> Failure("PROVIDER_UNAVAILABLE", 0, {})
                [] OTHER -> Failure("INSUFFICIENT_DATA", 20, {}))

F2Native ==
  /\ Running("F2") /\ Said("protocol", Freshness) /\ ~Finished(NativePlan)
  /\ LET c == NextOf(NativePlan) IN Ask(c, NativeAnswers(c), NativeReadAt(c))

F2Unhealthy == req.profile = "unhealthy"
F2Evidence ==
  External("defillama", Answer("protocol")) \cup (IF NativeRequested THEN NativeEvidence ELSE {})

F2Fresh ==
  LET worst == Worst({e.fresh : e \in F2Evidence})
  IN IF F2Unhealthy /\ worst # "EXPIRED" THEN "STALE" ELSE worst

\* Malformed or contradictory metadata never count as an audit.
F2Unaudited == req.profile \in {"tiny", "unaudited"}
F2Score ==
  MinOf(100, 20 + When(req.profile = "tiny", 25) + When(F2Unaudited, 15)
                + When(F2Unhealthy, 20) + When(NativeRequested, NativeDelta))
F2DataConfidence ==
  LET own == IF Answer("protocol") \in {"CURRENT", "RECENT"} THEN 74 ELSE 62
      fetched == IF F2Unhealthy THEN MinOf(own, 50) ELSE own
  IN IF NativeRequested THEN MinOf(94, MaxOf(fetched, NativeConfidence)) ELSE fetched

F2Value ==
  /\ Running("F2") /\ Said("protocol", Freshness) /\ Finished(NativePlan)
  /\ Conclude([status |-> IF F2Fresh \in Old THEN "STALE_DATA" ELSE "PARTIAL",
               risk |-> F2Score, dataConf |-> F2DataConfidence,
               engConf |-> IF NativeRequested THEN 75 ELSE 65,
               blockers |-> FALSE, conflicts |-> 0, consensus |-> "MULTI_SOURCE",
               fresh |-> F2Fresh, block |-> Nowhere, evidence |-> F2Evidence])

F2Next == F2Protocol \/ F2Reject \/ F2Native \/ F2Value
F2Promised == {"protocol"}
=============================================================================
