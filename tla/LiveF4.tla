------------------------------- MODULE LiveF4 -------------------------------
(***************************************************************************)
(* F4, yield and strategy (services/live_f4.py): one DefiLlama pool, never *)
(* the likeliest of several, with protocol-native evidence when declared.  *)
(***************************************************************************)
EXTENDS ProtocolNative

\* profile: the signals the selected pool gives.
F4Requests ==
  [engine: {"F4"}, input: {"valid", "malformed"}, profile: {"sound", "risky"},
   native: {NoNative, Native("none", "UNVERIFIED", FALSE, "latest", "none", FALSE, TRUE),
            Native("none", "UNVERIFIED", FALSE, "invalid", "core", TRUE, TRUE)}
           \cup {Native("none", "UNVERIFIED", FALSE, at, "core", TRUE, FALSE) : at \in {"latest", "past"}}]

F4Dated == {"CURRENT", "RECENT", "UNKNOWN", "STALE", "EXPIRED"}
F4Unfit == {"unmatched", "ambiguous", "unnamed", "unmeasured", "contradictory"}

F4Pools ==
  /\ Running("F4") /\ req.input = "valid" /\ ~Asked("pools")
  /\ Ask("pools", F4Dated \cup F4Unfit \cup Broken, Nowhere)

\* Contradictory optional metrics are a conflict without a SourceConflict, and no
\* evidence is kept of them.
F4Reject ==
  /\ Running("F4")
  /\ req.input = "malformed" \/ Said("pools", F4Unfit \cup Broken)
  /\ Conclude(
       IF req.input = "malformed" THEN Failure("INSUFFICIENT_DATA", 0, {})
       ELSE CASE Answer("pools") \in Broken -> Failure("PROVIDER_UNAVAILABLE", 0, {})
              [] Answer("pools") = "unmatched" ->
                   [Failure("INSUFFICIENT_DATA", 30, {}) EXCEPT !.engConf = 40]
              [] Answer("pools") = "ambiguous" -> Failure("INSUFFICIENT_DATA", 35, {})
              [] Answer("pools") = "unnamed" -> Failure("INSUFFICIENT_DATA", 20, {})
              [] Answer("pools") = "unmeasured" -> Failure("INSUFFICIENT_DATA", 30, {})
              [] OTHER ->
                   [Failure("CONFLICTING_DATA", 25, {}) EXCEPT !.consensus = "CONFLICTING"])

F4Native ==
  /\ Running("F4") /\ Said("pools", F4Dated) /\ ~Finished(NativePlan)
  /\ LET c == NextOf(NativePlan) IN Ask(c, NativeAnswers(c), NativeReadAt(c))

\* Variation: asking for protocol-native evidence is enough.
F4Declared == NativeRequested
F4NativeFound == NativeRequested /\ NativeEvidence # {}

F4Evidence ==
  External("defillama", Answer("pools")) \cup (IF NativeRequested THEN NativeEvidence ELSE {})
F4Fresh == Worst({e.fresh : e \in F4Evidence})

F4Value ==
  /\ Running("F4") /\ Said("pools", F4Dated) /\ Finished(NativePlan)
  /\ LET own == [CURRENT |-> 70, RECENT |-> 70, STALE |-> 55, EXPIRED |-> 45, UNKNOWN |-> 62]
                  [Answer("pools")]
     IN Conclude([status |-> IF F4Fresh \in Old THEN "STALE_DATA" ELSE "PARTIAL",
                  risk |-> MinOf(100, 20 + When(req.profile = "risky", 80)
                                        + When(NativeRequested, NativeDelta)),
                  dataConf |-> IF F4NativeFound THEN MinOf(92, MaxOf(own, NativeConfidence)) ELSE own,
                  engConf |-> IF F4NativeFound THEN 72 ELSE 62,
                  blockers |-> FALSE, conflicts |-> 0, consensus |-> "MULTI_SOURCE",
                  fresh |-> F4Fresh, block |-> Nowhere, evidence |-> F4Evidence])

F4Next == F4Pools \/ F4Reject \/ F4Native \/ F4Value
F4Promised == {"pools"}
=============================================================================
