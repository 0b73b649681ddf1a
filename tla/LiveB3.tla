------------------------------- MODULE LiveB3 -------------------------------
(***************************************************************************)
(* B3, threat monitoring (services/live_b3.py): one snapshot of an entity  *)
(* at one captured block, compared with the previous one.  engines.py      *)
(* first refuses a previous snapshot of another entity or dependency.      *)
(***************************************************************************)
EXTENDS LiveEngine

\* previous: the snapshot the caller brings.
B3Requests ==
  [engine: {"B3"}, input: {"valid", "malformed", "unsupported"},
   previous: {"none", "earlier", "later", "foreign"}, token: BOOLEAN, feed: BOOLEAN,
   blockaid: BOOLEAN]

B3State == <<"rpc", "block", "balance", "code">>
B3Down == Fails(InPlan(B3State))
B3Plan ==
  IF B3Down THEN <<>>
  ELSE B3State \o (IF req.token THEN <<"supply">> ELSE <<>>)
         \o (IF req.feed THEN <<"feed">> ELSE <<>>)
         \o (IF req.blockaid THEN <<"scan">> ELSE <<>>)

B3Answers(c) ==
  CASE c = "rpc" -> {"ok", "error"}
    [] c = "block" -> {"ok"} \cup Broken
    [] c = "balance" -> {"steady", "drained"} \cup Broken
    [] c = "code" -> {"same", "changed", "malformed"}
    [] c = "supply" -> {"steady", "moved", "error"}
    [] c = "feed" -> {"LIVE", "UNKNOWN", "STALE", "invalid", "malformed"}
    [] OTHER -> {"benign", "warning", "malicious", "error"}

B3BlockOf(c) ==
  CASE c \in {"rpc", "scan"} -> Nowhere
    [] c = "block" -> head
    [] OTHER -> ReadAt("block")

\* _b3_snapshot_contract_error
B3Foreign == req.previous = "foreign" /\ req.input # "unsupported"
B3Run == Running("B3") /\ req.input = "valid" /\ ~B3Foreign /\ ~B3Down

B3Read ==
  /\ B3Run /\ ~Finished(B3Plan)
  /\ LET c == NextOf(B3Plan) IN Ask(c, B3Answers(c), B3BlockOf(c))

B3Reject ==
  /\ Running("B3")
  /\ req.input # "valid" \/ B3Foreign \/ B3Down
  /\ Conclude(
       CASE req.input = "unsupported" -> Failure("UNSUPPORTED", 0, {})
         [] req.input = "malformed" \/ B3Foreign -> Failure("INSUFFICIENT_DATA", 0, {})
         [] OTHER -> IF Fails({"rpc"}) THEN Failure("PROVIDER_UNAVAILABLE", 0, {})
                     ELSE Failure("PROVIDER_UNAVAILABLE", 20, External("rpc", "LIVE")))

\* Variation: a snapshot that is not older is compared all the same.
B3ComparedAny == req.previous # "none"
\* Changes are looked for against a snapshot of an earlier block only.
B3Compared == req.previous = "earlier"
B3Changed(c, answers) == B3Compared /\ Said(c, answers)
B3Malicious == Said("scan", {"malicious"})
B3Scanned == Heard({"scan"}) # {}

B3Own ==
  LET signals == {10} \cup (IF Said("feed", {"invalid"}) THEN {90} ELSE {})
        \cup (IF Said("feed", {"STALE"}) THEN {65} ELSE {})
        \cup (IF B3Changed("balance", {"drained"}) THEN {60} ELSE {})
        \cup (IF B3Changed("code", {"changed"}) THEN {88} ELSE {})
        \cup (IF B3Changed("supply", {"moved"}) THEN {55} ELSE {})
  IN CHOOSE s \in signals : \A t \in signals : t <= s
B3Score ==
  MaxOf(B3Own, CASE B3Malicious -> 90
                 [] Said("scan", {"warning"}) -> MinOf(75, B3Own + 35)
                 [] OTHER -> MinOf(75, B3Own))

B3FeedFresh ==
  IF Said("feed", Freshness) THEN Answer("feed")
  ELSE IF Said("feed", {"invalid"}) THEN "LIVE" ELSE "UNKNOWN"
B3Stale == req.feed /\ B3FeedFresh \in Old
B3Fresh ==
  CASE B3Stale -> B3FeedFresh
    [] ~B3Stale /\ ((req.feed /\ B3FeedFresh = "UNKNOWN") \/ B3Scanned) -> "UNKNOWN"
    [] OTHER -> "LIVE"

B3DataConfidence ==
  LET own == IF B3Compared THEN 78 ELSE IF req.previous = "later" THEN 63 ELSE 68
      scanned == IF B3Scanned THEN MinOf(94, own + 10) ELSE own
  IN MinOf(100, scanned + When(req.feed /\ B3FeedFresh = "LIVE", 6))

B3Evidence ==
  External("rpc", "LIVE")
  \cup AtBlock({"block", "balance", "code", "supply"}, ReadAt("block"))
  \cup {Evidence("rpc", ReadAt("block"), ReadAt(c), B3FeedFresh) : c \in Heard({"feed"})}
  \cup {Evidence("blockaid", Nowhere, Nowhere, "UNKNOWN") : c \in Heard({"scan"})}

B3Value ==
  /\ B3Run /\ Finished(B3Plan)
  /\ Conclude([status |-> IF B3Stale THEN "STALE_DATA" ELSE "PARTIAL", risk |-> B3Score,
               dataConf |-> B3DataConfidence,
               engConf |-> IF B3Scanned THEN IF B3Compared THEN 80 ELSE 68
                           ELSE IF B3Compared THEN 70 ELSE 58,
               blockers |-> \/ Said("feed", {"invalid"}) \/ B3Malicious
                            \/ B3Changed("code", {"changed"}),
               conflicts |-> 0, consensus |-> "MULTI_SOURCE", fresh |-> B3Fresh,
               block |-> ReadAt("block"), evidence |-> B3Evidence])

B3Next == B3Read \/ B3Reject \/ B3Value
B3Promised == InPlan(B3State)
=============================================================================
