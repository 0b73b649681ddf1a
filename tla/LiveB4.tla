------------------------------- MODULE LiveB4 -------------------------------
(***************************************************************************)
(* B4, entity and fund flow (services/live_b4.py): the balance at one      *)
(* captured block, indexed history, and the labels of Nansen and Arkham.   *)
(***************************************************************************)
EXTENDS LiveEngine

B4Requests ==
  [engine: {"B4"}, input: {"valid", "malformed", "unsupported"}, indexed: BOOLEAN,
   nansen: BOOLEAN, arkham: BOOLEAN]

B4State == <<"rpc", "block", "balance">>
B4Down == Fails(InPlan(B4State))
\* Both pages are fetched before either is looked at.
B4Plan ==
  IF B4Down THEN <<>>
  ELSE B4State
         \o (IF ~req.indexed THEN <<>>
             ELSE <<"normal">> \o (IF Said("normal", {"error"}) THEN <<>> ELSE <<"tokens">>))
         \o (IF req.nansen THEN <<"nansen">> ELSE <<>>)
         \o (IF req.arkham THEN <<"arkham">> ELSE <<>>)

B4Answers(c) ==
  CASE c = "rpc" -> {"ok", "error"}
    [] c \in {"block", "balance"} -> {"ok"} \cup Broken
    [] c \in {"normal", "tokens"} -> {"rows", "dirty", "none"} \cup Broken
    [] OTHER -> {"alice", "bob", "unlabelled"} \cup Broken

B4BlockOf(c) ==
  CASE c = "block" -> head
    [] c = "balance" -> ReadAt("block")
    [] OTHER -> Nowhere

B4Run == Running("B4") /\ req.input = "valid" /\ ~B4Down

B4Read ==
  /\ B4Run /\ ~Finished(B4Plan)
  /\ LET c == NextOf(B4Plan) IN Ask(c, B4Answers(c), B4BlockOf(c))

B4Reject ==
  /\ Running("B4")
  /\ req.input # "valid" \/ B4Down
  /\ Conclude(Failure(CASE req.input = "unsupported" -> "UNSUPPORTED"
                        [] req.input = "malformed" -> "INSUFFICIENT_DATA"
                        [] OTHER -> "PROVIDER_UNAVAILABLE", 0, {}))

\* The history is evidence when both pages are read; the rows of the first one
\* are counted although the second cannot be.
B4History == req.indexed /\ {"normal", "tokens"} \subseteq Heard({"normal", "tokens"})
B4Rows == {c \in {"normal", "tokens"} : Said(c, {"rows", "dirty"}) /\ (c = "tokens" => ~Fails({"normal"}))}
B4CountedRows == IF Fails({"tokens"}) /\ Said("tokens", {"error"}) THEN {} ELSE B4Rows
B4Dirty == \E c \in B4CountedRows : Said(c, {"dirty"})
B4Labels == {Answer(c) : c \in {c \in {"nansen", "arkham"} : Said(c, {"alice", "bob"})}}
B4Conflict == Cardinality(B4Labels) > 1
B4Labelled == Heard({"nansen", "arkham"}) # {}

B4DataConfidence ==
  LET own == IF B4CountedRows # {} THEN 82 ELSE 58
      clean == IF B4Dirty THEN MaxOf(35, own - 10) ELSE own
      labelled == IF B4Labels # {} THEN MinOf(94, clean + 7) ELSE clean
  IN IF B4Conflict THEN MaxOf(35, labelled - 20) ELSE labelled

B4Evidence ==
  AtBlock({"balance"}, ReadAt("block"))
  \cup (IF B4History THEN External("etherscan", "UNKNOWN") ELSE {})
  \cup {Evidence(c, Nowhere, Nowhere, "UNKNOWN") : c \in Heard({"nansen", "arkham"})}
\* Variation: the state of the chain is what counts.
B4FreshState == "LIVE"
B4Fresh == IF B4History \/ B4Labelled THEN "UNKNOWN" ELSE "LIVE"

B4Value ==
  /\ B4Run /\ Finished(B4Plan)
  /\ Conclude([status |-> "PARTIAL", risk |-> 10 + When(B4Conflict, 8),
               dataConf |-> B4DataConfidence, engConf |-> IF B4Labels # {} THEN 62 ELSE 55,
               blockers |-> FALSE, conflicts |-> When(B4Conflict, 1),
               consensus |-> "MULTI_SOURCE", fresh |-> B4Fresh, block |-> Nowhere,
               evidence |-> B4Evidence])

B4Next == B4Read \/ B4Reject \/ B4Value
B4Promised == InPlan(B4State)
=============================================================================
