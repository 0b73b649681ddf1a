------------------------------- MODULE LiveB2 -------------------------------
(***************************************************************************)
(* B2, transaction and contract security (services/live_b2.py): approvals  *)
(* in the calldata, the code at one captured block, the explorer's source  *)
(* metadata and Blockaid's verdict (services/security_intel.py).           *)
(***************************************************************************)
EXTENDS LiveEngine

\* approval: the calldata approves without a limit; sender: it has a from
\* address; a request without a target needs a transaction hash to find one.
B2Requests ==
  {r \in [engine: {"B2"}, input: {"valid", "malformed", "unsupported"}, hash: BOOLEAN,
          target: BOOLEAN, approval: BOOLEAN, sender: BOOLEAN, explorer: BOOLEAN,
          blockaid: BOOLEAN] :
     /\ r.target \/ r.hash
     /\ r.input # "valid" => r.target /\ r.explorer /\ r.blockaid}

B2State == <<"rpc", "block">> \o (IF req.hash THEN <<"tx">> ELSE <<>>)
B2Found == Said("tx", {"found"})
B2Target == req.target \/ B2Found
B2Sender == req.sender \/ B2Found
B2Code == Said("code", {"code", "proxy"})
B2Down == Fails(InPlan(B2State))
\* Nothing to look at: no target, or a transaction whose addresses are malformed.
B2Nothing == Said("tx", {"misaddressed"}) \/ (Finished(B2State) /\ ~B2Target)
B2Plan ==
  IF B2Down THEN <<>>
  ELSE B2State
       \o (IF Finished(B2State) /\ ~B2Nothing
             THEN <<"code">> \o (IF B2Code /\ req.explorer THEN <<"source">> ELSE <<>>)
                    \o (IF Asked("code") /\ req.blockaid THEN <<"scan">> ELSE <<>>)
             ELSE <<>>)

B2Answers(c) ==
  CASE c = "rpc" -> {"ok", "error"}
    [] c = "block" -> {"ok"} \cup Broken
    [] c = "tx" -> {"found", "absent", "misaddressed"} \cup Broken
    [] c = "code" -> {"code", "proxy", "empty"} \cup Broken
    [] c = "source" -> {"verified", "unverified", "other"} \cup Broken
    [] OTHER -> {"benign", "warning", "malicious", "error"}

B2BlockOf(c) ==
  CASE c \in {"rpc", "tx", "source"} -> Nowhere
    [] c = "block" -> head
    [] c = "code" -> ReadAt("block")
    [] OTHER -> IF B2Sender THEN ReadAt("block") ELSE Nowhere

B2Run == Running("B2") /\ req.input = "valid" /\ ~B2Down

B2Read ==
  /\ B2Run /\ ~Finished(B2Plan)
  /\ LET c == NextOf(B2Plan) IN Ask(c, B2Answers(c), B2BlockOf(c))

B2Reject ==
  /\ Running("B2")
  /\ req.input # "valid" \/ B2Down \/ B2Nothing
  /\ Conclude(Failure(CASE req.input = "unsupported" -> "UNSUPPORTED"
                        [] req.input = "malformed" -> "INSUFFICIENT_DATA"
                        [] req.input = "valid" /\ B2Down -> "PROVIDER_UNAVAILABLE"
                        [] OTHER -> "INSUFFICIENT_DATA", 0, {}))

\* The explorer names another implementation than the bytecode does.
B2Conflict == Said("code", {"proxy"}) /\ Said("source", {"other"})
B2Proxy == Said("code", {"proxy"}) \/ Said("source", {"other"})
B2Malicious == Said("scan", {"malicious"})

B2Score ==
  MinOf(100, 8 + When(req.approval, 52) + When(Said("source", {"unverified"}), 24)
               + When(B2Conflict, 15) + When(B2Proxy, 10)
               + When(B2Malicious, 90) + When(Said("scan", {"warning"}), 35))
B2Missing ==
  When(Said("tx", {"absent"}), 1) + When(Fails({"code"}), 1)
    + When(B2Code /\ (~req.explorer \/ Fails({"source"})), 1) + When(B2Conflict, 1)
    + When(~req.blockaid \/ Fails({"scan"}), 1)

\* A scan of the address alone is stamped with the captured block all the same.
B2Evidence ==
  AtBlock({"block", "code"}, ReadAt("block"))
  \cup {Evidence("rpc", Past, Past, "LIVE") : c \in {c \in {"tx"} : B2Found}}
  \cup {Evidence("etherscan", Nowhere, Nowhere, "UNKNOWN") : c \in Heard({"source"})}
  \cup {Evidence("blockaid", ReadAt("block"), ReadAt(c), "LIVE") : c \in Heard({"scan"})}

B2Fresh == IF Heard({"source"}) # {} THEN "UNKNOWN" ELSE "LIVE"

B2Value ==
  /\ B2Run /\ ~B2Nothing /\ Finished(B2Plan)
  /\ Conclude([status |-> "PARTIAL", risk |-> B2Score,
               dataConf |-> MaxOf(45, 88 - MinOf(25, 5 * B2Missing)),
               engConf |-> IF Heard({"scan"}) # {} THEN 82 ELSE 75,
               blockers |-> B2Malicious, conflicts |-> When(B2Conflict, 1),
               consensus |-> "MULTI_SOURCE", fresh |-> B2Fresh,
               block |-> ReadAt("block"), evidence |-> B2Evidence])

B2Next == B2Read \/ B2Reject \/ B2Value
B2Promised == InPlan(B2State)
=============================================================================
