------------------------------- MODULE LiveB1 -------------------------------
(***************************************************************************)
(* B1, transaction simulation (services/live_b1.py): Tenderly when it is   *)
(* configured, a dry run over RPC when it is not or when it fails.  A mined *)
(* transaction is replayed on the state before its block.                  *)
(***************************************************************************)
EXTENDS LiveEngine

\* bare: the caller gives a transaction hash and nothing else.  tag: the block the
\* caller wants the dry run on, which a hash overrides; diff: he asks for the state
\* diff too.
B1Requests ==
  {r \in [engine: {"B1"}, input: {"valid", "bare", "malformed", "unsupported"}, hash: BOOLEAN,
          abi: BOOLEAN, tenderly: BOOLEAN, trace: BOOLEAN, diff: BOOLEAN,
          tag: {"latest", "past"}] :
     /\ r.input = "bare" => r.hash
     /\ r.tag = "past" => ~r.hash}

B1Captured == IF Said("tx", {"mined"}) THEN Past ELSE ReadAt("block")

\* The state a simulation runs on: the one before the transaction's block, else
\* the newest for Tenderly and what the caller's block_tag says for the dry run.
B1Before == IF req.hash THEN B1Captured - 1 ELSE head
B1Tagged == IF ~req.hash /\ req.tag = "past" THEN Past ELSE B1Before

B1Start == <<"rpc", "block">>
B1Lookup ==
  IF ~req.hash THEN <<>>
  ELSE <<"tx">> \o (IF Said("tx", {"mined", "pending"}) THEN <<"receipt">> ELSE <<>>)
B1Simulated == Said("simulate", {"ok", "revert"})
B1DryRun ==
  <<"dryrun", "gas">> \o (IF req.trace THEN <<"trace">> ELSE <<>>)
                      \o (IF req.diff THEN <<"diff">> ELSE <<>>)
B1Plan ==
  IF Fails(InPlan(B1Start)) THEN <<>>
  ELSE B1Start \o B1Lookup
         \o (IF req.abi THEN <<"abi">> ELSE <<>>)
         \o (IF req.tenderly THEN <<"simulate">> ELSE <<>>)
         \o (IF req.tenderly /\ (B1Simulated \/ ~Asked("simulate")) THEN <<>> ELSE B1DryRun)

B1Answers(c) ==
  CASE c = "rpc" -> {"ok", "error"}
    [] c = "block" -> {"ok"} \cup Broken
    [] c = "tx" -> {"mined", "pending", "absent", "error"}
    [] c = "receipt" -> {"logs", "none", "error"}
    [] c \in {"simulate", "dryrun"} -> {"ok", "revert", "error"}
    [] OTHER -> {"ok", "error"}

B1BlockOf(c) ==
  CASE c \in {"rpc", "abi"} -> Nowhere
    [] c = "block" -> head
    [] c \in {"tx", "receipt"} -> IF Said("tx", {"mined"}) THEN Past ELSE head
    [] c = "simulate" -> B1Before
    [] OTHER -> B1Tagged

B1Asked == req.input \in {"valid", "bare"}
B1Absent == Said("tx", {"absent"})
\* Nothing to simulate: the transaction is not found, or cannot be looked up.
B1Nothing == B1Absent \/ (req.input = "bare" /\ Said("tx", {"error"}))
B1Run == Running("B1") /\ B1Asked /\ ~Fails(InPlan(B1Start)) /\ ~B1Nothing

B1Read ==
  /\ B1Run /\ ~Finished(B1Plan)
  /\ LET c == NextOf(B1Plan) IN Ask(c, B1Answers(c), B1BlockOf(c))

B1Probed == External("rpc", "LIVE") \cup AtBlock({"block"}, ReadAt("block"))

B1Reject ==
  /\ Running("B1")
  /\ ~B1Asked \/ Fails(InPlan(B1Start)) \/ B1Nothing
  /\ Conclude(
       CASE req.input = "unsupported" -> Failure("UNSUPPORTED", 0, {})
         [] req.input = "malformed" -> Failure("INSUFFICIENT_DATA", 0, {})
         [] B1Asked /\ Fails(InPlan(B1Start)) -> Failure("PROVIDER_UNAVAILABLE", 0, {})
         [] OTHER -> IF B1Absent THEN Failure("INSUFFICIENT_DATA", 40, B1Probed)
                     ELSE Failure("INSUFFICIENT_DATA", 0, {}))

\* The lookup of a mined transaction is as old as nobody says; the ABI of the
\* contract is stamped with the captured block although no block vouches for it.
B1Evidence ==
  LET mined == Said("tx", {"mined"})
      at == IF mined THEN Past ELSE Nowhere
  IN B1Probed
     \cup {Evidence("rpc", at, at, IF mined THEN "UNKNOWN" ELSE "LIVE") :
             c \in {c \in {"tx"} : Said(c, {"mined", "pending"})}}
     \cup {Evidence("rpc", at, at, "UNKNOWN") : c \in {c \in {"receipt"} : Said(c, {"logs"})}}
     \cup {Evidence("etherscan", B1Captured, Nowhere, "LIVE") : c \in Heard({"abi"})}

B1Tenderly ==
  /\ B1Run /\ B1Simulated
  /\ LET revert == Said("simulate", {"revert"})
         ran == ReadAt("simulate")
     IN Conclude([status |-> "PARTIAL", risk |-> IF revert THEN 90 ELSE 10,
                  dataConf |-> 94, engConf |-> 91, blockers |-> revert, conflicts |-> 0,
                  consensus |-> "MULTI_SOURCE", fresh |-> "LIVE", block |-> ran,
                  evidence |-> B1Evidence \cup {Evidence("tenderly", ran, ran, "LIVE")}])

\* A provider that fails during the dry run looks like a transaction that reverts.
B1Unexecuted == Said("dryrun", {"revert", "error"})
B1DryRunEvidence ==
  {Evidence("rpc", B1Captured, ReadAt(c), "LIVE") :
     c \in {c \in {"dryrun", "gas", "trace", "diff"} : Said(c, {"ok"})}}

B1Dry ==
  /\ B1Run /\ Asked("dryrun") /\ Finished(B1Plan)
  /\ Conclude([status |-> "PARTIAL", risk |-> IF B1Unexecuted THEN 90 ELSE 15,
               dataConf |-> IF B1Unexecuted THEN 88 ELSE 82, engConf |-> 72,
               blockers |-> B1Unexecuted, conflicts |-> 0, consensus |-> "SINGLE_SOURCE",
               fresh |-> "LIVE", block |-> B1Captured,
               evidence |-> B1Evidence \cup B1DryRunEvidence])

B1Next == B1Read \/ B1Reject \/ B1Tenderly \/ B1Dry
B1Promised == InPlan(B1Start)
=============================================================================
