--------------------------- MODULE ProtocolNative ---------------------------
(***************************************************************************)
(* Protocol-native evidence (services/protocol_native.py), which F2, F3,   *)
(* F4 and F5 may add to what they know: one declared contract with its     *)
(* EIP-1967 slots and explorer metadata, one declared oracle feed, a       *)
(* declared governance, and a protocol adapter.                            *)
(***************************************************************************)
EXTENDS ProtocolAdapters

NativeInputs ==
  {Native("none", "UNVERIFIED", FALSE, at, contract, feed, governance) :
     at \in {"latest", "past", "invalid"}, contract \in {"none", "core", "admin"},
     feed \in BOOLEAN, governance \in BOOLEAN}

NativeDirect == AdapterRequested \/ req.native.contract # "none" \/ req.native.feed
\* has_protocol_native_input
NativeRequested == NativeDirect \/ req.native.governance

-----------------------------------------------------------------------------
(* Calls *)

\* at_block must be a block of the chain; anything else is malformed state.
NativeCaptured == Said("n.block", {"ok"}) /\ req.native.at # "invalid"
NativeHead == ReadAt("n.block")
NativeBlock == IF req.native.at = "past" THEN Past ELSE NativeHead

ContractPlan ==
  IF req.native.contract = "none" THEN <<>>
  ELSE <<"n.code">> \o (IF Said("n.code", {"code"}) THEN <<"n.slots", "n.source">> ELSE <<>>)

NativePlan ==
  IF ~NativeDirect THEN <<>>
  ELSE <<"n.rpc">>
    \o (IF Fails({"n.rpc"}) THEN <<>> ELSE <<"n.block">>)
    \o (IF ~NativeCaptured THEN <<>>
        ELSE (IF AdapterRequested THEN AdapterPlan ELSE <<>>) \o ContractPlan
               \o (IF req.native.feed THEN <<"n.oracle">> ELSE <<>>))

NativeAnswers(c) ==
  CASE c = "n.rpc" -> {"ok", "error"}
    [] c = "n.block" -> {"ok"} \cup Broken
    [] c = "n.code" -> {"code", "empty", "malformed"}
    [] c = "n.slots" -> {"plain", "proxy", "malformed"}
    [] c = "n.source" -> {"verified", "unverified", "conflicts", "malformed"}
    [] c = "n.oracle" -> {"LIVE", "EXPIRED", "UNKNOWN", "zero", "behind", "failed", "malformed"}
    [] OTHER -> AdapterAnswers(c)

\* Variation: contracts and feeds are read at whatever block is newest.
NativeReadAtHead(c) == head
NativeReadAt(c) ==
  CASE c \in {"n.rpc", "n.source"} -> Nowhere
    [] c = "n.block" -> head
    [] c \in AdapterCalls -> AdapterReadAt
    [] OTHER -> NativeBlock

-----------------------------------------------------------------------------
(* What comes of it *)

\* The answer of a feed may be new and yet not positive ("zero") or of an earlier
\* round ("behind"), or be all of it and expired ("failed").
OracleFresh(a) ==
  CASE a \in {"zero", "behind"} -> "LIVE" [] a = "failed" -> "EXPIRED" [] OTHER -> a

\* A declared governance is user input; it is looked at last, and not at all
\* when the direct state could not be captured.
GovernanceUsed == req.native.governance /\ (NativeDirect => NativeCaptured)

NativeEvidence ==
  (IF NativeDirect /\ NativeCaptured
     THEN {Evidence("rpc", NativeHead, NativeHead, "LIVE")}
            \cup AdapterEvidence(NativeBlock)
            \cup AtBlock({"n.code", "n.slots"}, NativeBlock)
            \cup {Evidence("rpc", NativeBlock, ReadAt(c), OracleFresh(Answer(c))) : c \in Heard({"n.oracle"})}
            \cup {Evidence("etherscan", Nowhere, Nowhere, "UNKNOWN") : c \in Heard({"n.source"})}
     ELSE {})
  \cup (IF GovernanceUsed THEN External("user_input", "CURRENT") ELSE {})

\* "conflicts": the explorer calls the contract a proxy of another implementation
\* than the one in its slots; the code warns of it and raises the risk, but makes
\* no SourceConflict of it.  Proxy and admin slots (5 each) go together.
\* The weakest governance of each kind adds a delta of its own; here it adds 15.
NativeDelta ==
  MinOf(55,
        (IF NativeDirect /\ NativeCaptured
           THEN When(AdapterRequested, AdapterDelta)
                  + When(Said("n.code", {"empty"}), IF req.native.contract = "core" THEN 12 ELSE 10)
                  + When(Said("n.slots", {"proxy"}), 10)
                  + When(Said("n.source", {"unverified"}), 10)
                  + When(Said("n.source", {"conflicts"}),
                         6 + When(Said("n.slots", {"proxy"}), 8))
                  + When(Said("n.oracle", {"zero", "failed"}), 35)
                  + When(Said("n.oracle", {"EXPIRED", "failed"}), 22)
                  + When(Said("n.oracle", {"behind", "failed"}), 22)
           ELSE 0)
        + When(GovernanceUsed, 15))

NativeConfidence ==
  CASE ~NativeDirect -> When(GovernanceUsed, 45)
    [] NativeDirect /\ ~NativeCaptured -> 0
    [] OTHER ->
         MaxOf(When(AdapterRequested, AdapterConfidence),
               62 + When(Heard({"n.code"}) # {}, 12)
                  + When(Heard({"n.oracle"}) # {} /\ Answer("n.oracle") # "UNKNOWN", 12))
=============================================================================
