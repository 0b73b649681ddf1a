-------------------------- MODULE ProtocolAdapters --------------------------
(***************************************************************************)
(* The protocol adapters (services/protocol_adapters.py): Aave V3,         *)
(* Compound III and Morpho Blue, with the identity of the deployment from  *)
(* the bundled registry (services/deployment_registry.py).                 *)
(*                                                                         *)
(* An adapter makes one call per quantity.  Calls that fail alike and say  *)
(* alike are one call here: the optional parameters, the dependencies that *)
(* are read only of a verified deployment, the position.                   *)
(***************************************************************************)
EXTENDS LiveEngine

Adapters == {"aave_v3", "compound_v3", "morpho_blue"}

\* What protocol-native evidence an engine may be asked for.
Native(adapter, identity, user, at, contract, feed, governance) ==
  [adapter |-> adapter, identity |-> identity, user |-> user, at |-> at,
   contract |-> contract, feed |-> feed, governance |-> governance]
NoNative == Native("none", "UNVERIFIED", FALSE, "latest", "none", FALSE, FALSE)
AdapterInputs ==
  {Native(a, i, u, at, "none", FALSE, FALSE) :
     a \in Adapters, i \in {"VERIFIED", "MISMATCH"}, u \in BOOLEAN, at \in {"latest", "past"}}

AdapterRequested == req.native.adapter # "none"
Verified == req.native.identity = "VERIFIED"

\* The calls without which the adapter raises.
AdapterCore ==
  IF req.native.adapter = "morpho_blue" THEN <<"a.config", "a.market">> ELSE <<"a.config">>

\* Morpho's position and the feeds behind its oracle need its price.
MorphoPriced == Said("a.price", {"ok"})
OfUser(calls) == IF req.native.user THEN calls ELSE <<>>
OfVerified(calls) == IF Verified THEN calls ELSE <<>>
AaveExtras ==
  <<"a.parameters">> \o OfVerified(<<"a.dependencies">>) \o OfUser(<<"a.position">>)
CompoundExtras ==
  LET debt == IF Fails({"a.position"}) THEN <<>> ELSE <<"a.debt">>
  IN <<"a.price">> \o OfUser(<<"a.position">> \o debt) \o OfVerified(<<"a.dependencies">>)
MorphoFeeds == IF MorphoPriced THEN OfVerified(<<"a.dependencies">>) ELSE <<>>
MorphoExtras ==
  <<"a.price">> \o OfUser(<<"a.position">>) \o MorphoFeeds \o <<"a.rate">>
AdapterExtras ==
  CASE req.native.adapter = "aave_v3" -> AaveExtras
    [] req.native.adapter = "compound_v3" -> CompoundExtras
    [] OTHER -> MorphoExtras

AdapterFailed == Fails(InPlan(AdapterCore))
AdapterPlan == IF AdapterFailed THEN <<>> ELSE AdapterCore \o AdapterExtras

AdapterAnswers(c) ==
  CASE c = "a.config" -> {"ok", "unsafe", "error"}
    [] c = "a.position" -> {"safe", "near", "close", "at", "below", "error"}
    [] OTHER -> {"ok", "error"}

\* _resolved_block: without at_block the evidence names the captured block, the
\* calls say "latest".
AdapterReadAt == IF req.native.at = "past" THEN Past ELSE head

\* Compound reads the four quantities of a position or none of them; it knows
\* liquidatable ("below") and undercollateralized ("at").
HalfRead == Fails({"a.position", "a.debt"})
Health ==
  CASE ~Asked("a.position") \/ HalfRead -> "unread"
    [] req.native.adapter = "morpho_blue" /\ ~MorphoPriced -> "unread"
    [] OTHER -> IF req.native.adapter = "compound_v3" /\ Answer("a.position") \in {"near", "close"}
                  THEN "safe" ELSE Answer("a.position")

\* A health factor of exactly one ("at") is close to liquidation for Aave and
\* past it for Morpho.
HealthDelta ==
  LET graded == [unread |-> 0, safe |-> 0, near |-> 15, close |-> 28, at |-> 28, below |-> 45]
  IN CASE req.native.adapter = "aave_v3" -> graded[Health]
       [] req.native.adapter = "compound_v3" ->
            When(Health = "below", 50) + When(Health = "at", 18)
       [] OTHER -> IF Health \in {"at", "below"} THEN 50 ELSE graded[Health]

\* An unsafe configuration or dependency adds between 5 and 40, by its kind; here
\* it adds 35.
AdapterDelta ==
  LET cap == IF req.native.adapter = "aave_v3" THEN 65 ELSE 70
      own == MinOf(cap, When(Said("a.config", {"unsafe"}), 35) + HealthDelta)
  IN When(~AdapterFailed, own + When(req.native.identity = "MISMATCH", 25))

AdapterConfidence ==
  LET own == CASE req.native.adapter = "aave_v3" -> 90
               [] req.native.adapter = "compound_v3" -> IF Said("a.price", {"ok"}) THEN 98 ELSE 91
               [] OTHER -> IF MorphoPriced THEN 99 ELSE 92
  IN When(~AdapterFailed, MinOf(100, own + When(Verified, 3)))

AdapterCalls ==
  {"a.config", "a.market", "a.parameters", "a.dependencies", "a.price", "a.position",
   "a.debt", "a.rate"}
AdapterEvidence(block) ==
  IF ~AdapterRequested \/ AdapterFailed THEN {}
  ELSE {Evidence("rpc", block, ReadAt(c), "LIVE") :
          c \in Heard(AdapterCalls) \ (IF HalfRead THEN {"a.position", "a.debt"} ELSE {})}
       \cup {Evidence("rivexis_registry", block, block, "CURRENT")}
=============================================================================
