------------------------------- MODULE LiveB5 -------------------------------
(***************************************************************************)
(* B5, cross-chain routes (services/live_b5.py): one LI.FI quote, which    *)
(* must be of the route that was asked for before it is scored.            *)
(***************************************************************************)
EXTENDS LiveEngine

\* wide: the caller allows more than three percent of slippage.
B5Requests ==
  [engine: {"B5"}, input: {"valid", "malformed", "unsupported"}, wide: BOOLEAN, bridged: BOOLEAN]

\* What _quote_integrity_conflicts compares, in three groups: who and what the
\* route moves, what it yields, and how its metadata are formed.
B5Conflicts(answer) ==
  CASE answer \in {"identity", "economics", "structure"} -> 1
    [] answer = "several" -> 2
    [] OTHER -> 0

\* A quote whose costs, duration, steps, addresses and amounts can all be read is
\* short or long; one that cannot be read, or is of another route, conflicts.
B5Answers == {"short", "long", "identity", "economics", "structure", "several", "error"}

B5Quote ==
  /\ Running("B5") /\ req.input = "valid" /\ ~Asked("quote")
  /\ Ask("quote", B5Answers, Nowhere)

B5Reject ==
  /\ Running("B5")
  /\ req.input # "valid" \/ Fails({"quote"})
  /\ Conclude(Failure(CASE req.input = "unsupported" -> "UNSUPPORTED"
                        [] req.input = "malformed" -> "INSUFFICIENT_DATA"
                        [] OTHER -> "PROVIDER_UNAVAILABLE", 0, {}))

B5Matched == B5Conflicts(Answer("quote")) = 0
B5Evidence == External("lifi", "UNKNOWN")

B5Value ==
  /\ Running("B5") /\ Asked("quote") /\ ~Fails({"quote"})
  /\ Conclude(
       IF B5Matched
         THEN [status |-> "PARTIAL",
               risk |-> 22 + When(Said("quote", {"long"}), 10) + When(req.wide, 12)
                           + When(req.bridged, 8),
               dataConf |-> 84, engConf |-> 74, blockers |-> FALSE, conflicts |-> 0,
               consensus |-> "SINGLE_SOURCE", fresh |-> "UNKNOWN", block |-> Nowhere,
               evidence |-> B5Evidence]
         ELSE [Failure("CONFLICTING_DATA", 25, B5Evidence)
                 EXCEPT !.conflicts = B5Conflicts(Answer("quote")), !.fresh = "UNKNOWN"])

B5Next == B5Quote \/ B5Reject \/ B5Value
B5Promised == {"quote"}
=============================================================================
