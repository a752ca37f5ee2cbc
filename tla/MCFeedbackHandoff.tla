------------------------- MODULE MCFeedbackHandoff -------------------------
(***************************************************************************)
(* A board with a worker's column, a reviewing agent's and a human gate,   *)
(* where a rejection and the sync send a task back to the worker.          *)
(***************************************************************************)
EXTENDS FeedbackHandoff, TLC

MCAgentLabels == {"work", "check"}
MCLabels == MCAgentLabels \cup {"gate"}
MCSuccessOf == [l \in MCLabels |-> CASE l = "work" -> "check" [] l = "check" -> "gate"
                                      [] OTHER -> NoLabel]
MCFailureOf == [l \in MCLabels |-> IF l = "check" THEN "work" ELSE NoLabel]
MCBackOf == [l \in MCLabels |-> IF l = "gate" THEN "work" ELSE NoLabel]
MCMoves == {<<"work", "check">>, <<"check", "gate">>, <<"check", "work">>,
            <<"gate", "work">>}
Symmetry == Permutations(Syncs)
=============================================================================
