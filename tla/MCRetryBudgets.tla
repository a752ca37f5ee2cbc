--------------------------- MODULE MCRetryBudgets ---------------------------
(***************************************************************************)
(* A board of two agent columns: a review may send the task back to "work".*)
(***************************************************************************)
EXTENDS RetryBudgets

MCAgentLabels == {"work", "review"}
MCLabels      == MCAgentLabels \cup {"done"}
MCSuccessOf == [l \in MCAgentLabels |-> IF l = "work" THEN "review" ELSE "done"]
MCFailureOf == [l \in MCAgentLabels |-> IF l = "work" THEN NoLabel ELSE "work"]
=============================================================================
