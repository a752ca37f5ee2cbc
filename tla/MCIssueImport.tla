---------------------------- MODULE MCIssueImport ----------------------------
(***************************************************************************)
(* The board TLC checks IssueImport on: an imported task waits at the      *)
(* gate, a person approves it for work or turns it down, an agent does it; *)
(* a task whose issue is gone goes back to the gate.                       *)
(***************************************************************************)
EXTENDS IssueImport

MCLabels     == {"gate", "work", "done"}
MCHumanMoves == {<<"gate", "work">>, <<"work", "gate">>}
MCAgentMoves == {<<"work", "done">>}
\* A frozen task that comes back to the gate, and one that follows its issue.
MCSettings   == {[policy |-> "gate", gone |-> "move"],
                 [policy |-> "always", gone |-> "archive"]}
=============================================================================
