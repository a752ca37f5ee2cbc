--------------------------- MODULE MCRunLifecycle ---------------------------
(***************************************************************************)
(* The board TLC checks RunLifecycle on: "work" is picked up by agents,    *)
(* "gate" waits for a person, who may approve the task on to "done" or send *)
(* it back to "work".                                                      *)
(***************************************************************************)
EXTENDS RunLifecycle, TLC

MCLabels      == {"work", "gate", "done"}
MCAgentLabels == {"work"}
MCAgentMoves  == {<<"work", "gate">>}
MCHumanMoves  == {<<"gate", "done">>, <<"gate", "work">>, <<"work", "gate">>}
\* A board without "done", which nothing leaves: for the larger instance.
MCShortLabels == {"work", "gate"}
MCShortMoves  == {<<"gate", "work">>, <<"work", "gate">>}
\* Sending a task back from the gate.
MCSendBack == {<<"gate", "work">>}

\* Runs are interchangeable until one of them is created, and nothing
\* compares them, so exchanging two of them changes no safety property.
RunSymmetry == Permutations(Runs)
=============================================================================
