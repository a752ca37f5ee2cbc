------------------------- MODULE MCSideEffectOutbox -------------------------
(***************************************************************************)
(* The boards TLC checks SideEffectOutbox on.  A task is promoted from the *)
(* gate, worked on and done, and may be reopened or sent back to the gate; *)
(* "done" is terminal and may also be the column that opens the pull       *)
(* request.                                                                *)
(***************************************************************************)
EXTENDS SideEffectOutbox

MCLabels == {"gate", "work", "done"}
MCMoves == {<<"gate", "work">>, <<"work", "done">>, <<"done", "work">>}
\* A board without the gate.
MCShort == {<<"work", "done">>, <<"done", "work">>}
=============================================================================
