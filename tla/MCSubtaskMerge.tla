--------------------------- MODULE MCSubtaskMerge ---------------------------
(***************************************************************************)
(* Two children, and two slots for the parent's runs: one may still tell   *)
(* the coordinator of its end while the next goes on.                      *)
(***************************************************************************)
EXTENDS SubtaskMerge, TLC

CONSTANTS r1, r2, c1, c2
=============================================================================
