--------------------------- MODULE MCAutonomyGate ---------------------------
(***************************************************************************)
(* AutonomyGate with its decisions interchangeable, for the runs that      *)
(* check no liveness.                                                      *)
(***************************************************************************)
EXTENDS AutonomyGate, TLC

MCSymmetry == Permutations(Decisions)
=============================================================================
