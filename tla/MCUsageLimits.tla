--------------------------- MODULE MCUsageLimits ----------------------------
(***************************************************************************)
(* One agent with a primary and a fallback provider, each with an account  *)
(* and a login of its own.                                                 *)
(***************************************************************************)
EXTENDS UsageLimits

CONSTANTS p1, p2, a1, a2, k1, k2

MCOrder  == <<p1, p2>>
MCPoolOf == [p \in {p1, p2} |-> IF p = p1 THEN a1 ELSE a2]
MCKindOf == [p \in {p1, p2} |-> IF p = p1 THEN k1 ELSE k2]
=============================================================================
