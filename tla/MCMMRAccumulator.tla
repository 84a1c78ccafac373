--------------------------- MODULE MCMMRAccumulator ---------------------------
(***************************************************************************)
(* The refinement of the append-only list for TLC: two objects and eight  *)
(* pushes, as for MCMMR, so that a push carries up to three times.        *)
(***************************************************************************)
EXTENDS MMRAccumulator, TLC

CONSTANTS v1, v2

MCValues == {v1, v2}
=============================================================================
