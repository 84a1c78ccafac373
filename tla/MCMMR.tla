-------------------------------- MODULE MCMMR -------------------------------
(***************************************************************************)
(* The accumulator for TLC: two objects, so that equal and different      *)
(* neighbours are both merged, and up to eight pushes, so that the push   *)
(* from seven leaves carries three times (0b111 + 1 = 0b1000).            *)
(***************************************************************************)
EXTENDS MMR, TLC

CONSTANTS v1, v2

MCValues == {v1, v2}

\* Objects appear only as opaque leaves, so renaming them is a symmetry.
MCSymmetry == Permutations(MCValues)

(* The carry arithmetic of count_ones and trailing ones that the proof of *)
(* MergesInBounds (MMR_proofs) takes as its hypothesis, checked here for  *)
(* every count up to 57, well past the bound on pushes of this model      *)
(* (from 60 on, the powers of two the operators take pass TLC's 2^31).    *)
ASSUME CarryArithmeticChecked == CarryArithmetic(57) /\ CarryArithmetic(MaxLeaves)

=============================================================================
