---------------------------- MODULE MMRAccumulator ----------------------------
(***************************************************************************)
(* The MMR of accumulator/src/shared.rs implements the append-only list   *)
(* of module Accumulator.  The refinement mapping reads the abstract list *)
(* off the committed peaks alone: each peak's reference commits to the    *)
(* leaves below it, left to right, and the peaks, tallest first, to all   *)
(* of them.  `pushed`, the history the other properties compare with, is  *)
(* not used, so the mapping checks the trees that push actually built.    *)
(* The steps inside a push (PushStart, MergeStep) change no committed     *)
(* state and are stutters of the abstract list; Commit is its Push and    *)
(* PushStartFails, PushAborts its Fail.                                   *)
(***************************************************************************)
EXTENDS MMR

\* The objects a content reference commits to, in leaf order: a leaf's
\* own object, or the leaves of the left child followed by the right's.
RECURSIVE LeavesOf(_)
LeavesOf(r) ==
    IF r \in Values THEN <<r>> ELSE LeavesOf(r[1]) \o LeavesOf(r[2])

\* The list the committed peaks stand for.
PeakLeaves == FlattenSeq([j \in 1..Len(peaks) |-> LeavesOf(peaks[j])])

Abstract == INSTANCE Accumulator
              WITH list   <- PeakLeaves,
                   result <- [status |-> result.status, index |-> result.index]

(* Every behaviour of the MMR is a behaviour of the append-only list: a   *)
(* push that returns Ok appends exactly its object after all earlier ones *)
(* and returns that position as its index, and every other step, the      *)
(* merges of a push and the pushes that fail part way included, leaves    *)
(* the list the peaks commit to unchanged.                                 *)
ImplementsAccumulator == Abstract!Spec

=============================================================================
