--------------------------- MODULE MCPathResolver ---------------------------
(***************************************************************************)
(* Exhaustive check of path_for_eigen_root against the reference on every *)
(* leaf count up to MaxCount and every index up to MaxCount, out-of-range  *)
(* ones included.  A state is one query (leaf_index, leaf_count); the      *)
(* query is answered with no state change, as the function is pure.       *)
(***************************************************************************)
EXTENDS PathResolver

CONSTANT MaxCount

ASSUME MaxCountAssumption == MaxCount \in Nat

VARIABLES leafIndex, leafCount

vars == <<leafIndex, leafCount>>

Init ==
    /\ leafIndex \in 0..MaxCount
    /\ leafCount \in 0..MaxCount

\* Answering the query leaves both inputs as they are.
Resolve == UNCHANGED vars

Spec == Init /\ [][Resolve]_vars

\* path_for_eigen_root locates every leaf: for an index below the count it
\* returns the position of the one peak whose range of leaves contains the
\* index and the index's offset in that peak behind a marker bit at the
\* peak's height; for any other index it returns an error.
PathMatchesReference ==
    PathForEigenRoot(leafIndex, leafCount) = ExpectedPath(leafIndex, leafCount)
=============================================================================
