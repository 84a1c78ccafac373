---------------------------- MODULE PathResolver ----------------------------
(***************************************************************************)
(* path_for_eigen_root (accumulator/src/shared.rs): from a leaf index and  *)
(* the leaf count alone, the position of the peak ("eigentree") holding   *)
(* the leaf and the path to it inside that peak.  The path is the leaf's  *)
(* offset in the eigentree with one more bit set above it, at the         *)
(* eigentree's height; get_at walks it from its second most significant   *)
(* bit down.  The second half of the module is an independent reference: *)
(* the peaks are the set bits of the leaf count, tallest first, and each *)
(* covers a contiguous range of leaf indexes.                             *)
(***************************************************************************)
EXTENDS Bits

\* The outcome of path_for_eigen_root: Ok((local_path, eigen_index)) or Err.
PathOk(path, eigen) == [ok |-> TRUE, path |-> path, eigen |-> eigen]
PathErr == [ok |-> FALSE, path |-> 0, eigen |-> 0]

\* Mutant: the peak offset counted in the index's low bits, not the count's.
PathForEigenRootIndexOffset(leaf_index, leaf_count) ==
    IF leaf_index >= leaf_count
    THEN PathErr
    ELSE LET diff             == Xor(leaf_index, leaf_count)
             eigentree_height == BitLength(diff) - 1
             merge_height     == 2^eigentree_height
             eigentree_count  == PopCount(leaf_count)
             offset           == PopCount(LowBits(leaf_index, eigentree_height))
             eigen_index      == eigentree_count - offset - 1
             local_offset     == LowBits(leaf_index, eigentree_height)
         IN  PathOk(local_offset + merge_height, eigen_index)

\* path_for_eigen_root.  diff # 0 whenever leaf_index < leaf_count, so the
\* height never underflows.  eigen_index is a u32 subtraction: a negative
\* value here stands for the wrapped u32, an index no peaks list reaches.
PathForEigenRoot(leaf_index, leaf_count) ==
    IF leaf_index >= leaf_count
    THEN PathErr
    ELSE LET diff             == Xor(leaf_index, leaf_count)
             eigentree_height == BitLength(diff) - 1
             merge_height     == 2^eigentree_height
             eigentree_count  == PopCount(leaf_count)
             offset           == PopCount(LowBits(leaf_count, eigentree_height))
             eigen_index      == eigentree_count - offset - 1
             local_offset     == LowBits(leaf_index, eigentree_height)
         IN  PathOk(local_offset + merge_height, eigen_index)

-----------------------------------------------------------------------------
(***************************************************************************)
(* Reference.  leaf_count = sum of 2^h over its set bits h; the peak of   *)
(* height h holds the 2^h leaves that follow all taller peaks.            *)
(***************************************************************************)

\* The first leaf index of the eigentree of height h: the leaves of the
\* taller eigentrees are the bits of n above h.
EigenStart(n, h) == n - (n % 2^(h + 1))

\* Its 0-based position in the peaks list, tallest first.
EigenPosition(n, h) == PopCount(n \div 2^h) - 1

\* The eigentree of height h exists in a count of n and holds leaf i.
HoldsLeaf(n, h, i) ==
    /\ Bit(n, h) = 1
    /\ EigenStart(n, h) <= i
    /\ i < EigenStart(n, h) + 2^h

\* What path_for_eigen_root should answer.
ExpectedPath(i, n) ==
    IF i >= n
    THEN PathErr
    ELSE LET h == CHOOSE h \in Positions(n) : HoldsLeaf(n, h, i)
         IN  PathOk(2^h + (i - EigenStart(n, h)), EigenPosition(n, h))
=============================================================================
