-------------------------------- MODULE MMR ---------------------------------
(***************************************************************************)
(* The accumulator actor's state (accumulator/src/shared.rs): a Merkle    *)
(* Mountain Range whose peaks are kept in an AMT, over a content-         *)
(* addressed blockstore.                                                  *)
(*                                                                         *)
(* A content reference (Cid) is modelled by the content it addresses: a   *)
(* leaf's reference is the pushed value, a pair node's is the pair        *)
(* <<left, right>> of its children's references.  This is content         *)
(* addressing with a collision-free hash: equal content, equal reference. *)
(* The blockstore is the set of references whose block was put.  The AMT  *)
(* of peaks is the sequence of its entries; its flushed root Cid (State.  *)
(* peaks) is that sequence.                                               *)
(*                                                                         *)
(* State::push runs as one actor call, but it puts blocks one by one and  *)
(* any put or the final flush may fail; it is split at those points:      *)
(* PushStart (load, put the leaf, append it), one MergeStep per iteration *)
(* of the merge loop, and Commit (flush, update State, bag the peaks).    *)
(***************************************************************************)
EXTENDS Naturals, Sequences, SequencesExt, PathResolver

CONSTANTS
    Values,      \* the objects that can be pushed
    MaxLeaves,   \* bound on the number of successful pushes
    NullCid,     \* Cid::default(), the root of an empty accumulator
    None         \* Option::None: a lookup that finds nothing

ASSUME ConstantsAssumption ==
    /\ MaxLeaves \in Nat
    /\ NullCid \notin Values
    /\ None \notin Values \cup {NullCid}

VARIABLES
    store,      \* the blockstore: the references whose blocks were put
    peaks,      \* State.peaks: the committed peaks, tallest first
    leafCount,  \* State.leaf_count
    amt,        \* the in-memory peaks Amt while a push runs
    newPeaks,   \* new_peaks: merges left in push's loop
    obj,        \* the object being pushed
    pc,         \* "idle" between calls, "merge" inside push
    result,     \* what the last push returned
    pushed      \* history: the objects of the successful pushes, in order

vars == <<store, peaks, leafCount, amt, newPeaks, obj, pc, result, pushed>>

\* PushReturn { root, index }, an error, or no push yet.
PushOk(root, index) == [status |-> "ok", root |-> root, index |-> index]
PushErr == [status |-> "err", root |-> NullCid, index |-> 0]
NoPush == [status |-> "none", root |-> NullCid, index |-> 0]

-----------------------------------------------------------------------------
(* Pair hashing and root bagging.                                          *)

\* hash_pair / hash_and_put_pair: the reference of the node [left, right].
HashPair(left, right) == <<left, right>>

\* Mutant: the running root hashed on the left of the earlier peak.
BagPeaksSwapped(p) ==
    LET n == Len(p)
        acc[i \in 1..(n - 1)] ==
            IF i = 1 THEN HashPair(p[n - 1], p[n])
                     ELSE HashPair(acc[i - 1], p[n - i])
    IN  CASE n = 0 -> NullCid
          [] n = 1 -> p[1]
          [] OTHER -> acc[n - 1]

\* bag_peaks: no peaks give the null Cid, one peak is the root itself, and
\* otherwise the last two are hashed and each earlier peak is hashed onto
\* the left of the running root.  Nothing is put.
BagPeaks(p) ==
    LET n == Len(p)
        acc[i \in 1..(n - 1)] ==
            IF i = 1 THEN HashPair(p[n - 1], p[n])
                     ELSE HashPair(p[n - i], acc[i - 1])
    IN  CASE n = 0 -> NullCid
          [] n = 1 -> p[1]
          [] OTHER -> acc[n - 1]

-----------------------------------------------------------------------------
(* Lookup: get_at over a peaks list and a leaf count.                      *)

\* store.get_cbor::<[Cid; 2]>(cid): the pair, if a pair block is stored.
AsPair(r) == IF r \in store /\ r \notin Values THEN r ELSE None

\* store.get_cbor::<S>(cid): the object, if a leaf block is stored.
AsLeaf(r) == IF r \in store /\ r \in Values THEN r ELSE None

\* Mutant: the walk starts at the marker bit instead of the one below it.
WalkFromMarkerBit(root, path) ==
    LET sb == BitLength(path)
        pair[t \in 0..(sb - 2)] ==
            IF t = 0 THEN AsPair(root)
            ELSE IF pair[t - 1] = None THEN None
            ELSE AsPair(pair[t - 1][Bit(path, sb - t) + 1])
    IN  IF pair[sb - 2] = None THEN None
                               ELSE AsLeaf(pair[sb - 2][Bit(path, 0) + 1])

\* The walk of get_at below the eigentree root `root` for a path of at
\* least two bits: load the root as a pair, follow bits from the second
\* most significant down to bit 1 loading pairs, then take the child that
\* bit 0 selects as the leaf.
Walk(root, path) ==
    LET sb == BitLength(path)
        pair[t \in 0..(sb - 2)] ==
            IF t = 0 THEN AsPair(root)
            ELSE IF pair[t - 1] = None THEN None
            ELSE AsPair(pair[t - 1][Bit(path, sb - 1 - t) + 1])
    IN  IF pair[sb - 2] = None THEN None
                               ELSE AsLeaf(pair[sb - 2][Bit(path, 0) + 1])

\* get_at, with get_leaf_at's conversion of every error into None.
GetAt(i, count, pks) ==
    LET r == PathForEigenRoot(i, count)
    IN  CASE ~r.ok                        -> None
          [] r.eigen \notin 0..(Len(pks) - 1) -> None
          [] r.path = 1                   -> AsLeaf(pks[r.eigen + 1])
          [] OTHER                        -> Walk(pks[r.eigen + 1], r.path)

\* The read accessors of State on the committed state: get_leaf_at,
\* get_root (reload the Amt and bag it), get_peaks and peak_count.
GetLeafAt(i) == GetAt(i, leafCount, peaks)
GetRoot == BagPeaks(peaks)
GetPeaks == peaks
PeakCount == PopCount(leafCount)

-----------------------------------------------------------------------------
(* Operations.                                                             *)

\* State::new: an empty Amt is flushed and leaf_count is 0.
Init ==
    /\ store = {}
    /\ peaks = <<>>
    /\ leafCount = 0
    /\ amt = <<>>
    /\ newPeaks = 0
    /\ obj \in Values
    /\ pc = "idle"
    /\ result = NoPush
    /\ pushed = <<>>

\* Mutant: leaf_count.trailing_zeros(), the complement forgotten.
PushStartTrailingZeros(v) ==
    /\ pc = "idle"
    /\ Len(pushed) < MaxLeaves
    /\ store' = store \cup {v}
    /\ amt' = Append(peaks, v)
    /\ newPeaks' = Quantify(1..(leafCount \div 2 + 1), LAMBDA k : leafCount % 2^k = 0)
    /\ obj' = v
    /\ pc' = "merge"
    /\ UNCHANGED <<peaks, leafCount, result, pushed>>

\* State::push up to the loop: load the Amt, put the leaf, set it at the
\* next index, and take (!leaf_count).trailing_zeros() as the merge count.
PushStart(v) ==
    /\ pc = "idle"
    /\ Len(pushed) < MaxLeaves
    /\ store' = store \cup {v}
    /\ amt' = Append(peaks, v)
    /\ newPeaks' = TrailingOnes(leafCount)
    /\ obj' = v
    /\ pc' = "merge"
    /\ UNCHANGED <<peaks, leafCount, result, pushed>>

\* Amt::load or the put of the leaf fails: push returns the error.
PushStartFails ==
    /\ pc = "idle"
    /\ result' = PushErr
    /\ UNCHANGED <<store, peaks, leafCount, amt, newPeaks, obj, pc, pushed>>

\* Mutant: the pair's Cid computed with hash_pair, never put.
MergeStepWithoutPut ==
    /\ pc = "merge"
    /\ newPeaks > 0
    /\ Len(amt) >= 2
    /\ LET right == amt[Len(amt)]
           left  == amt[Len(amt) - 1]
       IN  /\ store' = store
           /\ amt' = Append(SubSeq(amt, 1, Len(amt) - 2), HashPair(left, right))
    /\ newPeaks' = newPeaks - 1
    /\ UNCHANGED <<peaks, leafCount, obj, pc, result, pushed>>

\* Mutant: the two popped peaks paired in pop order, right before left.
MergeStepPopOrder ==
    /\ pc = "merge"
    /\ newPeaks > 0
    /\ Len(amt) >= 2
    /\ LET right == amt[Len(amt)]
           left  == amt[Len(amt) - 1]
       IN  /\ store' = store \cup {HashPair(right, left)}
           /\ amt' = Append(SubSeq(amt, 1, Len(amt) - 2), HashPair(right, left))
    /\ newPeaks' = newPeaks - 1
    /\ UNCHANGED <<peaks, leafCount, obj, pc, result, pushed>>

\* One iteration of the loop: delete the last two peaks (right first),
\* put their pair and set it at the end.
MergeStep ==
    /\ pc = "merge"
    /\ newPeaks > 0
    /\ Len(amt) >= 2
    /\ LET right == amt[Len(amt)]
           left  == amt[Len(amt) - 1]
       IN  /\ store' = store \cup {HashPair(left, right)}
           /\ amt' = Append(SubSeq(amt, 1, Len(amt) - 2), HashPair(left, right))
    /\ newPeaks' = newPeaks - 1
    /\ UNCHANGED <<peaks, leafCount, obj, pc, result, pushed>>

\* A put in the loop, or the flush, fails: push returns the error before
\* State is assigned; the blocks already put stay in the store.
PushAborts ==
    /\ pc = "merge"
    /\ result' = PushErr
    /\ pc' = "idle"
    /\ amt' = <<>>
    /\ newPeaks' = 0
    /\ UNCHANGED <<store, peaks, leafCount, obj, pushed>>

\* The loop is done: flush the Amt into State.peaks, increment leaf_count
\* and return the bagged root with the index leaf_count - 1.
Commit ==
    /\ pc = "merge"
    /\ newPeaks = 0
    /\ peaks' = amt
    /\ leafCount' = leafCount + 1
    /\ result' = PushOk(BagPeaks(amt), leafCount)
    /\ pushed' = Append(pushed, obj)
    /\ pc' = "idle"
    /\ amt' = <<>>
    /\ UNCHANGED <<store, newPeaks, obj>>

Next ==
    \/ \E v \in Values : PushStart(v)
    \/ PushStartFails
    \/ MergeStep
    \/ PushAborts
    \/ Commit

Spec == Init /\ [][Next]_vars

-----------------------------------------------------------------------------
(* Properties.                                                             *)

\* The types, where a reference is typed by the store: every stored block
\* is a leaf object or a pair of stored references, and every peak, held
\* or being merged, is stored.  So put-before-publish holds: no reference
\* the accumulator hands out names a block the store does not have.
TypeOK ==
    /\ store \subseteq Values \cup (store \X store)
    /\ peaks \in Seq(store)
    /\ amt \in Seq(store)
    /\ leafCount \in Nat
    /\ newPeaks \in Nat
    /\ obj \in Values
    /\ pc \in {"idle", "merge"}
    /\ result.status \in {"none", "err", "ok"}
    /\ result.index \in Nat
    /\ pushed \in Seq(Values)

\* Inside push, every merge still to do has two peaks to pop: the carries
\* (!leaf_count).trailing_zeros() never outnumber the peaks of leaf_count
\* that sit below the new leaf.  A violation strands the loop on a list
\* of one entry, where delete(count - 1) underflows.
MergesInBounds ==
    pc = "merge" => newPeaks < Len(amt)

\* The perfect tree over the 2^h objects pushed from index lo on.
EigenTree[h \in Nat, lo \in Nat] ==
    IF h = 0 THEN pushed[lo + 1]
             ELSE HashPair(EigenTree[h - 1, lo], EigenTree[h - 1, lo + 2^(h - 1)])

\* The peaks an MMR over the pushed objects has: one perfect tree per set
\* bit of their number, tallest first.
ExpectedPeaks ==
    LET n == Len(pushed)
        heights == {h \in Positions(n) : Bit(n, h) = 1}
    IN  [j \in 1..PopCount(n) |->
            LET h == CHOOSE h \in heights : EigenPosition(n, h) = j - 1
            IN  EigenTree[h, EigenStart(n, h)]]

\* The committed State is always the MMR of exactly the pushes that
\* returned Ok: leaf_count counts them and the peaks are their perfect
\* trees, one per bit of leaf_count.  The carry count of push's loop, the
\* pop order of the merges and push's failures part way through all bear
\* on it.
PeaksAreEigentrees ==
    /\ leafCount = Len(pushed)
    /\ Len(GetPeaks) = PeakCount
    /\ GetPeaks = ExpectedPeaks

\* Every object pushed is found by get_leaf_at at its index at every later
\* size, and every index past the end gives None: the path derived from
\* the index and the count alone leads through stored blocks to it.
GetLeafCorrect ==
    \A i \in 0..MaxLeaves :
        GetLeafAt(i) = IF i < Len(pushed) THEN pushed[i + 1] ELSE None

\* A successful push returns the root that bags the expected peaks right
\* to left, peak_1 # (peak_2 # (... # peak_k)): bag_peaks' fold checked
\* against the peaks the pushes should have built.
PushReturnsBaggedRoot ==
    result.status = "ok" =>
        result.root = FoldRight(HashPair, Front(ExpectedPeaks), Last(ExpectedPeaks))

=============================================================================
