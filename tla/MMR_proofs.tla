----------------------------- MODULE MMR_proofs -----------------------------
(***************************************************************************)
(* Proofs about the accumulator model MMR, for every set of objects and   *)
(* every bound on the pushes.                                             *)
(***************************************************************************)
EXTENDS MMR, FiniteSetTheorems, TLAPS

\* The merge count push takes from (!leaf_count).trailing_zeros() is a
\* natural number: it counts elements of a finite interval.
LEMMA TrailingOnesNat ==
    ASSUME NEW n \in Nat
    PROVE  TrailingOnes(n) \in Nat
<1> DEFINE S == 1..(n \div 2 + 1)
           T == {k \in S : n % 2^k = 2^k - 1}
<1>1. IsFiniteSet(S)
  BY FS_Interval
<1>2. IsFiniteSet(T)
  BY <1>1, FS_Subset
<1>3. Cardinality(T) \in Nat
  BY <1>2, FS_CardinalityType
<1> QED
  BY <1>3 DEF TrailingOnes, Quantify

\* A sequence over a set is a sequence over any superset of it: the store
\* only grows, so peaks and the Amt stay typed.
LEMMA SeqMonotone ==
    ASSUME NEW S, NEW T, S \subseteq T, NEW s \in Seq(S)
    PROVE  s \in Seq(T)
  OBVIOUS

\* TypeOK holds in every reachable state: every stored block is a leaf or
\* a pair of stored references, and every peak is stored.
THEOREM TypeCorrect == Spec => []TypeOK
<1>1. Init => TypeOK
  BY DEF Init, TypeOK, NoPush
<1>2. TypeOK /\ [Next]_vars => TypeOK'
  <2> SUFFICES ASSUME TypeOK, [Next]_vars PROVE TypeOK'
    OBVIOUS
  <2>1. ASSUME NEW v \in Values, PushStart(v) PROVE TypeOK'
    <3>1. store' \subseteq Values \cup (store' \X store')
      BY <2>1 DEF PushStart, TypeOK
    <3>2. peaks' \in Seq(store') /\ amt' \in Seq(store')
      BY <2>1, SeqMonotone DEF PushStart, TypeOK
    <3>3. newPeaks' \in Nat
      BY <2>1, TrailingOnesNat DEF PushStart, TypeOK
    <3> QED
      BY <2>1, <3>1, <3>2, <3>3 DEF PushStart, TypeOK
  <2>2. CASE PushStartFails
    BY <2>2 DEF PushStartFails, TypeOK, PushErr
  <2>3. CASE MergeStep
    <3> DEFINE n == Len(amt)
               pair == HashPair(amt[n - 1], amt[n])
    <3>1. n >= 2 /\ amt[n - 1] \in store /\ amt[n] \in store
      BY <2>3 DEF MergeStep, TypeOK
    <3>2. store' = store \cup {pair}
      BY <2>3 DEF MergeStep
    <3>3. store' \subseteq Values \cup (store' \X store')
      BY <3>1, <3>2 DEF TypeOK, HashPair
    <3>4. amt' = Append(SubSeq(amt, 1, n - 2), pair)
      BY <2>3 DEF MergeStep
    <3>5. SubSeq(amt, 1, n - 2) \in Seq(store')
      BY <3>1, <3>2 DEF TypeOK
    <3>6. amt' \in Seq(store')
      BY <3>2, <3>4, <3>5
    <3>7. peaks' \in Seq(store')
      BY <2>3, <3>2, SeqMonotone DEF MergeStep, TypeOK
    <3> QED
      BY <2>3, <3>3, <3>6, <3>7 DEF MergeStep, TypeOK
  <2>4. CASE PushAborts
    BY <2>4 DEF PushAborts, TypeOK, PushErr
  <2>5. CASE Commit
    BY <2>5 DEF Commit, TypeOK, PushOk
  <2>6. CASE UNCHANGED vars
    BY <2>6 DEF vars, TypeOK
  <2> QED
    BY <2>1, <2>2, <2>3, <2>4, <2>5, <2>6 DEF Next
<1> QED
  BY <1>1, <1>2, PTL DEF Spec

-----------------------------------------------------------------------------
(* The merge loop stays in bounds.  Push takes TrailingOnes(leaf_count)   *)
(* merges, each pops two peaks and pushes one, and the committed peaks    *)
(* number PopCount(leaf_count).  What ties them together:                 *)
(*  - leaf_count counts the successful pushes, and stays within the bound *)
(*    on them;                                                             *)
(*  - the committed peaks are one per set bit of leaf_count;              *)
(*  - inside push, the Amt holds the committed peaks and the new leaf,    *)
(*    less one entry per merge done, so its length less the merges left   *)
(*    is what it will be at the flush: PopCount + 1 - TrailingOnes.        *)
PeakCountInv ==
    /\ leafCount = Len(pushed)
    /\ leafCount <= MaxLeaves
    /\ Len(peaks) = PopCount(leafCount)
    /\ pc = "merge" =>
          /\ leafCount < MaxLeaves
          /\ Len(amt) = newPeaks + PopCount(leafCount) + 1 - TrailingOnes(leafCount)


\* Dropping the last two entries of a sequence shortens it by two: the
\* merge's delete(count - 1) twice.
LEMMA PrefixLen ==
    ASSUME NEW S, NEW s \in Seq(S), NEW n, n = Len(s), n >= 2
    PROVE  Len(SubSeq(s, 1, n - 2)) = n - 2
  OBVIOUS

\* count_ones() is a natural number: it counts elements of a finite
\* interval.
LEMMA PopCountNat ==
    ASSUME NEW n \in Nat
    PROVE  PopCount(n) \in Nat
<1> DEFINE S == Positions(n)
           T == {k \in S : Bit(n, k) = 1}
<1>1. IsFiniteSet(S)
  BY FS_Interval DEF Positions
<1>2. IsFiniteSet(T)
  BY <1>1, FS_Subset
<1>3. Cardinality(T) \in Nat
  BY <1>2, FS_CardinalityType
<1> QED
  BY <1>3 DEF PopCount, Quantify

LEMMA InitPeakCount == Init => PeakCountInv
<1> SUFFICES ASSUME Init PROVE PeakCountInv
  OBVIOUS
<1>1. PopCount(0) = 0
  <2>1. Positions(0) = {0} /\ Bit(0, 0) = 0
    <3>1. 2^0 = 1
      OBVIOUS
    <3> QED
      BY <3>1 DEF Positions, Bit
  <2>2. {k \in Positions(0) : Bit(0, k) = 1} = {}
    BY <2>1
  <2> QED
    BY <2>2, FS_EmptySet DEF PopCount, Quantify
<1> QED
  BY <1>1, ConstantsAssumption DEF Init, PeakCountInv

(* One step keeps PeakCountInv, given the carry arithmetic up to the     *)
(* bound on pushes: one case per action.                                  *)
LEMMA NextPeakCount ==
    ASSUME CarryArithmetic(MaxLeaves)
    PROVE  TypeOK /\ PeakCountInv /\ [Next]_vars => PeakCountInv'
<1> SUFFICES ASSUME TypeOK, PeakCountInv, [Next]_vars PROVE PeakCountInv'
  OBVIOUS
<1>0. /\ leafCount \in Nat /\ MaxLeaves \in Nat
      /\ PopCount(leafCount) \in Nat /\ TrailingOnes(leafCount) \in Nat
  BY PopCountNat, TrailingOnesNat, ConstantsAssumption DEF TypeOK
<1>1. ASSUME NEW v \in Values, PushStart(v) PROVE PeakCountInv'
  <2>1. /\ Len(amt') = Len(peaks) + 1
        /\ newPeaks' = TrailingOnes(leafCount)
        /\ pc' = "merge"
        /\ Len(pushed) < MaxLeaves
        /\ UNCHANGED <<peaks, leafCount, pushed>>
    BY <1>1 DEF PushStart, TypeOK
  <2> QED
    BY <1>0, <2>1 DEF PeakCountInv
<1>2. CASE PushStartFails
  BY <1>2 DEF PushStartFails, PeakCountInv
<1>3. CASE MergeStep
  <2> DEFINE n == Len(amt)
  <2>1. /\ n >= 2 /\ newPeaks > 0 /\ pc = "merge"
        /\ amt' = Append(SubSeq(amt, 1, n - 2), HashPair(amt[n - 1], amt[n]))
        /\ newPeaks' = newPeaks - 1
        /\ UNCHANGED <<peaks, leafCount, pc, pushed>>
    BY <1>3 DEF MergeStep
  <2>2. Len(SubSeq(amt, 1, n - 2)) = n - 2
    BY <2>1, PrefixLen DEF TypeOK
  <2>3. Len(amt') = n - 1
    BY <2>1, <2>2
  <2> QED
    BY <1>0, <2>1, <2>3 DEF PeakCountInv, TypeOK
<1>4. CASE PushAborts
  BY <1>4 DEF PushAborts, PeakCountInv
<1>5. CASE Commit
  <2>1. /\ pc = "merge" /\ newPeaks = 0
        /\ peaks' = amt /\ leafCount' = leafCount + 1
        /\ pushed' = Append(pushed, obj) /\ pc' = "idle"
    BY <1>5 DEF Commit
  <2>2. PopCount(leafCount + 1) = PopCount(leafCount) + 1 - TrailingOnes(leafCount)
    BY <1>0, <2>1 DEF CarryArithmetic, PeakCountInv
  <2>3. Len(pushed') = Len(pushed) + 1
    BY <2>1 DEF TypeOK
  <2> QED
    BY <1>0, <2>1, <2>2, <2>3 DEF PeakCountInv
<1>6. CASE UNCHANGED vars
  BY <1>6 DEF vars, PeakCountInv
<1> QED
  BY <1>1, <1>2, <1>3, <1>4, <1>5, <1>6 DEF Next

(* For every set of objects and every bound on pushes, leaf_count counts  *)
(* the successful pushes and the committed peaks are one per set bit of   *)
(* it (shared.rs push and flush); given the carry arithmetic of binary    *)
(* counting up to the bound.                                               *)
THEOREM PeakCountHolds ==
    ASSUME CarryArithmetic(MaxLeaves)
    PROVE  Spec => [](TypeOK /\ PeakCountInv)
<1>1. Init => TypeOK /\ PeakCountInv
  BY InitPeakCount DEF Init, TypeOK, NoPush
<1>2. TypeOK /\ PeakCountInv /\ [Next]_vars => PeakCountInv'
  BY NextPeakCount
<1> QED
  BY <1>1, <1>2, TypeCorrect, PTL DEF Spec

(* For every set of objects and every bound on pushes, every merge push's *)
(* loop still has to do finds two peaks to pop (shared.rs push, the loop  *)
(* over new_peaks), so delete(count - 1) never underflows; given the      *)
(* carry arithmetic of binary counting up to the bound.                   *)
THEOREM MergesInBoundsHolds ==
    ASSUME CarryArithmetic(MaxLeaves)
    PROVE  Spec => []MergesInBounds
<1>1. TypeOK /\ PeakCountInv => MergesInBounds
  <2> SUFFICES ASSUME TypeOK, PeakCountInv, pc = "merge"
               PROVE  newPeaks < Len(amt)
    BY DEF MergesInBounds
  <2>1. leafCount \in 0..MaxLeaves /\ leafCount \in Nat
    BY ConstantsAssumption DEF PeakCountInv, TypeOK
  <2>2. TrailingOnes(leafCount) <= PopCount(leafCount)
    BY <2>1 DEF CarryArithmetic
  <2>3. /\ PopCount(leafCount) \in Nat /\ TrailingOnes(leafCount) \in Nat
        /\ newPeaks \in Nat
    BY <2>1, PopCountNat, TrailingOnesNat DEF TypeOK
  <2>4. Len(amt) = newPeaks + PopCount(leafCount) + 1 - TrailingOnes(leafCount)
    BY DEF PeakCountInv
  <2> QED
    BY <2>2, <2>3, <2>4
<1> QED
  BY <1>1, PeakCountHolds, PTL

-----------------------------------------------------------------------------
(* The last Ok answer of push stays current until the next push: its root *)
(* is what get_root computes from the reloaded peaks, and its index is    *)
(* the last one below leaf_count.  A push that fails part way returns an  *)
(* error, so no stale Ok answer survives a change of State.               *)
(* PushReturnsBaggedRoot, which TLC checks, compares the same root with   *)
(* the peaks the pushes should have built.                                 *)
AnswerCurrent ==
    result.status = "ok" =>
        /\ result.root = GetRoot
        /\ result.index + 1 = leafCount

(* For every set of objects and every bound, an Ok push answer agrees     *)
(* with get_root and leaf_count until the next push (shared.rs push,      *)
(* get_root).                                                              *)
THEOREM AnswerCurrentHolds == Spec => []AnswerCurrent
<1>1. Init => AnswerCurrent
  BY DEF Init, AnswerCurrent, NoPush
<1>2. TypeOK /\ AnswerCurrent /\ [Next]_vars => AnswerCurrent'
  <2> SUFFICES ASSUME TypeOK, AnswerCurrent, [Next]_vars PROVE AnswerCurrent'
    OBVIOUS
  <2>1. ASSUME NEW v \in Values, PushStart(v) PROVE AnswerCurrent'
    BY <2>1 DEF PushStart, AnswerCurrent, GetRoot
  <2>2. CASE MergeStep
    BY <2>2 DEF MergeStep, AnswerCurrent, GetRoot
  <2>3. CASE PushStartFails \/ PushAborts
    BY <2>3 DEF PushStartFails, PushAborts, AnswerCurrent, PushErr
  <2>4. CASE Commit
    BY <2>4 DEF Commit, AnswerCurrent, GetRoot, PushOk, TypeOK
  <2>5. CASE UNCHANGED vars
    BY <2>5 DEF vars, AnswerCurrent, GetRoot
  <2> QED
    BY <2>1, <2>2, <2>3, <2>4, <2>5 DEF Next
<1> QED
  BY <1>1, <1>2, TypeCorrect, PTL DEF Spec

=============================================================================
