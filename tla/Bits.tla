-------------------------------- MODULE Bits --------------------------------
(***************************************************************************)
(* The unsigned-integer bit primitives that the accumulator's push and    *)
(* path resolution are built from (u64::count_ones, trailing_zeros of the *)
(* complement, leading_zeros, ^ and & with a low mask), written over Nat  *)
(* without recursion so that modules which prove theorems can use them.   *)
(* Every argument is a u64 value, i.e. below 2^64; the models only use    *)
(* small ones, for which none of these operations can wrap.               *)
(***************************************************************************)
EXTENDS Naturals, FiniteSetsExt

\* Bit k of n: (n >> k) & 1.
Bit(n, k) == (n \div 2^k) % 2

\* The bit positions that can be set in n: its highest set bit is at most
\* n \div 2 (and writing them so keeps 2^k within TLC's integers).
Positions(n) == 0..(n \div 2)

\* n.count_ones(): the number of set bits of n.
PopCount(n) == Quantify(Positions(n), LAMBDA k : Bit(n, k) = 1)

\* (!n).trailing_zeros(): the trailing zeros of the complement of n are
\* the trailing ones of n, i.e. the k whose low k bits of n are all set.
TrailingOnes(n) == Quantify(1..(n \div 2 + 1), LAMBDA k : n % 2^k = 2^k - 1)

\* u64::BITS - n.leading_zeros(): the number of significant bits of n.
BitLength(n) == Quantify(Positions(n), LAMBDA k : 2^k <= n)

\* a ^ b: the sum of the powers of two at which a and b differ.
Xor(a, b) == SumSet({2^k : k \in {j \in Positions(a) \cup Positions(b) : Bit(a, j) # Bit(b, j)}})

\* n & ((1 << h) - 1): the low h bits of n.
LowBits(n, h) == n % 2^h
\* The arithmetic of incrementing a binary counter, for every n up to N:
\* n has at least as many set bits as trailing ones, and n + 1 clears the
\* trailing ones and sets the bit above them.  A fact about the operators
\* above, not about the code; the proofs about push take it as a
\* hypothesis because the provers know nothing of 2^k for a variable k.
CarryArithmetic(N) ==
    \A n \in 0..N :
        /\ TrailingOnes(n) <= PopCount(n)
        /\ PopCount(n + 1) = PopCount(n) + 1 - TrailingOnes(n)
=============================================================================
