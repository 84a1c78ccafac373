------------------------- MODULE MessageFactory_proofs -------------------------
(***************************************************************************)
(* Proofs about the message factory's sequence (module MessageFactory),   *)
(* for every set of sequences a caller may set, every number of builder   *)
(* calls, with or without signing failures.                                *)
(***************************************************************************)
EXTENDS MessageFactory, SequenceTheorems, TLAPS

Kinds == {"send", "query", "failed"}

TypeOK ==
    /\ sequence \in Nat
    /\ base \in Nat
    /\ log \in Seq([kind : Kinds, seq : Nat])

(* What makes SendsNeverRepeat inductive: no message built since the last *)
(* set_sequence carries a sequence above the factory's, and every         *)
(* transaction among them carries one below it, since its builder         *)
(* incremented the sequence past it.                                       *)
BelowSequence ==
    \A i \in 1..Len(log) :
        /\ log[i].seq <= sequence
        /\ IsSend(log[i]) => log[i].seq < sequence

IInv == TypeOK /\ BelowSequence /\ SendsNeverRepeat

LEMMA InitIInv == Init => IInv
BY MessageFactoryAssumption DEF Init, IInv, TypeOK, BelowSequence, SendsNeverRepeat

(* A call that appends one message built with the current sequence. *)
LEMMA AppendEntry ==
    ASSUME TypeOK, NEW k \in Kinds,
           log' = Append(log, [kind |-> k, seq |-> sequence])
    PROVE  /\ Len(log') = Len(log) + 1
           /\ log'[Len(log) + 1] = [kind |-> k, seq |-> sequence]
           /\ \A i \in 1..Len(log) : log'[i] = log[i]
BY DEF TypeOK

LEMMA NextIInv == IInv /\ [Next]_vars => IInv'
<1> SUFFICES ASSUME IInv, [Next]_vars PROVE IInv'
    OBVIOUS
<1> USE MessageFactoryAssumption DEF IInv, TypeOK, BelowSequence,
                                     SendsNeverRepeat, IsSend, Kinds
<1>1. ASSUME NEW b \in SendBuilders, Send(b) PROVE IInv'
    <2>1. sequence' = sequence + 1 /\ base' = base
        BY <1>1 DEF Send, Transaction
    <2>2. log' = Append(log, [kind |-> "send", seq |-> sequence])
        BY <1>1 DEF Send, Transaction
    <2>3. /\ Len(log') = Len(log) + 1
          /\ log'[Len(log) + 1] = [kind |-> "send", seq |-> sequence]
          /\ \A i \in 1..Len(log) : log'[i] = log[i]
        BY <2>2, AppendEntry
    <2>4. TypeOK'
        <3>1. [kind |-> "send", seq |-> sequence] \in [kind : Kinds, seq : Nat]
            OBVIOUS
        <3> QED
            BY <2>1, <2>2, <3>1
    <2>5. BelowSequence'
        <3> SUFFICES ASSUME NEW i \in 1..Len(log')
                     PROVE  /\ log'[i].seq <= sequence'
                            /\ IsSend(log'[i]) => log'[i].seq < sequence'
            OBVIOUS
        <3>1. CASE i = Len(log) + 1
            BY <2>1, <2>3, <3>1
        <3>2. CASE i # Len(log) + 1
            <4>1. i \in 1..Len(log) /\ log'[i] = log[i]
                BY <2>3, <3>2
            <4>2. log[i].seq \in Nat
                <5>1. log[i] \in [kind : Kinds, seq : Nat]
                    BY <4>1, ElementOfSeq
                <5> QED
                    BY <5>1
            <4> QED
                BY <2>1, <4>1, <4>2
        <3> QED
            BY <3>1, <3>2
    <2>6. SendsNeverRepeat'
        <3> SUFFICES ASSUME NEW i \in 1..Len(log'), NEW j \in 1..Len(log'),
                            i < j, IsSend(log'[i]), IsSend(log'[j])
                     PROVE  log'[i].seq < log'[j].seq
            OBVIOUS
        <3>1. CASE j = Len(log) + 1
            BY <2>3, <3>1
        <3>2. CASE j # Len(log) + 1
            <4>1. i \in 1..Len(log) /\ j \in 1..Len(log)
                BY <2>3, <3>2
            <4>2. log'[i] = log[i] /\ log'[j] = log[j]
                BY <2>3, <4>1
            <4> QED
                BY <4>1, <4>2
        <3> QED
            BY <3>1, <3>2
    <2> QED
        BY <2>4, <2>5, <2>6
<1>2. ASSUME NEW b \in QueryBuilders, Query(b) PROVE IInv'
    <2>1. sequence' = sequence /\ base' = base
        BY <1>2 DEF Query, Transaction
    <2>2. log' = Append(log, [kind |-> "query", seq |-> sequence])
        BY <1>2 DEF Query, Transaction
    <2> QED
        BY <2>1, <2>2, AppendEntry
<1>3. ASSUME NEW b \in SendBuilders \cup QueryBuilders, SignFails(b)
      PROVE  IInv'
    <2>1. sequence' = sequence + 1 /\ base' = base
        BY <1>3 DEF SignFails, Transaction
    <2>2. log' = Append(log, [kind |-> "failed", seq |-> sequence])
        BY <1>3 DEF SignFails, Transaction
    <2>3. /\ Len(log') = Len(log) + 1
          /\ log'[Len(log) + 1] = [kind |-> "failed", seq |-> sequence]
          /\ \A i \in 1..Len(log) : log'[i] = log[i]
        BY <2>2, AppendEntry
    <2>4. TypeOK'
        <3>1. [kind |-> "failed", seq |-> sequence] \in [kind : Kinds, seq : Nat]
            OBVIOUS
        <3> QED
            BY <2>1, <2>2, <3>1
    <2>5. BelowSequence'
        <3> SUFFICES ASSUME NEW i \in 1..Len(log')
                     PROVE  /\ log'[i].seq <= sequence'
                            /\ IsSend(log'[i]) => log'[i].seq < sequence'
            OBVIOUS
        <3>1. CASE i = Len(log) + 1
            BY <2>1, <2>3, <3>1
        <3>2. CASE i # Len(log) + 1
            <4>1. i \in 1..Len(log) /\ log'[i] = log[i]
                BY <2>3, <3>2
            <4>2. log[i].seq \in Nat
                <5>1. log[i] \in [kind : Kinds, seq : Nat]
                    BY <4>1, ElementOfSeq
                <5> QED
                    BY <5>1
            <4> QED
                BY <2>1, <4>1, <4>2
        <3> QED
            BY <3>1, <3>2
    <2>6. SendsNeverRepeat'
        <3> SUFFICES ASSUME NEW i \in 1..Len(log'), NEW j \in 1..Len(log'),
                            i < j, IsSend(log'[i]), IsSend(log'[j])
                     PROVE  log'[i].seq < log'[j].seq
            OBVIOUS
        <3>1. i \in 1..Len(log) /\ j \in 1..Len(log)
            <4>1. ~IsSend(log'[Len(log) + 1])
                BY <2>3
            <4>2. i < Len(log) + 1 /\ j # Len(log) + 1
                BY <2>3, <4>1
            <4>3. Len(log) \in Nat
                BY LenProperties
            <4> QED
                BY <2>3, <4>2, <4>3, SMTT(30)
        <3>2. log'[i] = log[i] /\ log'[j] = log[j]
            BY <2>3, <3>1
        <3> QED
            BY <3>1, <3>2
    <2> QED
        BY <2>4, <2>5, <2>6
<1>4. ASSUME NEW n \in SeqValues, SetSequence(n) PROVE IInv'
    <2>1. sequence' = n /\ base' = n /\ log' = << >> /\ n \in Nat
        BY <1>4 DEF SetSequence
    <2> QED
        BY <2>1
<1>5. CASE UNCHANGED vars
    <2>1. sequence' = sequence /\ base' = base /\ log' = log
        BY <1>5 DEF vars
    <2> QED
        BY <2>1
<1> QED
    BY <1>1, <1>2, <1>3, <1>4, <1>5 DEF Next

(* For every choice of sequences and any number of calls, no two          *)
(* transactions a factory builds after a set_sequence share a sequence,   *)
(* whatever read-only builders and failed signings happen between them:   *)
(* transaction increments after stamping (message.rs line 66) and the     *)
(* read-only builders only ever roll back to the message's own sequence.  *)
THEOREM SendsNeverRepeatHolds == Spec => []SendsNeverRepeat
<1>1. Init => IInv
    BY InitIInv
<1>2. IInv /\ [Next]_vars => IInv'
    BY NextIInv
<1>3. IInv => SendsNeverRepeat
    BY DEF IInv
<1> QED
    BY <1>1, <1>2, <1>3, PTL DEF Spec

-----------------------------------------------------------------------------
(* Numbering, for a factory whose signing cannot fail: an unsigned        *)
(* MessageFactory, or a SignedMessageFactory whose secp256k1 signing      *)
(* succeeds.  With TypeOK, SequenceNumbering is inductive as it stands.   *)

(* A builder call appends one message stamped with the factory's          *)
(* sequence and leaves the factory at what that message says it left:      *)
(* the numbering is kept.                                                  *)
LEMMA AppendKeepsNumbering ==
    ASSUME TypeOK, SequenceNumbering, NEW k \in Kinds,
           log' = Append(log, [kind |-> k, seq |-> sequence]),
           base' = base,
           sequence' = SequenceAfter([kind |-> k, seq |-> sequence])
    PROVE  SequenceNumbering'
<1> DEFINE m == [kind |-> k, seq |-> sequence]
<1>1. /\ Len(log') = Len(log) + 1
      /\ log'[Len(log) + 1] = m
      /\ \A i \in 1..Len(log) : log'[i] = log[i]
      /\ Len(log) \in Nat
      /\ log' # << >>
    BY AppendEntry, LenProperties DEF TypeOK
<1>2. sequence = IF Len(log) = 0 THEN base ELSE SequenceAfter(log[Len(log)])
    <2>1. log = << >> <=> Len(log) = 0
        BY EmptySeq DEF TypeOK
    <2> QED
        BY <2>1 DEF SequenceNumbering
<1>3. ASSUME NEW i \in 1..Len(log')
      PROVE  log'[i].seq = IF i = 1 THEN base' ELSE SequenceAfter(log'[i - 1])
    <2>1. CASE i = Len(log) + 1
        BY <1>1, <1>2, <2>1
    <2>2. CASE i \in 1..Len(log)
        <3>1. log'[i] = log[i] /\ (i > 1 => log'[i - 1] = log[i - 1])
            BY <1>1, <2>2
        <3> QED
            BY <2>2, <3>1 DEF SequenceNumbering
    <2> QED
        BY <1>1, <2>1, <2>2
<1>4. sequence' = IF log' = << >> THEN base' ELSE SequenceAfter(log'[Len(log')])
    BY <1>1
<1> QED
    BY <1>3, <1>4 DEF SequenceNumbering

LEMMA NextNumbering ==
    ASSUME ~(Signed /\ SignFaults)
    PROVE  IInv /\ SequenceNumbering /\ [Next]_vars => SequenceNumbering'
<1> SUFFICES ASSUME IInv, SequenceNumbering, [Next]_vars
             PROVE  SequenceNumbering'
    OBVIOUS
<1>0. TypeOK
    BY DEF IInv
<1>1. ASSUME NEW b \in SendBuilders, Send(b) PROVE SequenceNumbering'
    <2>1. /\ log' = Append(log, [kind |-> "send", seq |-> sequence])
          /\ base' = base
          /\ sequence' = SequenceAfter([kind |-> "send", seq |-> sequence])
        BY <1>1 DEF Send, Transaction, SequenceAfter, IsSend
    <2> QED
        BY <1>0, <2>1, AppendKeepsNumbering DEF Kinds
<1>2. ASSUME NEW b \in QueryBuilders, Query(b) PROVE SequenceNumbering'
    <2>1. /\ log' = Append(log, [kind |-> "query", seq |-> sequence])
          /\ base' = base
          /\ sequence' = SequenceAfter([kind |-> "query", seq |-> sequence])
        BY <1>2 DEF Query, Transaction, SequenceAfter, IsSend
    <2> QED
        BY <1>0, <2>1, AppendKeepsNumbering DEF Kinds
<1>3. ASSUME NEW b \in SendBuilders \cup QueryBuilders, SignFails(b)
      PROVE  FALSE
    BY <1>3 DEF SignFails
<1>4. ASSUME NEW n \in SeqValues, SetSequence(n) PROVE SequenceNumbering'
    BY <1>4 DEF SetSequence, SequenceNumbering
<1>5. CASE UNCHANGED vars
    BY <1>5 DEF vars, SequenceNumbering, SequenceAfter, IsSend
<1> QED
    BY <1>1, <1>2, <1>3, <1>4, <1>5 DEF Next

(* For every choice of sequences and any number of calls, a factory whose *)
(* signing cannot fail numbers the transactions it builds after a         *)
(* set_sequence base, base + 1, ... with no gap, and each read-only       *)
(* message carries the sequence the next transaction gets: transaction    *)
(* stamps then increments (message.rs line 66) and every read-only        *)
(* builder sets the sequence back to its message's (set_sequence).  With  *)
(* failing signatures the numbering breaks (run factory_sign_gap).         *)
THEOREM SequenceNumberingHolds ==
    ASSUME ~(Signed /\ SignFaults)
    PROVE  Spec => []SequenceNumbering
<1>1. Init => IInv /\ SequenceNumbering
    BY InitIInv DEF Init, SequenceNumbering
<1>2. IInv /\ SequenceNumbering /\ [Next]_vars => (IInv /\ SequenceNumbering)'
    BY NextIInv, NextNumbering
<1> QED
    BY <1>1, <1>2, PTL DEF Spec

=============================================================================
