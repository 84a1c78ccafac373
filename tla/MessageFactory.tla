---------------------------- MODULE MessageFactory ----------------------------
(***************************************************************************)
(* The sequence numbering of src/fendermint/rpc/src/message.rs.           *)
(* MessageFactory::transaction stamps a message with `sequence` and        *)
(* increments it.  A factory is used either directly (the unsigned         *)
(* builders fevm_create, fevm_invoke, fevm_call of MessageFactory) or      *)
(* wrapped in a SignedMessageFactory, whose builders sign every message.   *)
(* The builders that create a transaction keep the increment; the          *)
(* read-only ones roll it back with set_sequence.                          *)
(* Message contents are left out: only the sequence is observable here.    *)
(***************************************************************************)
EXTENDS Naturals, Sequences

CONSTANTS
    SeqValues,   \* values a caller may pass to set_sequence
    MaxCalls,    \* bound on builder calls, failed ones included, between two
                 \* set_sequence calls
    SignFaults,  \* whether SignedMessage::new_secp256k1 may return Err
    Signed       \* whether the factory is wrapped in a SignedMessageFactory

ASSUME MessageFactoryAssumption ==
    /\ SeqValues \subseteq Nat
    /\ SeqValues # {}
    /\ MaxCalls \in Nat
    /\ SignFaults \in BOOLEAN
    /\ Signed \in BOOLEAN

\* The builders of MessageFactory itself: fevm_create and fevm_invoke build
\* a transaction, fevm_call builds one and rolls the sequence back.
UnsignedSendBuilders  == {"fevm_create", "fevm_invoke"}
UnsignedQueryBuilders == {"fevm_call"}

\* The builders of SignedMessageFactory.
SignedSendBuilders  == {"transfer", "os_put", "os_delete", "acc_push",
                        "fevm_create", "fevm_invoke"}
SignedQueryBuilders == {"os_get", "os_list", "acc_get_at", "acc_root",
                        "fevm_call"}

\* The builders a caller can reach: the wrapper keeps its inner factory
\* private, so one factory sees only signed or only unsigned calls.
SendBuilders  == IF Signed THEN SignedSendBuilders ELSE UnsignedSendBuilders
QueryBuilders == IF Signed THEN SignedQueryBuilders ELSE UnsignedQueryBuilders

VARIABLES
    sequence,  \* MessageFactory.sequence
    base,      \* the value of the last set_sequence (or of `new`)
    log        \* builder calls since then: [kind, seq of the message built]

vars == <<sequence, base, log>>

Init ==
    /\ sequence \in SeqValues   \* MessageFactory::new(addr, sequence)
    /\ base = sequence
    /\ log = <<>>

(* Mutant of Transaction: the increment is missing. *)
TransactionNoIncrement(seqNow) == [msgSeq |-> seqNow, next |-> seqNow]

(* MessageFactory::transaction: the message carries the current sequence, *)
(* which is then incremented.                                              *)
Transaction(seqNow) == [msgSeq |-> seqNow, next |-> seqNow + 1]

(* A builder that creates a transaction: params are serialised, then       *)
(* SignedMessageFactory::transaction calls inner.transaction and signs.    *)
Send(b) ==
    /\ Len(log) < MaxCalls
    /\ LET t == Transaction(sequence) IN
         /\ sequence' = t.next
         /\ log' = Append(log, [kind |-> "send", seq |-> t.msgSeq])
    /\ UNCHANGED base

(* Mutant of Query: the rollback restores the incremented value.           *)
QueryRollbackOffByOne(b) ==
    /\ Len(log) < MaxCalls
    /\ LET t == Transaction(sequence) IN
         /\ sequence' = t.next
         /\ log' = Append(log, [kind |-> "query", seq |-> t.msgSeq])
    /\ UNCHANGED base

(* A read-only builder: the same transaction, then                         *)
(* `self.inner.set_sequence(message.sequence)` undoes the increment.       *)
Query(b) ==
    /\ Len(log) < MaxCalls
    /\ LET t == Transaction(sequence) IN
         /\ sequence' = t.msgSeq
         /\ log' = Append(log, [kind |-> "query", seq |-> t.msgSeq])
    /\ UNCHANGED base

(* Signing fails after inner.transaction has incremented the sequence:     *)
(* `SignedMessage::new_secp256k1(...)?` returns the error, for a send      *)
(* builder and for a read-only one before it reaches its set_sequence.     *)
SignFails(b) ==
    /\ Signed
    /\ SignFaults
    /\ Len(log) < MaxCalls
    /\ LET t == Transaction(sequence) IN
         /\ sequence' = t.next
         /\ log' = Append(log, [kind |-> "failed", seq |-> t.msgSeq])
    /\ UNCHANGED base

(* set_sequence from a caller that learnt the account's sequence. *)
SetSequence(n) ==
    /\ sequence' = n
    /\ base' = n
    /\ log' = <<>>

Next ==
    \/ \E b \in SendBuilders : Send(b)
    \/ \E b \in QueryBuilders : Query(b)
    \/ \E b \in SendBuilders \cup QueryBuilders : SignFails(b)
    \/ \E n \in SeqValues : SetSequence(n)

Spec == Init /\ [][Next]_vars

-----------------------------------------------------------------------------
(* Properties *)

IsSend(m) == m.kind = "send"

\* The factory's sequence right after it built m, if numbering is intact:
\* one past a transaction's, the same as a read-only message's.
SequenceAfter(m) == IF IsSend(m) THEN m.seq + 1 ELSE m.seq

(* Since the last set_sequence, the transactions a factory hands out are  *)
(* numbered base, base + 1, ... without gap or repeat, every read-only     *)
(* message carries the sequence the next transaction will get, and the    *)
(* factory's sequence is the one after the last transaction: read-only     *)
(* calls interleaved with sends never shift the numbering.  Stated call   *)
(* by call: the first message carries base, each later one the sequence   *)
(* its predecessor left, and the factory holds what the last one left     *)
(* (by induction on the log, the same as counting the sends before each). *)
SequenceNumbering ==
    /\ \A i \in 1..Len(log) :
          log[i].seq = IF i = 1 THEN base ELSE SequenceAfter(log[i - 1])
    /\ sequence = IF log = <<>> THEN base ELSE SequenceAfter(log[Len(log)])

(* A sequence is never handed out twice: each transaction a factory       *)
(* builds after a set_sequence gets a larger sequence than every earlier  *)
(* transaction, whatever builder calls fail or roll back in between, so   *)
(* the chain never sees two of them compete for one sequence.             *)
SendsNeverRepeat ==
    \A i, j \in 1..Len(log) :
        i < j /\ IsSend(log[i]) /\ IsSend(log[j]) => log[i].seq < log[j].seq

=============================================================================
