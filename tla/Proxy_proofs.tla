----------------------------- MODULE Proxy_proofs -----------------------------
(***************************************************************************)
(* Proofs about the proxy's nonce lock (module Proxy), for any finite set  *)
(* of requests, any set of broadcast modes, with or without transport     *)
(* failures.                                                               *)
(***************************************************************************)
EXTENDS Proxy, TLAPS

(* Two requests that returned Ok used different sequences.  It follows    *)
(* from OkSequencesAscend along a behaviour; as a state predicate it is  *)
(* part of the inductive invariant.                                       *)
DistinctOkSequences ==
    \A r1, r2 \in Requests :
        r1 # r2 /\ reply[r1] = "ok" /\ reply[r2] = "ok" => seq[r1] # seq[r2]

(* What the lock discipline keeps true beyond DistinctOkSequences:         *)
(*  - a request is in the mutex's queue at most once, and only while it   *)
(*    is waiting (Arrive is the only way in and needs an idle request);   *)
(*  - a request that has not yet been granted the lock has no reply;      *)
(*  - the holder has sent its message, stamped with the current nonce,    *)
(*    and has not replied yet;                                             *)
(*  - every request that returned Ok used a sequence below the nonce.      *)
LockInv ==
    /\ \A i \in 1..Len(waiters) : stage[waiters[i]] = "waiting"
    /\ \A i, j \in 1..Len(waiters) : waiters[i] = waiters[j] => i = j
    /\ \A r \in Requests : stage[r] \in {"idle", "waiting"} => reply[r] = "none"
    /\ holder # NoReq =>
          /\ stage[holder] = "sent"
          /\ seq[holder] = nonce
          /\ reply[holder] = "none"
    /\ \A r \in Requests : reply[r] = "ok" => seq[r] < nonce

IInv == TypeOK /\ LockInv /\ DistinctOkSequences

LEMMA InitIInv == Init => IInv
BY ProxyAssumption DEF Init, IInv, TypeOK, LockInv, DistinctOkSequences,
                       Stages, Outcomes

(* One step of Next, or a stutter, keeps IInv: one case per action. *)
LEMMA NextIInv == IInv /\ [Next]_vars => IInv'
<1> SUFFICES ASSUME IInv, [Next]_vars PROVE IInv'
    OBVIOUS
<1> USE ProxyAssumption DEF IInv, TypeOK, LockInv, DistinctOkSequences,
                            Stages, Outcomes
<1>1. ASSUME NEW r \in Requests, Arrive(r) PROVE IInv'
    <2>1. holder # r
        BY <1>1 DEF Arrive
    <2>2. \A i \in 1..Len(waiters) : waiters[i] # r
        BY <1>1 DEF Arrive
    <2> QED
        BY <1>1, <2>1, <2>2 DEF Arrive
<1>2. ASSUME NEW r \in Requests, Acquire(r) PROVE IInv'
    <2>1. waiters[1] = r /\ Len(waiters) >= 1
        BY <1>2 DEF Acquire
    <2>2. \A i \in 1..Len(waiters) - 1 : waiters[i + 1] # r
        BY <2>1
    <2>3. stage[r] = "waiting" /\ reply[r] = "none"
        BY <2>1
    <2> QED
        BY <1>2, <2>1, <2>2, <2>3 DEF Acquire
<1>3. ASSUME NEW r \in Requests, BuildFails(r) PROVE IInv'
    <2>1. waiters[1] = r /\ Len(waiters) >= 1
        BY <1>3 DEF BuildFails
    <2>2. \A i \in 1..Len(waiters) - 1 : waiters[i + 1] # r
        BY <2>1
    <2> QED
        BY <1>3, <2>1, <2>2 DEF BuildFails
<1>4. ASSUME NEW r \in Requests, CheckAccept(r) PROVE IInv'
    BY <1>4 DEF CheckAccept
<1>5. ASSUME NEW r \in Requests, CheckReject(r) PROVE IInv'
    BY <1>5 DEF CheckReject
<1>6. ASSUME NEW r \in Requests, Respond(r) PROVE IInv'
    <2>1. seq[r] = nonce /\ reply[r] = "none"
        BY <1>6 DEF Respond
    <2>2. CASE BroadcastOk(r)
        BY <1>6, <2>1, <2>2 DEF Respond
    <2>3. CASE ~BroadcastOk(r)
        BY <1>6, <2>1, <2>3 DEF Respond
    <2> QED
        BY <2>2, <2>3
<1>7. ASSUME NEW r \in Requests, TransportError(r) PROVE IInv'
    BY <1>7 DEF TransportError
<1>8. CASE Include
    BY <1>8 DEF Include
<1>9. CASE UNCHANGED vars
    BY <1>9 DEF vars
<1> QED
    BY <1>1, <1>2, <1>3, <1>4, <1>5, <1>6, <1>7, <1>8, <1>9 DEF Next

-----------------------------------------------------------------------------
(* Sync mode without transport failures.  What keeps the nonce in step    *)
(* with the node beyond NonceInSync:                                       *)
(*  - only the lock holder's message can be waiting for check_tx;         *)
(*  - every message in the mempool is accepted and pending, and appears   *)
(*    once;                                                                *)
(*  - a message not yet checked, or of a request not yet granted the      *)
(*    lock, has no verdict;                                                *)
(*  - the nonce equals the next expected sequence, except while the       *)
(*    holder's message has been accepted and the holder has not yet       *)
(*    incremented: then it is one behind.                                  *)
SyncInv ==
    /\ unchecked \subseteq {holder}
    /\ \A i \in 1..Len(mempool) : outcome[mempool[i]] = "pending"
    /\ \A i, j \in 1..Len(mempool) : mempool[i] = mempool[j] => i = j
    /\ \A r \in unchecked : outcome[r] = "none"
    /\ \A r \in Requests : stage[r] \in {"idle", "waiting"} => outcome[r] = "none"
    /\ holder = NoReq => nonce = ChainNext
    /\ holder # NoReq =>
          IF outcome[holder] \in {"none", "rejected"}
          THEN nonce = ChainNext
          ELSE nonce + 1 = ChainNext

LEMMA InitSyncInv == Init => SyncInv
BY ProxyAssumption DEF Init, SyncInv, ChainNext

LEMMA NextSyncInv ==
    ASSUME Modes = {"sync"}, ~TransportFaults
    PROVE  IInv /\ SyncInv /\ [Next]_vars => SyncInv'
<1> SUFFICES ASSUME IInv, SyncInv, [Next]_vars PROVE SyncInv'
    OBVIOUS
<1> USE ProxyAssumption DEF IInv, TypeOK, LockInv, SyncInv, ChainNext,
                            Stages, Outcomes
<1>1. mode = "sync"
    OBVIOUS
<1>2. ASSUME NEW r \in Requests, Arrive(r) PROVE SyncInv'
    BY <1>2 DEF Arrive
<1>3. ASSUME NEW r \in Requests, Acquire(r) PROVE SyncInv'
    <2>1. unchecked = {} /\ nonce = ChainNext
        BY <1>3 DEF Acquire
    <2>2. waiters[1] = r /\ Len(waiters) >= 1
        BY <1>3 DEF Acquire
    <2>3. stage[r] = "waiting" /\ outcome[r] = "none"
        BY <2>2
    <2> QED
        BY <1>3, <2>1, <2>3 DEF Acquire
<1>4. ASSUME NEW r \in Requests, BuildFails(r) PROVE SyncInv'
    BY <1>4 DEF BuildFails
<1>5. ASSUME NEW r \in Requests, CheckAccept(r) PROVE SyncInv'
    <2>1. r = holder /\ outcome[r] = "none"
        BY <1>5 DEF CheckAccept
    <2>2. \A i \in 1..Len(mempool) : mempool[i] # r
        BY <2>1
    <2> QED
        BY <1>5, <2>1, <2>2 DEF CheckAccept
<1>6. ASSUME NEW r \in Requests, CheckReject(r) PROVE SyncInv'
    <2>1. r = holder /\ outcome[r] = "none"
        BY <1>6 DEF CheckReject
    <2> QED
        BY <1>6, <2>1 DEF CheckReject
<1>7. ASSUME NEW r \in Requests, Respond(r) PROVE SyncInv'
    <2>1. outcome[r] # "none"
        BY <1>1, <1>7 DEF Respond, Settled
    <2>2. BroadcastOk(r) <=> outcome[r] # "rejected"
        BY <1>1 DEF BroadcastOk
    <2> QED
        BY <1>7, <2>1, <2>2 DEF Respond
<1>8. ASSUME NEW r \in Requests, TransportError(r) PROVE SyncInv'
    BY <1>8 DEF TransportError
<1>9. CASE Include
    <2> DEFINE h == Head(mempool)
    <2>1. mempool # <<>> /\ h = mempool[1] /\ outcome[h] = "pending"
        BY <1>9 DEF Include
    <2>2. PICK res \in {"applied", "failed"} :
                outcome' = [outcome EXCEPT ![h] = res]
        BY <1>9 DEF Include
    <2>3. /\ mempool' = Tail(mempool)
          /\ Len(mempool') = Len(mempool) - 1
          /\ \A i \in 1..Len(mempool') : mempool'[i] = mempool[i + 1]
        BY <1>9, <2>1 DEF Include
    <2>4. ChainNext' = ChainNext
        BY <1>9, <2>3 DEF Include
    <2>5. \A i \in 1..Len(mempool) - 1 : mempool[i + 1] # h
        BY <2>1
    <2>6. \A r \in Requests : r # h => outcome'[r] = outcome[r]
        BY <2>2
    <2>7. outcome'[h] \in {"applied", "failed"}
        BY <2>1, <2>2
    <2>8. (\A i \in 1..Len(mempool') : outcome'[mempool'[i]] = "pending")
          /\ (\A i, j \in 1..Len(mempool') : mempool'[i] = mempool'[j] => i = j)
        BY <2>1, <2>3, <2>5, <2>6
    <2>9. /\ \A r \in unchecked' : outcome'[r] = "none"
          /\ \A r \in Requests :
                stage'[r] \in {"idle", "waiting"} => outcome'[r] = "none"
        BY <1>9, <2>1, <2>6 DEF Include
    <2>10. /\ unchecked' \subseteq {holder'}
           /\ holder' = NoReq => nonce' = ChainNext'
        BY <1>9, <2>4 DEF Include
    <2>11. holder' # NoReq =>
              IF outcome'[holder'] \in {"none", "rejected"}
              THEN nonce' = ChainNext'
              ELSE nonce' + 1 = ChainNext'
        BY <1>9, <2>1, <2>4, <2>6, <2>7 DEF Include
    <2> QED
        BY <2>8, <2>9, <2>10, <2>11
<1>10. CASE UNCHANGED vars
    BY <1>10 DEF vars
<1> QED
    BY <1>2, <1>3, <1>4, <1>5, <1>6, <1>7, <1>8, <1>9, <1>10 DEF Next

(* In sync mode, and as long as the RPC call itself never fails, the      *)
(* proxy's nonce is the sequence the node expects next whenever the lock  *)
(* is free and the node has checked everything it received, for every    *)
(* number of concurrent requests: broadcast's Err in sync mode means      *)
(* check_tx rejected the message, which consumes no sequence, so          *)
(* incrementing only on Ok (proxy.rs lines 157, 176, 258) is exact.        *)
THEOREM NonceInSyncHolds ==
    ASSUME Modes = {"sync"}, ~TransportFaults
    PROVE  Spec => []NonceInSync
<1>1. Init => IInv /\ SyncInv
    BY InitIInv, InitSyncInv
<1>2. IInv /\ SyncInv /\ [Next]_vars => (IInv /\ SyncInv)'
    BY NextIInv, NextSyncInv
<1>3. IInv /\ SyncInv => NonceInSync
    BY DEF SyncInv, NonceInSync
<1> QED
    BY <1>1, <1>2, <1>3, PTL DEF Spec


-----------------------------------------------------------------------------
(* The step OkSequencesAscend constrains: a handler's reply turning Ok.   *)
OkAscendStep ==
    \A r \in Requests :
        reply[r] # "ok" /\ reply'[r] = "ok" =>
            \A r2 \in Requests : reply[r2] = "ok" => seq[r2] < seq[r]

(* Only Respond turns a reply Ok, and only the holder's: every other      *)
(* action leaves the reply alone or sets it to an error.  Under IInv the  *)
(* holder's sequence is the nonce and every earlier Ok is below it.       *)
LEMMA NextOkAscend == IInv /\ [Next]_vars => OkAscendStep
<1> SUFFICES ASSUME IInv, [Next]_vars,
                    NEW r \in Requests, reply[r] # "ok", reply'[r] = "ok",
                    NEW r2 \in Requests, reply[r2] = "ok"
             PROVE  seq[r2] < seq[r]
    BY DEF OkAscendStep
<1> USE DEF IInv, TypeOK
<1>1. ASSUME NEW q \in Requests, Respond(q) PROVE seq[r2] < seq[r]
    <2>1. q = r
        <3> SUFFICES ASSUME q # r PROVE FALSE
            OBVIOUS
        <3>1. reply' = [reply EXCEPT ![q] = IF BroadcastOk(q) THEN "ok" ELSE "err"]
            BY <1>1 DEF Respond
        <3>2. reply'[r] = reply[r]
            BY <3>1
        <3> QED
            BY <3>2
    <2>2. seq[r] = nonce
        BY <1>1, <2>1, ProxyAssumption DEF Respond, LockInv
    <2> QED
        BY <2>2 DEF LockInv
<1>2. ASSUME NEW q \in Requests, BuildFails(q) PROVE FALSE
    BY <1>2 DEF BuildFails
<1>3. ASSUME NEW q \in Requests, TransportError(q) PROVE FALSE
    BY <1>3 DEF TransportError
<1>4. ASSUME NEW q \in Requests,
             \/ Arrive(q) \/ Acquire(q) \/ CheckAccept(q) \/ CheckReject(q)
      PROVE  FALSE
    BY <1>4 DEF Arrive, Acquire, CheckAccept, CheckReject
<1>5. CASE Include \/ UNCHANGED vars
    BY <1>5 DEF Include, vars
<1> QED
    BY <1>1, <1>2, <1>3, <1>4, <1>5 DEF Next

(* Handlers return Ok in the order of their sequences, for every number   *)
(* of concurrent requests, every mode, with transport failures: the nonce *)
(* is read under the lock and incremented before the guard is dropped     *)
(* (handle_os_add, handle_os_delete, handle_acc_push in proxy.rs).        *)
THEOREM OkSequencesAscendHolds == Spec => OkSequencesAscend
<1>1. Init => IInv
    BY InitIInv
<1>2. IInv /\ [Next]_vars => IInv'
    BY NextIInv
<1>3. IInv /\ [Next]_vars => [OkAscendStep]_vars
    BY NextOkAscend
<1> QED
    BY <1>1, <1>2, <1>3, PTL DEF Spec, OkSequencesAscend, OkAscendStep

=============================================================================
