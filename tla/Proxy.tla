-------------------------------- MODULE Proxy --------------------------------
(***************************************************************************)
(* The HTTP proxy of src/fendermint/app/src/cmd/proxy.rs: the handlers     *)
(* that submit transactions (handle_os_add, handle_os_delete,              *)
(* handle_acc_push) share one Arc<Mutex<u64>> nonce.  Each handler locks   *)
(* it, uses it as the message sequence, awaits `broadcast` with the lock   *)
(* held, and increments it only when `broadcast` returned Ok.              *)
(*                                                                         *)
(* The three handlers have the same control flow and differ only in the   *)
(* message they build, so a request is one model value.  The node the     *)
(* proxy talks to is modelled by what it does with the account sequence:  *)
(* check_tx accepts a message only with the next expected sequence,       *)
(* deliver_tx consumes the sequence whether execution succeeds or not.    *)
(***************************************************************************)
EXTENDS Naturals, Sequences, FiniteSets

CONSTANTS
    Requests,        \* concurrent HTTP requests that submit a transaction
    Modes,           \* the broadcast modes TransArgs may select
    TransportFaults, \* whether the RPC call itself may fail after sending
    NoReq            \* no handler holds the lock

ASSUME ProxyAssumption ==
    /\ IsFiniteSet(Requests)
    /\ NoReq \notin Requests
    /\ Modes \subseteq {"async", "sync", "commit"}
    /\ Modes # {}
    /\ TransportFaults \in BOOLEAN

VARIABLES
    mode,       \* args.broadcast_mode, fixed when the proxy starts
    nonce,      \* the u64 behind Arc<Mutex<u64>>
    holder,     \* the request whose handler holds the MutexGuard
    waiters,    \* tokio Mutex waiters, served first come first served
    stage,      \* where each request's handler is
    seq,        \* args.sequence of each request's message
    reply,      \* what each handler returned: "none", "ok" or "err"
    unchecked,  \* messages the node has received and not yet run check_tx on
    mempool,    \* messages check_tx accepted, in order, not yet in a block
    chainSeq,   \* the account's sequence in the committed state
    outcome     \* the node's verdict on each request's message

vars == <<mode, nonce, holder, waiters, stage, seq, reply, unchecked,
          mempool, chainSeq, outcome>>

Stages   == {"idle", "waiting", "sent", "done"}
Outcomes == {"none", "rejected", "pending", "applied", "failed"}

\* The sequence check_tx expects next: committed plus accepted in the mempool.
ChainNext == chainSeq + Len(mempool)

Init ==
    /\ mode \in Modes
    /\ nonce = 0          \* Start: Mutex::new(args.sequence), the chain's sequence
    /\ chainSeq = 0
    /\ holder = NoReq
    /\ waiters = <<>>
    /\ stage = [r \in Requests |-> "idle"]
    /\ seq = [r \in Requests |-> 0]
    /\ reply = [r \in Requests |-> "none"]
    /\ unchecked = {}
    /\ mempool = <<>>
    /\ outcome = [r \in Requests |-> "none"]

(* A handler calls nonce.lock().await and joins the mutex's queue. *)
Arrive(r) ==
    /\ stage[r] = "idle"
    /\ stage' = [stage EXCEPT ![r] = "waiting"]
    /\ waiters' = Append(waiters, r)
    /\ UNCHANGED <<mode, nonce, holder, seq, reply, unchecked, mempool,
                   chainSeq, outcome>>

(* The lock is granted to the first waiter; the handler sets               *)
(* args.sequence = *nonce_lck and broadcast sends the message built by     *)
(* MessageFactory::transaction with that sequence.                         *)
Acquire(r) ==
    /\ holder = NoReq
    /\ waiters # <<>>
    /\ Head(waiters) = r
    /\ holder' = r
    /\ waiters' = Tail(waiters)
    /\ seq' = [seq EXCEPT ![r] = nonce]
    /\ stage' = [stage EXCEPT ![r] = "sent"]
    /\ unchecked' = unchecked \cup {r}
    /\ UNCHANGED <<mode, nonce, reply, mempool, chainSeq, outcome>>

(* The lock is granted but TransClient::new fails before anything is sent:  *)
(* the handler returns the error and the guard is dropped.                 *)
BuildFails(r) ==
    /\ holder = NoReq
    /\ waiters # <<>>
    /\ Head(waiters) = r
    /\ waiters' = Tail(waiters)
    /\ stage' = [stage EXCEPT ![r] = "done"]
    /\ reply' = [reply EXCEPT ![r] = "err"]
    /\ UNCHANGED <<mode, nonce, holder, seq, unchecked, mempool, chainSeq,
                   outcome>>

(* The node runs check_tx: the message is accepted into the mempool only   *)
(* with the expected sequence; any message may be rejected for another     *)
(* reason (balance, gas), which consumes nothing.                          *)
CheckAccept(r) ==
    /\ r \in unchecked
    /\ seq[r] = ChainNext
    /\ unchecked' = unchecked \ {r}
    /\ mempool' = Append(mempool, r)
    /\ outcome' = [outcome EXCEPT ![r] = "pending"]
    /\ UNCHANGED <<mode, nonce, holder, waiters, stage, seq, reply, chainSeq>>

CheckReject(r) ==
    /\ r \in unchecked
    /\ unchecked' = unchecked \ {r}
    /\ outcome' = [outcome EXCEPT ![r] = "rejected"]
    /\ UNCHANGED <<mode, nonce, holder, waiters, stage, seq, reply, mempool,
                   chainSeq>>

(* The first mempool message is included in a block and delivered: the     *)
(* account's sequence is consumed whether or not execution succeeds.       *)
Include ==
    /\ mempool # <<>>
    /\ chainSeq' = chainSeq + 1
    /\ mempool' = Tail(mempool)
    /\ \E res \in {"applied", "failed"} :
          outcome' = [outcome EXCEPT ![Head(mempool)] = res]
    /\ UNCHANGED <<mode, nonce, holder, waiters, stage, seq, reply, unchecked>>

(* broadcast's answer is available: async returns once the node has the    *)
(* message, sync after check_tx, commit after check_tx rejected it or the  *)
(* block containing it was delivered.                                      *)
Settled(r) ==
    \/ mode = "async"
    \/ mode = "sync" /\ outcome[r] # "none"
    \/ mode = "commit" /\ outcome[r] \in {"rejected", "applied", "failed"}

(* broadcast returns Ok: always for async, when check_tx passed for sync,  *)
(* when both check_tx and deliver_tx passed for commit.                    *)
BroadcastOk(r) ==
    \/ mode = "async"
    \/ mode = "sync" /\ outcome[r] # "rejected"
    \/ mode = "commit" /\ outcome[r] = "applied"

(* Mutants of Respond: the increment forgotten, or done on every path.    *)
RespondWithoutIncrement(r) ==
    /\ holder = r /\ stage[r] = "sent" /\ Settled(r)
    /\ reply' = [reply EXCEPT ![r] = IF BroadcastOk(r) THEN "ok" ELSE "err"]
    /\ holder' = NoReq
    /\ stage' = [stage EXCEPT ![r] = "done"]
    /\ UNCHANGED <<mode, nonce, waiters, seq, unchecked, mempool, chainSeq,
                   outcome>>

RespondAlwaysIncrements(r) ==
    /\ holder = r /\ stage[r] = "sent" /\ Settled(r)
    /\ reply' = [reply EXCEPT ![r] = IF BroadcastOk(r) THEN "ok" ELSE "err"]
    /\ nonce' = nonce + 1
    /\ holder' = NoReq
    /\ stage' = [stage EXCEPT ![r] = "done"]
    /\ UNCHANGED <<mode, waiters, seq, unchecked, mempool, chainSeq, outcome>>

(* The handler returns: `*nonce_lck += 1` on Ok, the error through `?`     *)
(* otherwise; either way the guard is dropped.                             *)
Respond(r) ==
    /\ holder = r
    /\ stage[r] = "sent"
    /\ Settled(r)
    /\ reply' = [reply EXCEPT ![r] = IF BroadcastOk(r) THEN "ok" ELSE "err"]
    /\ nonce' = IF BroadcastOk(r) THEN nonce + 1 ELSE nonce
    /\ holder' = NoReq
    /\ stage' = [stage EXCEPT ![r] = "done"]
    /\ UNCHANGED <<mode, waiters, seq, unchecked, mempool, chainSeq, outcome>>

(* The RPC call fails after the message left (connection lost, the       *)
(* broadcast_tx_commit timeout): `f(...).await?` returns the error.       *)
TransportError(r) ==
    /\ TransportFaults
    /\ holder = r
    /\ stage[r] = "sent"
    /\ reply' = [reply EXCEPT ![r] = "err"]
    /\ holder' = NoReq
    /\ stage' = [stage EXCEPT ![r] = "done"]
    /\ UNCHANGED <<mode, nonce, waiters, seq, unchecked, mempool, chainSeq,
                   outcome>>

Next ==
    \/ \E r \in Requests :
          \/ Arrive(r)
          \/ Acquire(r)
          \/ BuildFails(r)
          \/ CheckAccept(r)
          \/ CheckReject(r)
          \/ Respond(r)
          \/ TransportError(r)
    \/ Include

Spec == Init /\ [][Next]_vars

-----------------------------------------------------------------------------
(* Properties *)

TypeOK ==
    /\ mode \in Modes
    /\ nonce \in Nat
    /\ chainSeq \in Nat
    /\ holder \in Requests \cup {NoReq}
    /\ waiters \in Seq(Requests)
    /\ stage \in [Requests -> Stages]
    /\ seq \in [Requests -> Nat]
    /\ reply \in [Requests -> {"none", "ok", "err"}]
    /\ unchecked \subseteq Requests
    /\ mempool \in Seq(Requests)
    /\ outcome \in [Requests -> Outcomes]

(* Handlers return Ok in the order of their sequences: a step in which a  *)
(* handler returns Ok reports a sequence above that of every handler that *)
(* returned Ok before it.  The holder read the nonce under the lock, and  *)
(* each earlier Ok incremented it before dropping the guard, so a client  *)
(* that saw Ok for one push never sees a later Ok for a lower sequence.   *)
OkSequencesAscend ==
    [][\A r \in Requests :
          reply[r] # "ok" /\ reply'[r] = "ok" =>
              \A r2 \in Requests : reply[r2] = "ok" => seq[r2] < seq[r]]_vars

(* Whenever no handler holds the lock and the node has checked everything  *)
(* it received, the proxy's nonce is the sequence the node expects next:   *)
(* the increment-only-on-Ok rule keeps the two in step, so the next        *)
(* request is not rejected for its sequence.                               *)
NonceInSync ==
    holder = NoReq /\ unchecked = {} => nonce = ChainNext

=============================================================================
