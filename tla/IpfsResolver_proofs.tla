-------------------------- MODULE IpfsResolver_proofs --------------------------
(***************************************************************************)
(* Proofs about the IPFS resolver's task handling (module IpfsResolver),  *)
(* for any finite set of tasks, any bound on attempts, with or without    *)
(* the resolver service failing.                                           *)
(***************************************************************************)
EXTENDS IpfsResolver, TLAPS

(* TaskAccounted is not inductive alone: a task that transaction          *)
(* processing submits must be in no place yet.  Every place a task can be *)
(* in holds only submitted tasks.                                          *)
OnlySubmitted ==
    /\ \A i \in 1..Len(queue) : queue[i] \in submitted
    /\ running \cup retrying \cup resolved \subseteq submitted

IInv == TypeOK /\ OnlySubmitted /\ TaskAccounted

LEMMA InitIInv == Init => IInv
BY IpfsResolverAssumption DEF Init, IInv, TypeOK, OnlySubmitted, TaskAccounted

(* One step of Next, or a stutter, keeps IInv: one case per action. *)
LEMMA NextIInv == IInv /\ [Next]_vars => IInv'
<1> SUFFICES ASSUME IInv, [Next]_vars PROVE IInv'
    OBVIOUS
<1> USE IpfsResolverAssumption DEF IInv, TypeOK, OnlySubmitted, TaskAccounted
<1>1. ASSUME NEW t \in Tasks, Submit(t) PROVE IInv'
    <2>1. /\ \A i \in 1..Len(queue) : queue[i] # t
          /\ t \notin running \cup retrying \cup resolved
        BY <1>1 DEF Submit
    <2>2. /\ queue' = Append(queue, t)
          /\ Len(queue') = Len(queue) + 1
          /\ queue'[Len(queue) + 1] = t
          /\ \A i \in 1..Len(queue) : queue'[i] = queue[i]
        BY <1>1 DEF Submit
    <2>3. /\ \A i, j \in 1..Len(queue') : queue'[i] = queue'[j] => i = j
          /\ \A i \in 1..Len(queue') :
                queue'[i] \notin running' \cup retrying' \cup resolved'
          /\ \A i \in 1..Len(queue') : queue'[i] \in submitted'
        BY <1>1, <2>1, <2>2 DEF Submit
    <2> QED
        BY <1>1, <2>1, <2>3 DEF Submit
<1>2. ASSUME NEW t \in Tasks, ContentAppears(t) PROVE IInv'
    BY <1>2 DEF ContentAppears
<1>3. CASE ServiceStops
    BY <1>3 DEF ServiceStops
<1>4. CASE Take
    <2> DEFINE h == Head(queue)
    <2>1. queue # <<>> /\ h = queue[1] /\ h \notin running \cup retrying \cup resolved
        BY <1>4 DEF Take
    <2>2. /\ queue' = Tail(queue)
          /\ Len(queue') = Len(queue) - 1
          /\ \A i \in 1..Len(queue') : queue'[i] = queue[i + 1]
        BY <1>4, <2>1 DEF Take
    <2>3. \A i \in 1..Len(queue) - 1 : queue[i + 1] # h
        BY <2>1
    <2> QED
        BY <1>4, <2>1, <2>2, <2>3 DEF Take
<1>5. ASSUME NEW t \in Tasks, Resolved(t) PROVE IInv'
    BY <1>5 DEF Resolved
<1>6. ASSUME NEW t \in Tasks, ResolveFailed(t) PROVE IInv'
    BY <1>6 DEF ResolveFailed
<1>7. ASSUME NEW t \in Tasks, ServiceError(t) PROVE IInv'
    BY <1>7 DEF ServiceError
<1>8. ASSUME NEW t \in Tasks, RetryFires(t) PROVE IInv'
    <2>1. /\ \A i \in 1..Len(queue) : queue[i] # t
          /\ t \notin running \cup resolved
        BY <1>8 DEF RetryFires
    <2> QED
        BY <1>8, <2>1 DEF RetryFires
<1>9. CASE UNCHANGED vars
    BY <1>9 DEF vars
<1> QED
    BY <1>1, <1>2, <1>3, <1>4, <1>5, <1>6, <1>7, <1>8, <1>9 DEF Next

(* For every set of tasks, no Cid is ever in two places of the resolver   *)
(* at once, and a resolved one is in none: run pops each task it spawns a *)
(* resolve for (ipfs.rs line 58), and a failed resolve hands its task to  *)
(* exactly one schedule_retry, which writes it back once (line 175).       *)
THEOREM TaskAccountedHolds == Spec => []TaskAccounted
<1>1. Init => IInv
    BY InitIInv
<1>2. IInv /\ [Next]_vars => IInv'
    BY NextIInv
<1>3. IInv => TaskAccounted
    BY DEF IInv
<1> QED
    BY <1>1, <1>2, <1>3, PTL DEF Spec

=============================================================================
