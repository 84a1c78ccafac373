----------------------------- MODULE IpfsResolver -----------------------------
(***************************************************************************)
(* The IPFS resolver of src/fendermint/vm/ipfs_resolver/src/ipfs.rs.       *)
(* `run` takes tasks from the resolve queue and spawns `start_resolve`     *)
(* for each; a background resolve either marks the task resolved and adds *)
(* and publishes our vote, or, on a resolution error, spawns               *)
(* `schedule_retry`, which sleeps and writes the task back to the queue.   *)
(* If the resolver service itself no longer answers, the task is dropped. *)
(* A task is its content's Cid; a Cid is a model value.                    *)
(***************************************************************************)
EXTENDS Naturals, Sequences, FiniteSets

CONSTANTS
    Tasks,          \* Cids that transaction processing asks to resolve
    MaxAttempts,    \* bound on failed resolution attempts per task
    ServiceFaults   \* whether the resolver service may stop answering

ASSUME IpfsResolverAssumption ==
    /\ IsFiniteSet(Tasks)
    /\ MaxAttempts \in Nat
    /\ ServiceFaults \in BOOLEAN

VARIABLES
    submitted,  \* tasks transaction processing has written to the queue
    queue,      \* the ResolveQueue (a TQueue: first in, first out)
    running,    \* tasks whose spawned start_resolve is awaiting resolve_ipfs
    retrying,   \* tasks whose spawned schedule_retry is sleeping
    attempts,   \* failed resolution attempts of each task
    resolved,   \* tasks whose task.set_resolved() ran
    voted,      \* Cids whose own vote vote_tally.add_object_vote added
    published,  \* Cids whose vote client.publish_vote sent
    available,  \* Cids the IPFS node can fetch by now
    serviceUp   \* the resolver service still answers requests

vars == <<submitted, queue, running, retrying, attempts, resolved, voted,
          published, available, serviceUp>>

Init ==
    /\ submitted = {}
    /\ queue = <<>>
    /\ running = {}
    /\ retrying = {}
    /\ attempts = [t \in Tasks |-> 0]
    /\ resolved = {}
    /\ voted = {}
    /\ published = {}
    /\ available \in SUBSET Tasks
    /\ serviceUp = TRUE

(* Environment: transaction processing enqueues a task once. *)
Submit(t) ==
    /\ t \notin submitted
    /\ submitted' = submitted \cup {t}
    /\ queue' = Append(queue, t)
    /\ UNCHANGED <<running, retrying, attempts, resolved, voted, published,
                   available, serviceUp>>

(* Environment: the content reaches the IPFS network. *)
ContentAppears(t) ==
    /\ t \notin available
    /\ available' = available \cup {t}
    /\ UNCHANGED <<submitted, queue, running, retrying, attempts, resolved,
                   voted, published, serviceUp>>

(* Environment: the resolver service stops listening. *)
ServiceStops ==
    /\ ServiceFaults
    /\ serviceUp
    /\ serviceUp' = FALSE
    /\ UNCHANGED <<submitted, queue, running, retrying, attempts, resolved,
                   voted, published, available>>

(* Mutant of Take: the task is read without being removed from the queue. *)
TakeWithoutPop ==
    /\ queue # <<>>
    /\ running' = running \cup {Head(queue)}
    /\ UNCHANGED <<submitted, queue, retrying, attempts, resolved, voted,
                   published, available, serviceUp>>

(* run: one loop iteration reads a task from the queue and spawns          *)
(* start_resolve for it.                                                   *)
Take ==
    /\ queue # <<>>
    /\ queue' = Tail(queue)
    /\ running' = running \cup {Head(queue)}
    /\ UNCHANGED <<submitted, retrying, attempts, resolved, voted, published,
                   available, serviceUp>>

(* resolve_ipfs returned Ok(Ok(())): set_resolved, then our vote is signed *)
(* and added to the tally; if it was added it is published.  Signing, the *)
(* tally and publishing may each fail, which is only logged.               *)
Resolved(t) ==
    /\ t \in running
    /\ serviceUp
    /\ t \in available
    /\ running' = running \ {t}
    /\ resolved' = resolved \cup {t}
    /\ \E added \in BOOLEAN, sent \in BOOLEAN :
          /\ voted' = IF added THEN voted \cup {t} ELSE voted
          /\ published' = IF added /\ sent THEN published \cup {t} ELSE published
    /\ UNCHANGED <<submitted, queue, retrying, attempts, available, serviceUp>>

(* Mutant of ResolveFailed: the error is logged but no retry is scheduled. *)
ResolveFailedNoRetry(t) ==
    /\ t \in running
    /\ serviceUp
    /\ t \notin available
    /\ attempts[t] < MaxAttempts
    /\ running' = running \ {t}
    /\ attempts' = [attempts EXCEPT ![t] = @ + 1]
    /\ UNCHANGED <<submitted, queue, retrying, resolved, voted, published,
                   available, serviceUp>>

(* resolve_ipfs returned Ok(Err(e)): the content could not be fetched;    *)
(* schedule_retry is spawned.                                              *)
ResolveFailed(t) ==
    /\ t \in running
    /\ serviceUp
    /\ t \notin available
    /\ attempts[t] < MaxAttempts
    /\ running' = running \ {t}
    /\ retrying' = retrying \cup {t}
    /\ attempts' = [attempts EXCEPT ![t] = @ + 1]
    /\ UNCHANGED <<submitted, queue, resolved, voted, published, available,
                   serviceUp>>

(* resolve_ipfs returned Err(e): the service is not listening; the task    *)
(* returns early and is neither resolved nor retried.                      *)
ServiceError(t) ==
    /\ t \in running
    /\ ~serviceUp
    /\ running' = running \ {t}
    /\ UNCHANGED <<submitted, queue, retrying, attempts, resolved, voted,
                   published, available, serviceUp>>

(* schedule_retry: after retry_delay the task is written back to the queue. *)
RetryFires(t) ==
    /\ t \in retrying
    /\ retrying' = retrying \ {t}
    /\ queue' = Append(queue, t)
    /\ UNCHANGED <<submitted, running, attempts, resolved, voted, published,
                   available, serviceUp>>

Next ==
    \/ \E t \in Tasks :
          \/ Submit(t)
          \/ ContentAppears(t)
          \/ Resolved(t)
          \/ ResolveFailed(t)
          \/ ServiceError(t)
          \/ RetryFires(t)
    \/ ServiceStops
    \/ Take

(* The run loop and every spawned tokio task make progress when they can: *)
(* the loop is polled, a resolve whose answer is there completes, a sleep  *)
(* ends.  The environment's steps are not forced.                          *)
Fairness ==
    /\ WF_vars(Take)
    /\ \A t \in Tasks :
          /\ WF_vars(Resolved(t))
          /\ WF_vars(ResolveFailed(t))
          /\ WF_vars(ServiceError(t))
          /\ WF_vars(RetryFires(t))

Spec == Init /\ [][Next]_vars /\ Fairness

-----------------------------------------------------------------------------
(* Properties *)

TypeOK ==
    /\ submitted \subseteq Tasks
    /\ queue \in Seq(Tasks)
    /\ running \subseteq Tasks
    /\ retrying \subseteq Tasks
    /\ attempts \in [Tasks -> 0..MaxAttempts]
    /\ resolved \subseteq Tasks
    /\ voted \subseteq Tasks
    /\ published \subseteq Tasks
    /\ available \subseteq Tasks
    /\ serviceUp \in BOOLEAN

(* A task is never duplicated: until it is resolved it is in at most one *)
(* place (once in the queue, in one running resolve, or in one retry's     *)
(* sleep), and once resolved it is in none, so no Cid is resolved and      *)
(* voted on by two background tasks at once.                               *)
TaskAccounted ==
    /\ \A i, j \in 1..Len(queue) : queue[i] = queue[j] => i = j
    /\ \A i \in 1..Len(queue) : queue[i] \notin running \cup retrying \cup resolved
    /\ running \cap (retrying \cup resolved) = {}
    /\ retrying \cap resolved = {}

(* A submitted task whose content is or becomes available is eventually   *)
(* resolved, unless the resolver service stops: every error path but the  *)
(* service's own failure re-queues the task through schedule_retry.        *)
EventuallyResolved ==
    \A t \in Tasks :
        (t \in submitted /\ t \in available) ~> (t \in resolved \/ ~serviceUp)

=============================================================================
