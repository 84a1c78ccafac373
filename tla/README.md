# Formal model of the textileio/ipc accumulator and its clients

TLA+ modules, TLC runs and TLAPS proofs for the Merkle Mountain Range
accumulator in `src/fendermint/actors/accumulator/src/shared.rs` and for the
components around it in this repository: the HTTP proxy that submits pushes
(`src/fendermint/app/src/cmd/proxy.rs`), the message factory that numbers
them (`src/fendermint/rpc/src/message.rs`), and the IPFS resolver
(`src/fendermint/vm/ipfs_resolver/src/ipfs.rs`). All paths below are
relative to the repository root.

## 1. Inventory

### Components

| Component | Source | State it keeps | Operations |
|---|---|---|---|
| Pair hasher | `accumulator/src/shared.rs` 43-74 | none (pure; the persisting variant writes one block) | `hash_pair`, `hash_and_put_pair` |
| Accumulator state and push | `shared.rs` 76-104, 217-289 | `State { owner, write_access, peaks: Cid of an AMT, leaf_count: u64 }`, the blockstore | `State::new`, `State::push` (with the free function `push`) |
| Root bagging and accessors | `shared.rs` 106-123, 267-304 | reads only | `bag_peaks`, `get_root`, `get_peaks`, `peak_count`, `leaf_count` |
| Path resolver | `shared.rs` 125-154 | none (pure, u64 arithmetic) | `path_for_eigen_root` |
| Historical lookup | `shared.rs` 156-215, 306-317 | reads only | `get_at`, `get_leaf_at` |
| HTTP proxy | `app/src/cmd/proxy.rs` | `Arc<Mutex<u64>>` nonce shared by all handlers | `handle_os_add`, `handle_os_delete`, `handle_acc_push` (take the nonce), `handle_os_get`, `handle_os_list`, `handle_acc_root` (queries), `broadcast` |
| Message factory | `rpc/src/message.rs` | `MessageFactory { addr, sequence }` | `transaction` (uses and increments `sequence`), `set_sequence`, the read-only builders that roll the sequence back |
| IPFS resolver | `vm/ipfs_resolver/src/ipfs.rs` | the resolve queue, per-task resolved flag, the vote tally | `run` (take task), `start_resolve` (background resolve, vote), `schedule_retry` |
| Object store, ADM interface | `actors/objectstore/src/shared.rs`, `vm/actor_interface/src/adm.rs` | parameter types only | none in these sources |

### How they interact

A client `PUT /v1/acc` reaches `handle_acc_push`, which takes the proxy's
nonce lock, builds a signed `Push` message with that sequence, broadcasts it
and increments the nonce only if the broadcast returned Ok. The chain executes
the message by calling `State::push` on the accumulator actor's state; the
actor runtime runs one call at a time, so `push` has a single writer. `push`
puts the leaf and every merged pair into the blockstore, flushes the AMT of
peaks and stores its root Cid and the new leaf count in `State`. Queries
(`get_root`, `get_leaf_at`) run against a committed `State` and only read.
The IPFS resolver is an independent background loop: transaction processing
enqueues tasks, background tasks resolve them, retry failed ones after a
delay and vote on resolved ones.

### What is hard

* The merge loop is binary-counter carry propagation, driven by
  `(!leaf_count).trailing_zeros()`; an error in the carry count, the pop
  order or the loop bound produces peaks that are still hashes but not the
  MMR, or pops from a list that is too short (u64 underflow at line 95).
* Every put in the loop and the final flush can fail; the in-memory AMT and
  the store are then partly changed while `State` must keep the old handle
  and count.
* `path_for_eigen_root` reconstructs the tree shape from two integers with
  xor, leading zeros and popcounts; its u32 subtraction (line 148) and the
  walk's bit loop bounds (line 194) are off-by-one territory, and a lookup
  must keep working at every later size.
* The proxy's nonce is shared state across concurrent HTTP handlers and is
  only advanced on success, while the chain may consume a sequence even when
  the proxy sees an error.
* The resolver retries forever, drops a task on one kind of error, and marks
  a task resolved before its vote is tallied.

### What makes each component correct

* Push/merge: the committed peaks are always the perfect trees of the
  successful pushes, one per set bit of `leaf_count`, tallest first
  (`PeaksAreEigentrees`); the loop never needs more merges than there are
  peaks (`MergesInBounds`); every published reference names a stored block
  (`TypeOK`).
* The accumulator as a whole: every behaviour of the MMR, failed pushes
  included, is a behaviour of an append-only list whose push returns the
  new element's position (`ImplementsAccumulator`, the refinement of
  `Accumulator`).
* Bagging: the root push returns is the right fold, from the last peak
  back, of the peaks the pushed leaves should have (`PushReturnsBaggedRoot`).
* Path resolver and lookup: every pushed object is found at its index at
  every later size, out-of-range indexes give None (`GetLeafCorrect`,
  `PathMatchesReference`).
* Proxy: handlers return Ok in the order of their sequences, so no two Ok
  replies share a sequence (`OkSequencesAscend`, an action property); the
  proxy's nonce is the sequence the
  node expects next whenever the lock is free (`NonceInSync`), which holds
  in sync mode and fails in commit and async mode (findings below).
* Message factory: transactions are numbered consecutively from the last
  `set_sequence`, read-only builders leave the numbering alone
  (`SequenceNumbering`, fails when signing fails, finding below); no
  sequence is handed out twice (`SendsNeverRepeat`).
* Resolver: a task is never duplicated by the retry loop
  (`TaskAccounted`); while the service answers, every task whose content is
  available is eventually resolved (`EventuallyResolved`).

The hazards this code is exposed to, each at its line, are listed under
`hazards` in `PROJECT.json` with the properties that cover them.

## 2. Modules

| Module | Models | Notes |
|---|---|---|
| `Bits` | u64 `count_ones`, `(!n).trailing_zeros()`, `leading_zeros`, `^`, `& mask` | no recursion: `Quantify`/`SumSet` over bit positions, so it can be used by proved modules |
| `PathResolver` | `path_for_eigen_root` | plus an independent reference (`ExpectedPath`) from the interval each peak covers |
| `MCPathResolver` | exhaustive query run | one state per (index, count) pair |
| `MMR` | `State::new`, `State::push`/`push`, `hash_pair`, `hash_and_put_pair`, `bag_peaks`, `get_at`, `get_leaf_at`, `get_root`, `get_peaks`, `peak_count` | the core |
| `MCMMR` | TLC instance of `MMR` | two objects, eight pushes, symmetry |
| `MMR_proofs` | TLAPS proofs about `MMR` | |
| `Accumulator` | what `push` and `get_leaf_at` promise: an append-only list | abstract specification |
| `MMRAccumulator` | the refinement mapping from `MMR` to `Accumulator` | reads the list off the committed peaks |
| `MCMMRAccumulator` | TLC instance of `MMRAccumulator` | two objects, eight pushes |
| `Proxy` | `handle_os_add`, `handle_os_delete`, `handle_acc_push`, `broadcast`, the nonce `Mutex`, and the node's check_tx/deliver_tx effect on the sequence | three handlers share one control flow |
| `MCProxy` | TLC instance of `Proxy` | three requests |
| `Proxy_proofs` | TLAPS proofs about `Proxy` | |
| `MessageFactory` | `MessageFactory::transaction`, `set_sequence`, the unsigned `fevm_*` builders, the `SignedMessageFactory` builders | sequence numbering only |
| `MCMessageFactory` | TLC instance of `MessageFactory` | |
| `MessageFactory_proofs` | TLAPS proofs about `MessageFactory` | |
| `IpfsResolver` | `IpfsResolver::new`, `run`, `start_resolve`, `schedule_retry` | |
| `MCIpfsResolver` | TLC instance of `IpfsResolver` | three Cids |
| `IpfsResolver_proofs` | TLAPS proofs about `IpfsResolver` | |

### Correspondence of `MMR` to the code

* A `Cid` is modelled by the content it addresses: a leaf's reference is the
  pushed object, a pair's is `<<left, right>>` (`HashPair`). This is
  content addressing with a collision-free hash (Blake2b-256): equal content
  gives equal references, different content different ones. `hash_pair`
  and `hash_and_put_pair` return the same reference by construction; the
  difference between them is whether `store` gains it.
* `store` is the blockstore as the set of references whose block was put.
  `AsPair` / `AsLeaf` are `get_cbor` of a pair or of an object: the block
  must be stored and of that shape, otherwise the lookup fails.
* `peaks` is `State.peaks`: the AMT of peaks is modelled by its entries, a
  sequence, which is what its flushed root Cid determines. `amt` is the AMT
  loaded in memory during a push. `leafCount` is `State.leaf_count`.
* `State::push` is one actor call; it is split where the code talks to the
  store, because each of those calls can fail:
  `PushStart(v)` (Amt load, leaf put, `set(count, leaf)`, merge count),
  `MergeStep` (one loop iteration: delete right, delete left,
  `hash_and_put_pair`, `set`), `Commit` (flush, `self.peaks = ...`,
  `leaf_count += 1`, `bag_peaks`, return). `PushStartFails` is a failed
  load or leaf put, `PushAborts` a failed put in the loop or a failed flush:
  both return `Err` before `State` is assigned, and the blocks already put
  stay in the store. Nothing else runs during a push (single writer), so
  the split adds failure points, not interleavings.
* `pushed` and `result` are history: the objects of the pushes that returned
  Ok, and what the last push returned. They are what the properties compare
  the state with.

### Refinement of `Accumulator` by `MMR`

`Accumulator` states what the actor promises without the tree: a list
`list` and the last push's `result` (status and index). `Push(v)` appends
and returns the old length as the index; `Fail` returns an error and
leaves the list alone. `MMRAccumulator` instantiates it with
`list <- PeakLeaves`, the objects the committed peaks commit to, read off
each peak's reference left to right (`LeavesOf`) and concatenated over the
peaks tallest first, and `result <-` the status and index of `MMR`'s
`result`. The mapping does not use the history variable `pushed`: it reads
the trees push built. Under it `Commit` is `Push(obj)`, `PushStartFails`
and `PushAborts` are `Fail`, and `PushStart` and `MergeStep` are stutters,
because they change neither `peaks` nor `result`. `ImplementsAccumulator
== Abstract!Spec` is checked as a temporal property of `MMR`'s `Spec`.

### Correspondence of `Proxy` to the code

* `nonce` is the `u64` inside `Arc<Mutex<u64>>`, created from
  `args.sequence` at start; `Init` gives it the chain's sequence, 0.
  `holder` is the handler that owns the `MutexGuard` and `waiters` is
  tokio's mutex queue, which grants the lock first come, first served.
* A request is one call of `handle_os_add`, `handle_os_delete` or
  `handle_acc_push`; the three differ only in the message built.
  `Arrive` is `nonce.lock().await`. `Acquire` is the grant, followed by
  `args.sequence = *nonce_lck` and the send inside `broadcast`: nothing
  else touches shared state in between. `BuildFails` is
  `TransClient::new(...)?` failing before anything is sent. `Respond` is
  the rest of the handler: `broadcast` maps the node's answer to Ok or Err
  by mode (`Settled`, `BroadcastOk`: lines 375-396), then
  `*nonce_lck += 1` on Ok only and the guard is dropped.
  `TransportError` is `f(...).await?` failing after the message left
  (connection lost, or `broadcast_tx_commit` timing out).
* The node is not code of this repository's sources and is modelled by
  its effect on the account sequence: `CheckAccept` / `CheckReject` are
  check_tx, which admits a message only with the next expected sequence
  (`ChainNext`, committed plus mempool) and may reject any message for
  another reason; `Include` is delivery of the first mempool message,
  which consumes its sequence whether execution succeeds or fails.
* `mode` is `args.broadcast_mode`, fixed for the proxy's lifetime and
  chosen in `Init` from `Modes`. The query handlers (`handle_os_get`,
  `handle_os_list`, `handle_acc_root`) take no lock and change no state.

### Correspondence of `MessageFactory` to the code

* `sequence` is `MessageFactory.sequence`; `Transaction` is
  `MessageFactory::transaction` (the message gets `sequence`, then it is
  incremented). The constant `Signed` says whether the factory is used
  directly, through its own `fevm_create`, `fevm_invoke` and `fevm_call`
  (`UnsignedSendBuilders`, `UnsignedQueryBuilders`), or wrapped in a
  `SignedMessageFactory`, which keeps its inner factory private, so that
  one factory never sees both kinds of call. `Send(b)` is a builder that creates a transaction,
  `Query(b)` a read-only builder, which calls the same `transaction` and
  then `set_sequence(message.sequence)`. `SignFails(b)`, for a signed
  factory only, is
  `SignedMessage::new_secp256k1(...)?` failing after the increment (for a
  read-only builder, before its rollback). Parameter serialisation fails
  before `transaction` and changes nothing, so it is a stutter.
* `base` and `log` are history: the last value set and the calls since.

### Correspondence of `IpfsResolver` to the code

* `queue` is the `ResolveQueue` (a FIFO `TQueue`); `Submit` stands for the
  pool enqueuing a task, which is outside these sources. `Take` is one
  iteration of `run`: read a task and spawn `start_resolve`.
* `running` holds the spawned resolves. `Resolved` is
  `resolve_ipfs` returning `Ok(Ok(()))`: `set_resolved`, then the vote is
  signed, added to the tally and, if added, published. Each of those may
  fail and is only logged. `ResolveFailed` is `Ok(Err(e))` and spawns
  `schedule_retry`; `ServiceError` is `Err(e)`, and the task is dropped.
  `RetryFires` is the end of `schedule_retry`'s sleep, which writes the
  task back.
* `available` abstracts what `resolve_ipfs` depends on: unavailable
  content fails, available content resolves. `serviceUp` is whether the
  resolver service listens. `attempts` bounds the failed attempts per
  task (`MaxAttempts`); the code retries forever.

## 3. Runs

| Run | Module / cfg | Expect | Properties | Bounds and why |
|---|---|---|---|---|
| `mmr_refines_accumulator` | `MCMMRAccumulator` / `MCMMRAccumulator.cfg` | pass | `ImplementsAccumulator` | as `mmr_core`, without symmetry (the property is temporal). 42,686 states. |
| `mmr_core` | `MCMMR` / `MCMMR.cfg` | pass | `TypeOK`, `MergesInBounds`, `PeaksAreEigentrees`, `GetLeafCorrect`, `PushReturnsBaggedRoot` | 2 objects, so merged neighbours are equal or different. Up to 8 successful pushes: every count 0..8, including 7 -> 8 with three carries, and peak lists of length 0..3. A store failure is possible at every put and at the flush. Symmetry on the objects. 21,343 distinct states. The module's `ASSUME CarryArithmeticChecked` evaluates the hypothesis of `MergesInBoundsHolds` for every count up to 57. |
| `path_resolver` | `MCPathResolver` / `MCPathResolver.cfg` | pass | `PathMatchesReference` | every index and count in 0..31: all five-bit counts, up to five peaks of heights 0..4, plus every out-of-range index. 1,024 states. |
| `proxy_lock` | `MCProxy` / `MCProxy.cfg` | pass | `OkSequencesAscend` | 3 requests, so one holds the lock while two queue behind it. All three modes. Transport failures on. 9,744 states. |
| `proxy_sync_in_step` | `MCProxy` / `MCProxySync.cfg` | pass | `NonceInSync` | 3 requests, sync mode, no transport failure. 1,473 states. |
| `proxy_commit_drift` | `MCProxy` / `MCProxyCommit.cfg` | violation | `NonceInSync` | commit mode: found after one request whose execution fails. |
| `proxy_async_drift` | `MCProxy` / `MCProxyAsync.cfg` | violation | `NonceInSync` | async mode: found after one request that check_tx rejects after the Ok. |
| `factory_numbering` | `MCMessageFactory` / `MCMessageFactory.cfg` | pass | `SequenceNumbering` | an unsigned factory; 3 start values, up to 5 builder calls between `set_sequence` calls: every mix of sends and queries of length 5. 189 states. |
| `factory_no_reuse` | `MCMessageFactory` / `MCMessageFactoryFaults.cfg` | pass | `SendsNeverRepeat` | as above, for a signed factory with signing failures. 1,092 states. |
| `factory_sign_gap` | `MCMessageFactory` / `MCMessageFactoryGap.cfg` | violation | `SequenceNumbering` | a signed factory, signing failures on. |
| `ipfs_retry` | `MCIpfsResolver` / `MCIpfsResolver.cfg` | pass | `TaskAccounted`, `EventuallyResolved` | 3 Cids, so one task can be queued, one resolving and one sleeping before its retry at the same time. 2 failed attempts each, so a task goes around the retry loop twice. The service may stop. 62,964 states. |

Every property of a passing run has a mutant in `PROJECT.json`: a
plausible bug in the mapped code that TLC finds violating it. The mutants
are:

* merge without put;
* `trailing_zeros` without the complement;
* pairing in pop order (it also breaks the refinement);
* the walk starting at the marker bit;
* the bag fold swapped;
* the peak offset counted in the index instead of the count;
* a handler that forgets the increment;
* a handler that increments on every path;
* a rollback to the incremented value;
* `transaction` without its increment;
* a queue read that does not pop;
* an error path without `schedule_retry`.

The runs whose specification reaches a final state set
`CHECK_DEADLOCK FALSE`. In the proxy, every one of the bounded requests is
answered and the mempool is drained. In the resolver, the run loop blocks
on an empty queue.

### Findings

* **Proxy nonce falls behind the chain in commit mode** (`proxy_commit_drift`,
  `proxy.rs:157`).
  * `broadcast` returns Err when deliver_tx failed (line 387).
  * A delivered message has consumed its sequence.
  * The handler skips `*nonce_lck += 1`, so every later transaction reuses
    a consumed sequence and is rejected by check_tx until the proxy is
    restarted with a new `--sequence`.
  * A transport error after the send does the same in every mode (hazard
    at line 374).
  * Sync mode without transport errors is exact; it is proved below.
* **Proxy nonce runs ahead of the chain in async mode** (`proxy_async_drift`,
  `proxy.rs:376`).
  * In async mode `broadcast` returns Ok as soon as the node has the
    message, before check_tx.
  * The handler increments the nonce. If check_tx then rejects the
    message (funds, gas), its sequence is not consumed.
  * Every later transaction carries a sequence one too high and is
    rejected until the proxy is restarted.
* **A failed signature in a read-only builder skips a sequence**
  (`factory_sign_gap`, `message.rs:254`).
  * `os_get`, `os_list`, `acc_get_at`, `acc_root` and `fevm_call` return
    through `self.transaction(...)?` before their rollback.
  * The sequence stays incremented, and the next transaction leaves a gap.

### Fairness

No fairness is used by the `MMR` and `MessageFactory` runs (safety only).

`Proxy` assumes none. Its one liveness question, whether every handler
waiting for the nonce lock is answered, is not checked: the guard is a
`MutexGuard` dropped on every return path, so no path of the handler keeps
the lock, and the one way a waiter can starve, a `broadcast` whose RPC call
never returns, is outside the model (the node is modelled by its effect on
the sequence, not by its latency).

`IpfsResolver` assumes weak fairness of `Take`, `Resolved`,
`ResolveFailed`, `ServiceError` and `RetryFires`: the run loop and every
spawned task run when they can, and sleeps end.

The environment's steps are never forced: content appearing and the
service stopping.

## 4. Proofs

`MMR_proofs.tla`:

* `TypeCorrect == Spec => []TypeOK`. `TypeOK` types references by the
  store: every stored block is an object or a pair of stored references,
  and the committed and in-flight peaks are sequences of stored
  references. It is inductive as it stands. The argument per action:
  `PushStart` adds the object to the store before appending it;
  `MergeStep` pairs two entries of the Amt, which are stored, and adds the
  pair to the store before appending it; `Commit` publishes the Amt, whose
  entries are stored; the failure actions change no reference. Lemmas:
  `TrailingOnesNat` (the merge count is a natural: it is the cardinality
  of a subset of a finite interval, `FS_Interval`, `FS_Subset`,
  `FS_CardinalityType`) and `SeqMonotone` (a sequence over the store stays
  one when the store grows).
* `PeakCountHolds` and `MergesInBoundsHolds == Spec => []MergesInBounds`,
  under the hypothesis `CarryArithmetic(MaxLeaves)` (defined in `Bits`).
  For every `n` up to the bound, the hypothesis says two things:
  * `TrailingOnes(n) <= PopCount(n)`;
  * `PopCount(n + 1) = PopCount(n) + 1 - TrailingOnes(n)`.

  These are facts about binary counting, not about the code. They are
  taken as a hypothesis because the provers have no axioms for `2^k` with
  `k` a variable: even `2^(k+1) = 2 * 2^k` is out of their reach. TLC
  evaluates the hypothesis for every `n <= 57` in `MCMMR`
  (`CarryArithmeticChecked`). Above 57 the operators' powers of two pass
  TLC's integers.

  `MergesInBounds` alone is not inductive. It speaks of the Amt inside
  `push`, but says nothing of how many peaks the next push starts from.
  The strengthening `PeakCountInv` ties them together:
  * `leafCount = Len(pushed) <= MaxLeaves`;
  * `Len(peaks) = PopCount(leafCount)`;
  * inside `push`, `Len(amt)` is the number of merges still to do, plus
    `PopCount(leafCount) + 1 - TrailingOnes(leafCount)`.

  The argument per action:
  * `PushStart` appends one leaf and sets the merges to `TrailingOnes`.
  * `MergeStep` removes one entry (lemma `PrefixLen`) and one merge.
  * `Commit` publishes an Amt of `PopCount(n) + 1 - TrailingOnes(n)`
    entries, which the carry identity makes `PopCount(n + 1)`.

  `MergesInBounds` then follows from `TrailingOnes <= PopCount`. The
  lemma `PopCountNat` says a popcount is a natural.

* `AnswerCurrentHolds == Spec => []AnswerCurrent`: while the last push
  answered Ok, its root is `GetRoot` and its index is `leafCount - 1`.
  `PushReturnsBaggedRoot`, which TLC checks, compares the same root with
  the fold of the peaks the pushed leaves should have; this theorem is the
  half that does not depend on the peaks' shape. It is inductive with `TypeOK`: only `Commit` changes the
  peaks or `leaf_count`, and it writes the answer in the same step; the
  failures overwrite the answer with an error.

`Proxy_proofs.tla`, for any finite set of requests:

* `OkSequencesAscendHolds == Spec => OkSequencesAscend`, for any modes,
  with transport failures: an action property. It rests on the inductive
  invariant `IInv == TypeOK /\ LockInv /\ DistinctOkSequences`, where
  `DistinctOkSequences` (no two Ok replies share a sequence) is a helper
  defined in the proof module. `LockInv` says:
  * the mutex queue holds each request at most once, and only while it
    waits;
  * a request not yet granted the lock has no reply;
  * the holder's message carries the current nonce, and the holder has
    not replied;
  * every Ok reply used a sequence below the nonce.

  Without the holder clause, a step could increment past a sequence that
  another request is about to reuse. Without the queue clauses, `Acquire`
  could grant the lock to a request that already replied. The lemma
  `NextOkAscend` shows that only `Respond` turns a reply Ok, and only the
  holder's reply; under `LockInv`, the holder's sequence is the nonce and
  every earlier Ok sequence is below it.
* `NonceInSyncHolds`: under `Modes = {"sync"}` and `~TransportFaults`,
  `Spec => []NonceInSync`. The invariant `SyncInv` says:
  * only the holder's message can be unchecked;
  * mempool messages are pending and distinct;
  * requests not yet checked, or not yet granted the lock, have no
    verdict;
  * the nonce equals `ChainNext`, or is one below it while the holder's
    accepted message waits for the increment.

  The `Include` step is the delicate one: it changes the head's verdict,
  which may be the holder's, but keeps it in the accepted class, and it
  keeps `ChainNext`.
`IpfsResolver_proofs.tla`, for any finite set of tasks, any attempt bound,
with service failures:

* `TaskAccountedHolds == Spec => []TaskAccounted`. `TaskAccounted` says
  the queue holds a task at most once, a queued task is not also running,
  sleeping before a retry or resolved, and the running, retrying and
  resolved sets are disjoint. It is not inductive alone: `Submit` needs
  a fresh task to be in no place. The strengthening `OnlySubmitted` says
  every place holds only submitted tasks. The `Take` step shows that the
  head leaves the queue as it enters `running`; the `RetryFires` step
  that a retried task was in no other place.

`MessageFactory_proofs.tla`, for every set of start values, any number
of calls, signed or unsigned, with signing failures:

* `SendsNeverRepeatHolds == Spec => []SendsNeverRepeat`. The
  strengthening `BelowSequence` says every message logged since the last
  `set_sequence` carries at most the factory's sequence, and every
  transaction strictly less. A new transaction is stamped with the
  current sequence, so it is above all earlier transactions. A read-only
  call keeps the sequence, and a failed signature raises it.
  `AppendEntry` states what one appended log entry does to the log.
* `SequenceNumberingHolds`: for a factory whose signing cannot fail
  (`~(Signed /\ SignFaults)`), `Spec => []SequenceNumbering`. The run
  `factory_sign_gap` shows the property fails otherwise.
  `SequenceNumbering` is stated step by step: each entry carries the
  previous entry's sequence, plus one if that entry was a send. It is
  inductive as it stands. `AppendKeepsNumbering` shows that appending a
  send or a query with the factory's counter keeps it. The step form
  counts the sends since `set_sequence`, by induction on the log. TLC
  confirmed that it agrees with the earlier `SelectSeq` count on every
  state of the signed run. That form could not be proved, because
  `SelectSeq` is a recursive definition.

What is only model-checked, and why:

* `CarryArithmetic` itself, the hypothesis of `MergesInBoundsHolds`:
  it needs the powers of two, which the provers do not axiomatise (the
  library's own `2^` lemma is left unproved). TLC checks it up to 57.
* `PeaksAreEigentrees`, `GetLeafCorrect`, `PushReturnsBaggedRoot` and
  `PathMatchesReference` rest on the bits of `n` and on the shape of
  recursively defined trees (`EigenTree`, a recursive function of the
  height). Their proof needs induction over data, which the installed
  provers cannot do. TLC checks these on the bounds above.
* The refinement `ImplementsAccumulator` maps through `LeavesOf`, a
  RECURSIVE operator over references. A module that reaches one cannot
  hold proofs, and what it computes for every tree would again need
  induction over data.
* The liveness property `EventuallyResolved` is beyond TLAPS (fairness,
  ENABLED).

## 5. Not modelled

* The actor dispatch, `Method` numbers, `PushParams` and `MachineState`
  (owner, write access): types and accessors, no behaviour in these
  sources.
* AMT internals (bit width 3, node layout): the AMT is modelled by its
  sequence of entries.
* Hash collisions: the hash is modelled as injective.
* `leaf_count` overflow at `u64::MAX` (line 282): needs 2^64 pushes; the
  model bounds pushes by `MaxLeaves`.
* Readers of an older `State`, e.g. a query at an earlier height: the
  blockstore only ever gains blocks, and a reference names immutable
  content. An old `(peaks, leaf_count)` therefore reads the same blocks
  it read when it was current, where `GetLeafCorrect` checked it. A
  separate property would hold by the shape of the model.
* A failure of `bag_peaks` after `State` is assigned (line 284): it
  hashes peaks just flushed and held in memory, and `hash_pair` fails only
  on a missing peak, which `PeaksAreEigentrees` excludes.
* Object store and ADM interface: parameter structs and method numbers
  only. These sources hold no state logic for them.
* The proxy's query handlers and `health`: they take no lock and change
  no state. The HTTP layer (routing, rejection mapping, JSON) is I/O. A
  handler cancelled by a client disconnect behaves as `TransportError`.
* Parameter serialisation failures in the builders: they happen before
  `transaction` and change nothing, so they are stutters.
* The node: modelled only by its effect on the account sequence, not by
  its code, which is outside these sources.
* The resolver pool, the vote tally's quorum logic and gossip: outside
  these sources; the tally is modelled as the set of our own votes.

## 6. Plan

Done:

1. `MMR`, with runs `mmr_core` and `path_resolver` and the theorem
   `TypeCorrect`.
2. `Proxy`, with four runs, two findings, and the theorems
   `NonceInSyncHolds` and `OkSequencesAscendHolds`.
3. `MessageFactory`, signed and unsigned, with three runs, one finding
   and the theorem `SendsNeverRepeatHolds`.
4. `IpfsResolver`, with one run and the theorem `TaskAccountedHolds`.
5. The abstract `Accumulator` and the refinement run
   `mmr_refines_accumulator`.
6. Proofs: `PeakCountHolds` and `MergesInBoundsHolds`, under the carry
   hypothesis; `SequenceNumberingHolds`; `AnswerCurrentHolds`.

Next, in order of importance:

7. Compose the proxy with the accumulator it pushes to, and relate the
   list index returned to the client to the order in which the lock was
   granted.
8. Discharge `CarryArithmetic` once a prover axiomatises `2^k`. Until
   then, it stays a TLC-checked hypothesis.
9. Prove `PeakLeaves = pushed`, which completes the refinement proof.
   This needs a non-recursive form of `LeavesOf`, over the index
   interval each peak covers, and induction over tree heights.
