# A TLA+ model of Dragonfly's transaction framework

Dragonfly partitions its keys over shards, one thread each. A command that touches several shards,
several commands that form one transaction, and commands that block until data arrives all go
through one piece of machinery: the transaction framework (`src/server/transaction.cc`,
`engine_shard.cc`, `blocking_controller.cc`, `core/intent_lock.h`, `core/tx_queue.cc`; paths here
are relative to the repository, under `src/`). It has no global lock and no central scheduler. Its
correctness rests on the interplay of intent counters, a queue per shard, flags that are read by
other threads than those that set them, polls that may be lost, deferred or superfluous, and
callbacks that may be suspended half-way. That is the part modelled here.

## The system and its parts

| Part | Sources | Here |
|---|---|---|
| Intent locks, lock table | `core/intent_lock.h`, `table.cc`, `DbSlice::Acquire/Release/IsLockFree` | `IntentLock`, `IntentLockProofs` |
| Transaction queue of a shard | `core/tx_queue.{h,cc}` | `TxQueue` implements `SortedQueue` |
| Coordinator of a transaction | `transaction.{h,cc}` | `Transaction` |
| Shard: scheduling, running, polling | `transaction.cc`, `engine_shard.{h,cc}` | `EngineShard` |
| Blocking controller | `blocking_controller.{h,cc}` | `BlockingController` |
| Blocking pops | `container_utils.cc` | `Transaction` (`AfterCheck`, `Block`, `Wake`), `EngineShard` (`Popped`) |
| What scheduling promises | | `ShardSchedule`, `ShardScheduleProofs` |
| Squasher, service, scripts | `multi_command_squasher.cc`, `main_service.cc`, `script_mgr.cc` | not yet |
| Snapshot, journal, AOF | `snapshot.cc`, `serializer_base.cc`, `journal/` | not yet |
| Replication, cluster | `replica.cc`, `dflycmd.cc`, `cluster/` | not yet |
| Pub/sub, tiering, execution state | `channel_store.cc`, `tiered_storage.cc`, `tiering/`, `execution_state.cc` | not yet |
| Data structures, command families, search, parsers, ACL, vendored Redis code | | not modelled |

`PROJECT.json` lists every part with its status, the lines every definition stands for, and the
hazards of this code with the properties that cover them.

A coordinator is the fiber of a connection. It *schedules* its transaction on the shards of its keys
(a task to each shard's queue), which records intents and enters the shard's transaction queue; if
some shard refuses, it cancels everywhere and tries again with a new txid. Then it executes *hops*:
it arms the transaction on the shards and sends each a poll. A poll runs what it may: a woken
transaction first, then the one in the middle of its hops (the continuation), then armed
transactions from the head of the queue, and last the one it was sent for if that may run out of
order. A concluding hop gives the intents back and notifies waiters of keys that changed.

## Modules

```
IntentLock -- TxBase -- BlockingController -- EngineShard -- Transaction -- TxProperties -- MCTransaction
     |                                                                         | INSTANCE
IntentLockProofs                              ShardScheduleProofs -- ShardSchedule -- MCShardSchedule
TxQueue -- INSTANCE --> SortedQueue
```

* **IntentLock**: a lock is a pair of counters. `Acquire` records in any case, `Acquired` is its
  result; the `...All` operators are those of `DbSlice` over the distinct fingerprints of a
  transaction. An absent table entry is one with zero counters.
* **TxBase**: constants, variables, flags. A command is a record of what the framework looks at: its
  keys in order, lock mode, whether it is global or idempotent, the shards of each hop, its effect
  on its keys, whether its coordinator lives on a shard's thread (`home`), whether its callbacks
  preempt and whether its client may give up. `Suspended`, `ThreadFree`, `QueueFiberFree` and
  `FiberFree` are the rules of cooperative fibers: who may take a step while a callback is suspended.
* **BlockingController**: watch queues, `RemovedWatched`, `NotifyPending`, plus the two fibers that
  notify outside of transactions, `Heartbeat` and `FlushSlotsNotify`. The order in which awakened
  keys are visited (a hash set) is any order.
* **EngineShard**: `ScheduleInShard` with its three outcomes (refused, queued, executed at once),
  `FinishSchedule` for what follows a callback that executed at once, `PollExecution` with its
  phases (`PollAwaked`, `PollContinuation`, `PollHead`, `PollTrans`, `PollIfDeferred`), `FinishRun`
  for `RunInShard` after its callback, and the tasks of the shard queue. The variable `poll[s]` holds
  the local variables of the poll in progress.
* **Transaction**: the coordinator; `pc` follows `ScheduleInternal`, `DispatchHop`, `Execute`,
  `WaitOnWatch`, `ExpireBlocking` and `UnlockMulti`.
* **TxProperties**: the properties, and the refinement mapping to `ShardSchedule`.
* **ShardSchedule**: abstractly, on every shard transactions hold intents from the moment they are
  scheduled until they conclude, wait in a queue by txid, and may run out of order if granted.
* **TxQueue**: the circular doubly linked list inside a vector, with its free list. Everything else
  uses a set ordered by txid for the queue, which is justified by `ImplementsSortedQueue`.

Atomicity. Between two preemption points a shard thread does nothing else, so what it does there is
one step, or a chain of steps (`poll[s].at` not idle) in which other threads may interleave but other
fibers of the same thread may not. A callback is split into start and end; if it preempts, other
fibers run in between, both before it takes effect (the change callbacks of `PreUpdateBlocking`) and
after (the journal). Tasks are sent to the shards one at a time. Coarser than the code are: the
coordinator arms all shards of a hop in one step (a shard that polls between two stores sees the
same as one that polls before or after, since each store concerns one shard), and `NotifyPending` is
one step although a readiness check may preempt: when values are offloaded, or when it meets an
expired key and writes the expiry to the journal.

The heartbeat checks `running_tx_` and the shard lock, expires and evicts, sends keyspace events and
then notifies, looking at `continuation_trans_` only. `Heartbeat` is one that is not suspended while
it sends. One that is suspended there notifies under the weaker guard of `FlushSlotsNotify`, so the
constant `FlushSlots` stands for both.

Definitions that are named for a plausible mistake (`AllToRun`, `DropAll`, ...) stand before the one
they vary and are used by nothing else; substituting one makes a property fail.

## Runs

The runs of `MCTransaction` have two shards, keys x and z on the first and y on the second, and up to
three transactions (FlushDel: one shard, one key, four transactions). What the transactions are is a
*workload*; a run has a sequence of them (`Workload`), and the variable `load`, which no step
changes, selects one initially. So one run asks a question of several workloads.

| Run | Workloads | Shows |
|---|---|---|
| Commands | 2 writes of x and y; a write of x and y beside a write of each | strict serializability over cancelled and repeated attempts; no armed transaction without a poll; |
| | a global command beside a write of x and y, beside a keyless read of all shards, beside a write of x and a read of y | the same for the other kinds of commands, with the shard lock; |
| | command of two hops, EXEC over both shards in turn | atomicity of several hops; |
| | EXEC that never runs on a shard it locked, 2 writes | intents match their holders, `UnlockMulti` polls; |
| | EXEC of x and y, two hops on z and y | granted on shard 1 only, also when it enters before the tail: out of order, staying in the queue until it concludes; |
| | two hops on x, two hops on z, a write of z | one runs out of order, the next has to wait for it; |
| | 2 inline writes and a remote one, all preempting | deferred polls are drained, lazily recorded locks are released; |
| | `SingleHopAsync` inline and remote beside a preempting write | and each is polled |
| Refine | EXEC of x and y, two hops on z and y; two hops on x, BLPOP z, push z; the inline writes | refinement of `ShardSchedule`, with out-of-order hops, suspension and lazily recorded locks |
| Blocking | BLPOP x y, push x, EXEC of two pushes on y | a woken transaction meets no continuation; |
| | BLPOP x y that may give up, BLPOP x, push x | intents released once, wake-ups not forgotten and handed on; |
| | waiter for two elements, waiter for one, push | a waiter that is not ready is passed over; |
| | BLPOP x y, push x, preempting LPOP x | nobody takes the element of a woken waiter; |
| | BLPOP x z, BLPOP z, one push of x and z | two keys of one shard are dispatched together, in either order; |
| | BLPOP, preempting push, two hops | all with FlushSlots notifying beside the transactions |
| Live | 2 writes of x and y | attempts to schedule do not repeat for ever; |
| | BLPOP x y with a push on each | a waiter that has data is served, |
| | two waiters of which one gives up | also when another one was woken in vain |
| ShardSchedule | 3 transactions with uneven conflicts | the abstract properties before they are proved |
| TxQueue | 5 ranks, vector growing 1, 2, 4, 8 | the list is the sorted queue, forwards and backwards; the free list is intact |

Bounds. Two shards are enough for scheduling in opposite orders, for a waiter woken on one shard and
following along on the other, and for a multi transaction that runs on a part of its shards. The
second key of shard 1 lets a granted transaction enter the queue before its tail, run out of order
and stay in the queue between its hops, and lets one notification see two awakened keys. Three
transactions allow a bystander between two that conflict; a cycle of two conflicts and one "done
before it started" is possible with a write of both keys and one of each. `MaxTxid` is 4, so that two
multi shard transactions can both be cancelled once. A transaction that has used up the bound stops
at the start of an attempt, holding nothing (`Terminated`). In Live the bound is 8 and never reached:
5 gives the same states. In TxQueue the vector starts with one record instead of 32 so that it grows
three times. `TrackOrder = FALSE` leaves out the history that only `StrictlySerializable` reads.

What the bounds leave out: three transactions of several shards each; a global transaction together
with more than one of several shards; out-of-order execution on both shards of a transaction at once;
three keys of a shard. `Precedence` and the other theorems have no such bounds, but speak of the
abstract schedule, and the refinement is checked within them.

A server whose clients are all done, or blocked without data, really stops (`Terminated`). Deadlock
anywhere else is checked, except in Live, where `EveryoneFinishes` says it.

Fairness is `WF_vars(Progress)`: as long as some fiber can take a step, some fiber does. The threads'
schedulers give more, namely fairness for each fiber, but as no run takes infinitely many `Progress`
steps that adds nothing. Clients that cancel and FlushSlots are not part of it. The heartbeat is: it
runs periodically, and a waiter whose predecessor gave up may depend on it. A heartbeat that is
stalled by journal back-pressure, or does not run expiry on a replica, is outside the liveness runs.

## Where the code and what is written about it differ

Each has a run in which TLC finds the behaviour; the quotations are in `PROJECT.json`.

* **Fractured.** A multi shard IDEMPOTENT command (MGET) executes during scheduling on a shard and
  leaves no lock there. A write of both keys can run on one shard after it and on the other before
  it. `docs/transaction.md` promises that sub-operations never interleave.
* **AsyncInline.** `SingleHopAsync`, inline and executed at once, does not drain a poll that was
  deferred while its callback was suspended; `ScheduleInternal` does.
* **BlpopInline.** The first hop of an inlined single shard BLPOP preempts after it found nothing. A
  push scheduled meanwhile gets the smaller txid, so it runs before the watch hop and wakes nobody.
* **WatchInline.** A poll for a transaction that was woken on another shard comes while an inline poll
  is suspended; it is in neither place the DCHECK in `PollExecution` expects, and is lost.
* **FlushMulti.** `FlushSlotsFb` wakes a waiter during the first, suspended hop of an EXEC, which
  becomes the continuation before the waiter is polled: the CHECK in `PollExecutionInternal`.
* **FlushDel.** A notified waiter gives up, so its key is awakened again but not yet dispatched. A DEL
  of the key starts and is suspended in `PreUpdateBlocking`, before it deletes. `FlushSlotsFb` wakes
  the next waiter, the DEL goes on, and the waiter's pop meets the CHECK in `OpBPop` ("must exist and
  must be ok"). With a single waiter (Blocking, the preempting LPOP) it does not happen: a key that is
  awakened but not dispatched is needed when the DEL starts.

The three about inline execution need a callback that preempts on the thread of its shard.
`AllowInlineScheduling` (`server_state.cc:212-220`) only refuses inlining during loading, and the
comments in `CanRunInlined` and `ScheduleInShard` say that journal and db-slice callbacks preempt.
`docs/transaction.md:212-213` still says that inlining is refused while journal or `DbSlice` callbacks
are registered; neither `AllowInlineScheduling` nor `CanRunInlined` looks at them. It has no run of
its own: a model with that guard would be a model of the document.

## Proofs

`ShardScheduleProofs` proves about `ShardSchedule`, for any sets of shards and transactions and any
symmetric conflict relation (`ConflictAssumption`, the only assumption):

* `Precedence`: a transaction that may run out of order precedes every conflicting transaction that
  holds intents: that one is still queued, and later. `OutOfOrderIsConflictFree` follows: two that
  may run out of order never conflict.
* `TxidsDistinct` and `Monotone`: txids in a queue differ; every
  commit of a shard, from the head of its queue, is later than all before it.

`OutOfOrderHasPrecedence` is not inductive by itself. When the head of a queue leaves it and keeps
its intents (as continuation, or suspended), one must know that nobody who may run out of order
conflicts with it; that follows because such a transaction would have the smaller txid and thus be
the head. This needs that the txids in a queue are distinct and positive and that the out-of-order
set is part of the queue, and the queue of the holders. `Monotone` needs that nothing queued is behind
the committed txid, which `Enter` keeps by its guard (the check at the top of `ScheduleInShard`). That
a head commits once is a guard of `Commit`; that the code respects it is part of the refinement.
Hence `IInv == TypeOK /\ TxidsAreFresh /\ QueuesAreConsistent /\ OutOfOrderHasPrecedence`, with one
lemma per action. Txids are fresh although a transaction may take a new one late, on entering the
queue, because it may do so only while it is queued nowhere.

`IntentLockProofs` proves that the counters do what the schedule assumes: if they count the holders
by mode, an intent is granted exactly when no holder conflicts (`GrantedIffNoConflict`); `Acquire` and
`Release` keep them counting (`AcquireCounts`, `ReleaseCounts`); `Check` before agrees with the result
of `Acquire` (`AcquiredIffCheck`), which is what lets `ScheduleInShard` skip the acquisition; and
releasing restores the table (`ReleaseAllAcquireAll`).

Only model-checked: that the detailed specification implements `ShardSchedule` (`ImplementsSchedule`,
in Refine), that `TxQueue` implements `SortedQueue`, strict serializability, the
properties of polls and of blocking commands, and all liveness.

## Not modelled

* Of the transaction: squashed stubs and NON_ATOMIC multi (no scheduling of their own), `UnlockMulti`
  that blocks and `Refurbish`, auto-journaling, memory scopes, out-of-memory results,
  `CancelScheduledTx` (called by a test only), wrong-type results of blocking commands.
* Of the blocking controller: several databases, `AwakenWatched`, readers of streams with their own
  readiness conditions beyond "needs n elements", preemption inside `NotifyPending`.
* Of the shard: expiry, eviction, defragmentation and tiering in the heartbeat; FlushSlots's deletions.
* `QRecord::next` has 24 bits; the run assumes a vector below that size.

## Plan

1. Transaction framework: `NotifyPending` in steps; `AwakenWatched`; the multi command squasher; WATCH.
2. Snapshot: bucket versions, change callbacks and the serializer, against "every entry once, in the
   state of the cut" and its relaxed form with the journal; abstract specification of a cut.
3. Journal and replication: LSNs, ring buffer and partial sync; the multi shard executor of the
   replica; transition from full to stable sync; connection loss.
4. Slot migration: the two ends, finalization, retries; configuration epochs.
5. Smaller concurrent parts: channel store, execution state, tiered storage's pending operations.
6. Proofs: that `TxQueue` keeps its list and free list well-formed; that the steps of
   `ScheduleInShard` and `RunInShard` refine `ShardSchedule`, from `IntentsMatchHolders` and
   `GrantedIffNoConflict`; safety of the modules of 2 to 5.
