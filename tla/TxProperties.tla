---------------------------- MODULE TxProperties ----------------------------
(***************************************************************************)
(* What the transaction framework promises.                                *)
(***************************************************************************)
EXTENDS Transaction

PC == {"start", "schedule", "sched_send", "sched_wait", "cancel", "cleanup_send", "hop", "hop_send",
       "hop_wait", "blocked", "expire_send", "expire_wait", "unlock_send", "done"}

\* The variables keep their types; in particular no intent counter, run barrier
\* or element count is ever negative (the DCHECKs of IntentLock::Release and
\* EmbeddedBlockingCounter::Dec).
TypeOK ==
    /\ load \in DOMAIN Workload
    /\ pc \in [Tx -> PC]
    /\ todo \in [Tx -> SUBSET Shard]
    /\ stage \in [Tx -> {"run", "check", "pop", "watch", "action", "conclude"}]
    /\ hop \in [Tx -> Nat]
    /\ coord \in [Tx -> SUBSET CoordState]
    /\ txid \in [Tx -> Nat]
    /\ barrier \in [Tx -> Nat]
    /\ failed \in [Tx -> BOOLEAN]
    /\ baton \in [Tx -> {"open", "closed"}]
    /\ found \in [Tx -> SUBSET Key]
    /\ wake_key \in [Tx -> Key \cup {None}]
    /\ mask \in [Tx -> [Shard -> SUBSET LocalMask]]
    /\ armed \in [Tx -> SUBSET Shard]
    /\ op_seq \in Nat
    /\ txq \in [Shard -> SUBSET Tx]
    /\ locks \in [Key -> Lock]
    /\ shard_lock \in [Shard -> Lock]
    /\ committed \in [Shard -> Nat]
    /\ cont \in [Shard -> Tx \cup {None}]
    /\ running \in [Shard -> Tx \cup {None}]
    /\ repoll \in [Shard -> BOOLEAN]
    /\ \A s \in Shard : \A i \in DOMAIN tasks[s] : tasks[s][i] \in Task
    /\ poll \in [Shard -> Frame]
    /\ \A k \in Key : Range(wqueue[k]) \subseteq Tx
    /\ wactive \subseteq Key
    /\ awakened_keys \subseteq Key
    /\ awakened \in [Shard -> SUBSET Tx]
    /\ val \in [Key -> Nat]
    /\ ran \subseteq Tx \X Shard
    /\ conflict_order \subseteq Tx \X Tx
    /\ done_before \subseteq Tx \X Tx

(***************************************************************************)
(* Locks.                                                                  *)
(***************************************************************************)

InTasks(s, op, t) == \E i \in DOMAIN tasks[s] : tasks[s][i] = [op |-> op, tx |-> t]

\* UnlockMultiShardCb leaves KEYLOCK_ACQUIRED set.
Unlocked(t, s) ==
    /\ Multi(t) /\ COORD_CONCLUDING \in coord[t]
    /\ s \notin todo[t] /\ ~InTasks(s, "unlock", t)

HoldsKeys(t, s) ==
    ~IsGlobal(t) /\ KEYLOCK_ACQUIRED \in mask[t][s] /\ ~Unlocked(t, s)

HoldsShard(t, s) == IsGlobal(t) /\ (t \in txq[s] \/ cont[s] = t)

\* Every recorded intent is that of one transaction that still holds it: none is
\* lost, leaked or released twice by scheduling, its cancellation, optimistic
\* execution, suspension, expiry and unlocking (Acquire and Release in
\* ScheduleInShard, CancelShardCb, RunInShard, ExpireShardCb, UnlockMultiShardCb).
IntentsMatchHolders ==
    /\ \A k \in Key, m \in Mode :
          locks[k][m] = Cardinality({t \in Tx : /\ HoldsKeys(t, ShardOf[k])
                                                /\ k \in Keys(t) /\ LockMode(t) = m})
    /\ \A s \in Shard, m \in Mode :
          shard_lock[s][m] = Cardinality({t \in Tx : HoldsShard(t, s) /\ LockMode(t) = m})

(***************************************************************************)
(* Scheduling, abstractly.  A transaction that runs optimistically holds   *)
(* its intents while it runs, whether or not they are ever recorded.  A    *)
(* transaction of the abstract specification is one of a certain workload. *)
(***************************************************************************)

Held(s) == {t \in Tx : \/ HoldsKeys(t, s) \/ HoldsShard(t, s)
                       \/ running[s] = t /\ poll[s].ctx = "sched"}

OutOfOrder(s) == {t \in txq[s] : \/ OUT_OF_ORDER \in mask[t][s]
                                 \/ running[s] = t /\ poll[s].ctx = "trans"}

LoadTx == {p \in (DOMAIN Workload) \X Tx : Workload[p[1]][p[2]].kind # "none"}
OfLoad(T) == {load} \X T

LoadConflict(p, q, s) ==
    p[1] = q[1] /\ CmdConflict(Workload[p[1]][p[2]], Workload[q[1]][q[2]], s)

Schedule == INSTANCE ShardSchedule WITH
    Tx <- LoadTx,
    Conflict <- LoadConflict,
    txid <- [p \in LoadTx |-> IF p[1] = load THEN txid[p[2]] ELSE 0],
    txq <- [s \in Shard |-> OfLoad(txq[s])],
    held <- [s \in Shard |-> OfLoad(Held(s))],
    ooo <- [s \in Shard |-> OfLoad(OutOfOrder(s))]

\* The intent counters, the flags and the polls implement the schedule of module
\* ShardSchedule: a transaction is granted its intents, runs at once or enters
\* the queue out of place only if no conflicting transaction holds intents there
\* (ScheduleInShard, RunInShard, CancelShardCb, UnlockMultiShardCb).
ImplementsSchedule == Schedule!Spec

\* A transaction that may run out of order has precedence over every transaction
\* it conflicts with and that holds intents, whatever was scheduled, suspended or
\* cancelled since its own were granted (OUT_OF_ORDER in ScheduleInShard).
OutOfOrderHasPrecedence == Schedule!OutOfOrderHasPrecedence

(***************************************************************************)
(* Order.                                                                  *)
(***************************************************************************)

Acyclic(R) == \A U \in SUBSET Tx \ {{}} : \E t \in U : \A u \in U : <<u, t>> \notin R

\* The transactions are strictly serializable: one order of all of them agrees
\* with the order of their conflicting callbacks on every shard and with real
\* time (docs/transaction.md; PollExecution, ScheduleInShard, RunInShard).
StrictlySerializable == Acyclic(conflict_order \cup done_before)

(***************************************************************************)
(* Polls.                                                                  *)
(***************************************************************************)

\* A poll that comes while a callback is suspended is for a transaction that was
\* disarmed already or is found in the queue or as continuation later (DCHECK at
\* the top of PollExecution).
PollIsNotLost ==
    \A s \in Shard :
        QueueFiberFree(s) /\ running[s] # None /\ tasks[s] # <<>> /\ Head(tasks[s]).op = "poll" =>
            LET t == Head(tasks[s]).tx
            IN  t = None \/ s \notin armed[t] \/ t \in txq[s] \/ cont[s] = t

PollPending(s) ==
    \/ poll[s] # Idle
    \/ \E i \in DOMAIN tasks[s] : tasks[s][i].op \in {"poll", "expire", "unlock"}
    \/ \E t \in Tx : s \in todo[t] /\ pc[t] \in {"hop_send", "expire_send", "unlock_send"}
    \/ \E t \in Tx : pc[t] = "cleanup_send" \/ (pc[t] = "cancel" /\ failed[t])

\* An armed transaction that is the continuation, or the head of the queue with
\* nothing in its way, is not left behind: a poll is going on, queued, or about
\* to be queued (needs_repoll_, the cancel_cleanup poll of ScheduleInternal, the
\* polls that end ExpireShardCb and FinalizeMulti).
ArmedIsPolled ==
    \A s \in Shard :
        /\ cont[s] # None /\ s \in armed[cont[s]] => PollPending(s)
        /\ /\ cont[s] = None /\ txq[s] # {} /\ ~HasAwakedTransaction(s)
           /\ s \in armed[QueueHead(s)]
           => PollPending(s)

(***************************************************************************)
(* Blocking commands.                                                      *)
(***************************************************************************)

\* When an awakened transaction is polled, the shard has no continuation and
\* knows the transaction as awakened (the CHECKs on AWAKED_Q in
\* PollExecutionInternal).
AwakedMeetsNoContinuation ==
    \A s \in Shard : poll[s].at = "awaked" => cont[s] = None /\ poll[s].trans \in awakened[s]

\* The key that woke a transaction is still ready when the transaction gets to
\* run: nobody takes the element in between (CHECK(it_res), "must exist and must
\* be ok", of BPopPusher and of the zset commands; the queue is halted by
\* HasAwakedTransaction and the locks were kept).
WokenFindsElement ==
    \A s \in Shard :
        LET t == poll[s].trans
        IN  poll[s].at = "awaked" /\ stage[t] = "action" => Ready(t, wake_key[t])

\* A transaction waits for a key that is ready only as long as the key is due
\* for notification or the queue was handed to another transaction: the element
\* is not forgotten (Awaken, NotifyWatchQueue, UnwatchTx, RemovedWatched).
WakeIsPending ==
    \A t \in Tx : \A k \in Keys(t) :
        pc[t] = "blocked" /\ baton[t] = "open" /\ Ready(t, k) /\ running[ShardOf[k]] = None =>
            k \in awakened_keys \cup wactive

\* The front of an active watch queue is a transaction that was awakened on that
\* shard and has not run yet (CHECK(!removed_awakened || removed) in
\* RemovedWatched).
ActiveFrontIsAwakened ==
    \A k \in wactive : wqueue[k] # <<>> /\ Head(wqueue[k]) \in awakened[ShardOf[k]]

(***************************************************************************)
(* Liveness.                                                               *)
(***************************************************************************)

HasData(t) == \E k \in Key : k \in Keys(t) /\ Ready(t, k)

\* In the end every transaction is done, or blocked on keys that have no data: no
\* fiber waits for another forever, attempts to schedule do not go on forever, and
\* a waiter is served unless others take the elements it waits for
\* (ScheduleInternal, PollExecution, WaitOnWatch).
EveryoneFinishes ==
    \A t \in Tx : <>[](pc[t] = "done" \/ (pc[t] = "blocked" /\ ~HasData(t)))
=============================================================================
