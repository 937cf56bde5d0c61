---------------------------- MODULE EngineShard ----------------------------
(***************************************************************************)
(* What runs on a shard thread: ScheduleInShard, RunInShard and the other  *)
(* callbacks of src/server/transaction.cc, and the polling of the          *)
(* transaction queue (PollExecution, src/server/engine_shard.cc).          *)
(***************************************************************************)
EXTENDS BlockingController

(***************************************************************************)
(* Callbacks.                                                              *)
(***************************************************************************)

FirstArg(t, K) ==
    LET args == Cmd[t].args IN args[Min({i \in DOMAIN args : args[i] \in K})]

\* Keys the callback of t, in its current stage, pops an element from on s.
Popped(t, s) ==
    LET ready == {k \in KeysIn(t, s) : Ready(t, k)}
    IN  CASE stage[t] = "run" /\ Cmd[t].effect = "pop" /\ (Multi(t) \/ hop[t] = Len(Cmd[t].hops)) ->
                {k \in KeysIn(t, s) : val[k] > 0}
          [] stage[t] = "check" /\ Cardinality(Active(t)) = 1 /\ ready # {} ->
                {FirstArg(t, ready)}
          [] stage[t] = "pop" -> {FirstArg(t, found[t])} \cap KeysIn(t, s)
          [] stage[t] = "action" /\ AWAKED_Q \in mask[t][s] -> {wake_key[t]}
          [] OTHER -> {}

Pushed(t, s) ==
    IF stage[t] = "run" /\ Cmd[t].effect = "push" /\ (Multi(t) \/ hop[t] = Len(Cmd[t].hops))
    THEN KeysIn(t, s) ELSE {}

\* Does the callback of t on s read or write the keys at all?
Accesses(t, s) ==
    \/ stage[t] \in {"run", "check", "pop"}
    \/ stage[t] = "action" /\ AWAKED_Q \in mask[t][s]

RecordRun(t, s) ==
    IF TrackOrder /\ Accesses(t, s)
    THEN /\ ran' = ran \cup {<<t, s>>}
         /\ conflict_order' = conflict_order \cup
               {<<u, t>> : u \in {v \in Tx \ {t} : <<v, s>> \in ran /\ Conflict(v, t, s)}}
         /\ UNCHANGED done_before
    ELSE UNCHANGED histVars

\* The callback of t takes its effect on s.  DbSlice::PostUpdate marks the
\* updated keys that are watched as awakened; WatchInShard enters the watch
\* queues.
CallbackEffect(s, t, frame, msk) ==
    LET updated == Pushed(t, s) \cup Popped(t, s)
        watch == stage[t] = "watch"
    IN  /\ poll' = [poll EXCEPT ![s] =
              [frame EXCEPT !.at = "callback",
                            !.avoid = /\ stage[t] = "check"
                                      /\ Cardinality(Active(t)) = 1
                                      /\ Popped(t, s) = {}]]
        /\ val' = [k \in Key |-> IF k \in Pushed(t, s) THEN val[k] + 1
                                 ELSE IF k \in Popped(t, s) /\ val[k] > 0 THEN val[k] - 1
                                 ELSE val[k]]
        /\ awakened_keys' = awakened_keys \cup
              {k \in updated : wqueue[k] # <<>> /\ k \notin wactive}
        /\ found' = IF stage[t] = "check"
                    THEN [found EXCEPT ![t] = @ \cup {k \in KeysIn(t, s) : Ready(t, k)}]
                    ELSE found
        /\ mask' = IF watch
                   THEN [msk EXCEPT ![t][s] = (@ \ {OUT_OF_ORDER}) \cup {WAS_SUSPENDED}]
                   ELSE msk
        /\ wqueue' = [k \in Key |-> IF watch /\ k \in KeysIn(t, s)
                                    THEN Append(wqueue[k], t) ELSE wqueue[k]]
        /\ RecordRun(t, s)
        /\ UNCHANGED <<wactive, awakened>>

\* RunCallback: running_tx_ is set and the callback starts.  One that preempts may
\* be suspended before its effect, by the change callbacks of PreUpdateBlocking,
\* and after it, by the journal.
StartCallback(s, t, ctx, frame, msk) ==
    /\ running' = [running EXCEPT ![s] = t]
    /\ IF Preempts(t)
       THEN /\ poll' = [poll EXCEPT ![s] = [frame EXCEPT !.at = "entered", !.ctx = ctx]]
            /\ mask' = msk
            /\ UNCHANGED <<found, watchVars, val, histVars>>
       ELSE CallbackEffect(s, t, [frame EXCEPT !.ctx = ctx], msk)

\* The change callbacks have returned, and the update is made.
PreUpdateBlocking(s) ==
    /\ poll[s].at = "entered"
    /\ CallbackEffect(s, running[s], poll[s], mask)
    /\ UNCHANGED <<load, pc, todo, stage, hop, coord, txid, barrier, failed, baton, wake_key,
                   armed, op_seq, lockVars, committed, cont, running, repoll, tasks>>

(***************************************************************************)
(* Polling.                                                                *)
(***************************************************************************)

HaltedByContinuation(s) == cont'[s] # None \/ txq'[s] = {}

\* The queue is empty or does not advance: a transaction has started its hops on
\* the shard, or an awakened one has yet to run.
Halted(s) == cont'[s] # None \/ txq'[s] = {} \/ awakened'[s] # {}

\* The phases of PollExecutionInternal in which there is nothing to do on this
\* shard are passed over in the step that leads to them: whether there is
\* something to do depends on the state of the shard's own thread only.
Advance(s, frame) ==
    LET f1 == IF frame.at = "cont" /\ cont'[s] = None THEN [frame EXCEPT !.at = "loop"] ELSE frame
        f2 == IF f1.at = "loop" /\ Halted(s) THEN [f1 EXCEPT !.at = "tail"] ELSE f1
        f3 == IF f2.at = "tail" /\ (f2.trans = None \/ ~f2.disarmed)
              THEN [f2 EXCEPT !.at = "repoll"] ELSE f2
    IN  IF f3.at = "repoll" /\ (f3.again \/ ~repoll'[s]) THEN Idle ELSE f3

\* The flags of a transaction that is certain to run in the poll made for it.
RelevantFlags == {AWAKED_Q, WAS_SUSPENDED, OUT_OF_ORDER}

\* PollExecution(trans) on shard s, up to the first thing it runs; `by' tells
\* the fiber, arm is the value of armed.  While a callback is suspended the
\* poll is only noted in needs_repoll_.  Otherwise DisarmInShardWhen decides
\* whether trans is certain to run in this poll; a poll whose transaction is
\* not armed any more has expired.
PollExecution(s, trans, by, arm, msk) ==
    LET isArmed == trans # None /\ s \in arm[trans]
        flags == IF isArmed THEN msk[trans][s] ELSE {}
        relevant == flags \cap RelevantFlags # {}
    IN  IF running[s] # None
        THEN /\ repoll' = [repoll EXCEPT ![s] = TRUE]
             /\ armed' = arm
             /\ UNCHANGED poll
        ELSE /\ repoll' = [repoll EXCEPT ![s] = FALSE]
             /\ armed' = IF relevant THEN [arm EXCEPT ![trans] = @ \ {s}] ELSE arm
             /\ poll' = [poll EXCEPT ![s] =
                   IF trans # None /\ ~isArmed THEN Idle
                   ELSE Advance(s, [Idle EXCEPT
                           !.at = IF AWAKED_Q \in flags THEN "awaked" ELSE "cont",
                           !.by = by, !.trans = trans, !.disarmed = relevant,
                           !.ooo = OUT_OF_ORDER \in flags])]

\* PollExecutionInternal: an awakened transaction runs first.
PollAwaked(s) ==
    /\ poll[s].at = "awaked"
    /\ StartCallback(s, poll[s].trans, "awaked", poll[s], mask)
    /\ UNCHANGED <<load, pc, todo, stage, hop, coord, txid, barrier, failed, baton, wake_key,
                   armed, op_seq, lockVars, committed, cont, repoll, tasks>>

\* The transaction that has started its hops on this shard runs next, if armed.
PollContinuation(s) ==
    LET t == cont[s]
        self == t = poll[s].trans
        frame == [poll[s] EXCEPT !.trans = IF self THEN None ELSE @]
    IN  /\ poll[s].at = "cont"
        /\ UNCHANGED <<load, pc, todo, stage, hop, coord, txid, barrier, failed, baton, wake_key,
                       op_seq, lockVars, committed, cont, repoll, tasks>>
        /\ IF (self /\ poll[s].disarmed) \/ s \in armed[t]
           THEN /\ armed' = [armed EXCEPT ![t] = @ \ {s}]
                /\ StartCallback(s, t, "cont", frame, mask)
           ELSE /\ UNCHANGED <<found, localVars, running, watchVars, val, histVars>>
                /\ poll' = [poll EXCEPT ![s] = Advance(s, [frame EXCEPT !.at = "loop"])]

\* One iteration of the loop over the transaction queue: run its head, if armed.
PollHead(s) ==
    LET head == QueueHead(s)
        self == head = poll[s].trans
    IN  /\ poll[s].at = "loop"
        /\ UNCHANGED <<load, pc, todo, stage, hop, coord, txid, barrier, failed, baton, wake_key,
                       op_seq, lockVars, cont, repoll, tasks>>
        /\ IF (self /\ poll[s].disarmed) \/ s \in armed[head]
           THEN /\ armed' = [armed EXCEPT ![head] = @ \ {s}]
                /\ committed' = [committed EXCEPT ![s] = txid[head]]
                /\ StartCallback(s, head, "head",
                                 [poll[s] EXCEPT !.trans = IF self THEN None ELSE @], mask)
           ELSE /\ UNCHANGED <<found, localVars, committed, running, watchVars, val, histVars>>
                /\ poll' = [poll EXCEPT ![s] = Advance(s, [poll[s] EXCEPT !.at = "tail"])]

\* If trans was disarmed but not met in the queue, it runs out of order.
PollTrans(s) ==
    /\ poll[s].at = "tail"
    /\ StartCallback(s, poll[s].trans, "trans", poll[s], mask)
    /\ UNCHANGED <<load, pc, todo, stage, hop, coord, txid, barrier, failed, baton, wake_key,
                   armed, op_seq, lockVars, committed, cont, repoll, tasks>>

\* PollExecutionIfDeferred, at the end of PollExecution and of an inlined
\* ScheduleInShard: drain one poll that was noted while a callback was running.
PollIfDeferred(s) ==
    /\ poll[s].at = "repoll"
    /\ UNCHANGED <<load, coordVars, localVars, op_seq, lockVars, committed, cont, running, tasks,
                   watchVars, val, histVars>>
    /\ repoll' = [repoll EXCEPT ![s] = FALSE]
    /\ poll' = [poll EXCEPT ![s] =
          Advance(s, [Idle EXCEPT !.at = "cont", !.by = poll[s].by, !.again = TRUE])]

(***************************************************************************)
(* RunInShard after its callback, including the end of RunCallback.        *)
(***************************************************************************)

\* Where PollExecutionInternal goes on once the callback has returned.
AfterRun(frame, concludes) ==
    CASE frame.ctx = "awaked" /\ concludes -> [frame EXCEPT !.at = "cont", !.trans = None]
      [] frame.ctx = "awaked" /\ ~concludes -> [frame EXCEPT !.at = "repoll"]
      [] frame.ctx \in {"cont", "head"} -> [frame EXCEPT !.at = "loop"]
      [] frame.ctx = "trans" -> [frame EXCEPT !.at = "repoll"]

\* The flags a transaction loses when it concludes; suspended it keeps its locks.
DropAll(suspends) == {OUT_OF_ORDER, KEYLOCK_ACQUIRED}

Dropped(suspends) == IF suspends THEN {OUT_OF_ORDER} ELSE {OUT_OF_ORDER, KEYLOCK_ACQUIRED}

\* The continuation once t has run: the head of the queue becomes it with its
\* first hop, and RemoveContTx resets it.
ContAfterRun(s, t, ctx, concludes) ==
    IF concludes /\ cont[s] = t THEN None
    ELSE IF ~concludes /\ ctx = "head" THEN t
    ELSE cont[s]

\* Awakened keys are dispatched at the end of a transaction, unless another one
\* has yet to go on.
MayNotify(concludes, newCont) == concludes /\ newCont = None

FinishRun(s) ==
    LET t == running[s]
        frame == poll[s]
        concludes == COORD_CONCLUDING \in coord[t] /\ ~frame.avoid
        allowRemoval == frame.ctx # "trans" \/ ~frame.ooo
        becameSuspended == stage[t] = "watch"
        wasSuspended == WAS_SUSPENDED \in mask[t][s] /\ ~becameSuspended
        newCont == ContAfterRun(s, t, frame.ctx, concludes)
        newMask == IF concludes /\ ~IsGlobal(t)
                   THEN [mask EXCEPT ![t][s] = @ \ Dropped(becameSuspended)] ELSE mask
        newWatches == IF concludes /\ wasSuspended THEN RemovedWatched(Watches, t, s) ELSE Watches
    IN  /\ frame.at = "callback" /\ frame.ctx # "sched"
        /\ running' = [running EXCEPT ![s] = None]
        /\ coord' = IF frame.avoid THEN [coord EXCEPT ![t] = @ \ {COORD_CONCLUDING}] ELSE coord
        /\ txq' = IF concludes \/ allowRemoval THEN [txq EXCEPT ![s] = @ \ {t}] ELSE txq
        /\ IF concludes /\ IsGlobal(t)
           THEN /\ shard_lock' = [shard_lock EXCEPT ![s] = Release(@, LockMode(t))]
                /\ UNCHANGED locks
           ELSE /\ locks' = IF concludes /\ ~becameSuspended
                            THEN ReleaseAll(locks, GetLockArgs(t, s), LockMode(t)) ELSE locks
                /\ UNCHANGED shard_lock
        /\ cont' = [cont EXCEPT ![s] = newCont]
        /\ IF MayNotify(concludes, newCont)
           THEN NotifyPending(s, newWatches, newMask)
           ELSE NotifyNone(newWatches, newMask)
        /\ barrier' = [barrier EXCEPT ![t] = @ - 1]
        /\ UNCHANGED <<load, pc, todo, stage, hop, txid, failed, found, armed, op_seq, committed,
                       repoll, tasks, val, histVars>>
        /\ poll' = [poll EXCEPT ![s] =
              Advance(s, [AfterRun(frame, concludes) EXCEPT !.ctx = "none", !.avoid = FALSE])]

(***************************************************************************)
(* ScheduleInShard.                                                        *)
(***************************************************************************)

OptimisticOnAllShards(t) == ~IsGlobal(t) /\ COORD_CONCLUDING \in coord[t]

\* May t run its callback while it is scheduled?
Optimistic(t) ==
    /\ ~IsGlobal(t)
    /\ COORD_CONCLUDING \in coord[t]
    /\ Cardinality(Active(t)) = 1 \/ Cmd[t].idempotent

\* A later transaction was committed on s already.
LateTxid(t, s) == txid[t] > 0 /\ committed[s] >= txid[t]

\* t registers the locks of the transaction that is inside a callback on s, if
\* that one runs optimistically and has not registered them itself.
Lazy(t, s) ==
    /\ ~IsGlobal(t)
    /\ running[s] # None
    /\ KEYLOCK_ACQUIRED \notin mask[running[s]][s]

LazyLocks(t, s) ==
    IF Lazy(t, s)
    THEN AcquireAll(locks, GetLockArgs(running[s], s), LockMode(running[s]))
    ELSE locks

LazyMask(t, s) ==
    IF Lazy(t, s)
    THEN [mask EXCEPT ![running[s]][s] = @ \cup {KEYLOCK_ACQUIRED}]
    ELSE mask

LockGrantedOnKeys(t, s) ==
    ~IsGlobal(t) /\ AllAcquired(LazyLocks(t, s), GetLockArgs(t, s), LockMode(t))

\* The shard lock and the intents on the keys of t are all granted.
LockGranted(t, s) ==
    /\ ~IsGlobal(t)
    /\ Check(shard_lock[s], LockMode(t))
    /\ AllAcquired(LazyLocks(t, s), GetLockArgs(t, s), LockMode(t))

\* t can run at once, without registering its intents.  (Having registered them
\* it cannot: that they are granted would have meant that they were free.)
SkipAcquire(t, s) ==
    /\ Optimistic(t)
    /\ running[s] = None
    /\ Check(shard_lock[s], LockMode(t))
    /\ IsLockFree(locks, GetLockArgs(t, s), LockMode(t))

\* t would have to enter the queue before its tail, without its locks.
OutOfPlace(t, s) ==
    /\ txq[s] # {}
    /\ txid[t] > 0 /\ txid[t] < TailScore(s)
    /\ ~LockGranted(t, s)

\* A single shard transaction gets its txid only when it enters the queue.
AssignTxid(t) ==
    IF txid[t] = 0
    THEN /\ txid' = [txid EXCEPT ![t] = op_seq]
         /\ op_seq' = op_seq + 1
    ELSE UNCHANGED <<txid, op_seq>>

ScheduleFails(t, s) ==
    LET late == LateTxid(t, s)
    IN  /\ late \/ (~SkipAcquire(t, s) /\ OutOfPlace(t, s))
        /\ locks' = IF late THEN locks ELSE LazyLocks(t, s)
        /\ mask' = [IF late THEN mask ELSE LazyMask(t, s) EXCEPT
                      ![t][s] = @ \ {OUT_OF_ORDER, OPTIMISTIC_EXECUTION}]
        /\ failed' = [failed EXCEPT ![t] = TRUE]
        /\ barrier' = [barrier EXCEPT ![t] = @ - 1]
        /\ UNCHANGED <<stage, hop, txid, baton, found, wake_key, armed, op_seq, txq, shard_lock,
                       pollVars, watchVars, val, histVars>>

\* The barrier of t when ScheduleInShard is entered; a coordinator that inlines
\* it starts the barrier in the same step.
Started(t, by) == IF by = None THEN barrier[t] ELSE 1

NoDeferredPoll(by) == Idle

\* The continuation of an inlined ScheduleInShard, in ScheduleInternal.
AfterInline(by) == [Idle EXCEPT !.at = "repoll", !.by = by]

\* t enters the queue.  The shard part of SingleHopAsync goes on to poll for it.
ScheduleQueues(t, s, by) ==
    LET granted == LockGranted(t, s)
        flags == (mask[t][s] \ {OUT_OF_ORDER, OPTIMISTIC_EXECUTION})
                   \cup (IF IsGlobal(t) THEN {} ELSE {KEYLOCK_ACQUIRED})
                   \cup (IF granted THEN {OUT_OF_ORDER} ELSE {})
        newMask == [LazyMask(t, s) EXCEPT ![t][s] = flags]
    IN  /\ ~LateTxid(t, s) /\ ~SkipAcquire(t, s) /\ ~OutOfPlace(t, s)
        /\ locks' = AcquireAll(LazyLocks(t, s), GetLockArgs(t, s), LockMode(t))
        /\ shard_lock' = IF IsGlobal(t)
                         THEN [shard_lock EXCEPT ![s] = Acquire(@, LockMode(t))] ELSE shard_lock
        /\ mask' = newMask
        /\ AssignTxid(t)
        /\ txq' = [txq EXCEPT ![s] = @ \cup {t}]
        /\ UNCHANGED <<stage, hop, failed, baton, found, wake_key, committed, cont, running,
                       watchVars, val, histVars>>
        /\ IF SingleHopAsync(t)
           THEN /\ PollExecution(s, t, by, [armed EXCEPT ![t] = @ \cup {s}], newMask)
                /\ barrier' = [barrier EXCEPT ![t] = Started(t, by)]
           ELSE /\ barrier' = [barrier EXCEPT ![t] = Started(t, by) - 1]
                /\ UNCHANGED <<armed, repoll>>
                /\ poll' = IF by = None THEN poll
                           ELSE [poll EXCEPT ![s] = Advance(s, AfterInline(by))]

\* t runs its callback at once, see FinishSchedule.
ScheduleRuns(t, s, by) ==
    /\ ~LateTxid(t, s) /\ SkipAcquire(t, s)
    /\ StartCallback(s, t, "sched", [Idle EXCEPT !.by = by],
          [mask EXCEPT ![t][s] = (@ \ {OUT_OF_ORDER}) \cup {OPTIMISTIC_EXECUTION}])
    /\ barrier' = [barrier EXCEPT ![t] = Started(t, by)]
    /\ UNCHANGED <<stage, hop, txid, failed, baton, wake_key, armed, op_seq, lockVars, committed,
                   cont, repoll>>

ScheduleInShard(t, s, by) ==
    ScheduleFails(t, s) \/ ScheduleQueues(t, s, by) \/ ScheduleRuns(t, s, by)

\* ScheduleInShard after its callback.  If the callback asked not to conclude,
\* t stays for another hop: its intents are recorded, unless another transaction
\* has recorded them meanwhile, and it enters the queue.
FinishSchedule(s) ==
    LET t == running[s]
        by == poll[s].by
        stays == poll[s].avoid
        registered == KEYLOCK_ACQUIRED \in mask[t][s]
        fps == GetLockArgs(t, s)
        granted == ~registered /\ AllAcquired(locks, fps, LockMode(t))
    IN  /\ poll[s].at = "callback" /\ poll[s].ctx = "sched"
        /\ running' = [running EXCEPT ![s] = None]
        /\ IF stays
           THEN /\ coord' = [coord EXCEPT ![t] = @ \ {COORD_CONCLUDING}]
                /\ locks' = IF registered THEN locks ELSE AcquireAll(locks, fps, LockMode(t))
                /\ mask' = [mask EXCEPT ![t][s] = @ \cup {KEYLOCK_ACQUIRED}
                                                   \cup IF granted THEN {OUT_OF_ORDER} ELSE {}]
                /\ AssignTxid(t)
                /\ txq' = [txq EXCEPT ![s] = @ \cup {t}]
           ELSE /\ locks' = IF registered THEN ReleaseAll(locks, fps, LockMode(t)) ELSE locks
                /\ mask' = [mask EXCEPT ![t][s] = @ \ {KEYLOCK_ACQUIRED}]
                /\ UNCHANGED <<coord, txid, op_seq, txq>>
        /\ barrier' = [barrier EXCEPT ![t] = @ - 1]
        /\ UNCHANGED <<load, pc, todo, stage, hop, failed, baton, found, wake_key, armed,
                       shard_lock, committed, cont, repoll, tasks, watchVars, val, histVars>>
        /\ poll' = [poll EXCEPT ![s] = IF by = None \/ SingleHopAsync(t) THEN Idle
                                       ELSE Advance(s, AfterInline(by))]

(***************************************************************************)
(* The tasks of the shard queue.                                           *)
(***************************************************************************)

\* The queue fiber takes a task.
TakeTask(s, op) ==
    /\ QueueFiberFree(s)
    /\ tasks[s] # <<>>
    /\ Head(tasks[s]).op = op
    /\ tasks' = [tasks EXCEPT ![s] = Tail(@)]

\* The callback of ScheduleInternal, and that of SingleHopAsync.
ScheduleTask(s) ==
    /\ TakeTask(s, "schedule")
    /\ ScheduleInShard(Head(tasks[s]).tx, s, None)
    /\ UNCHANGED <<load, pc, todo, coord>>

\* poll_cb of DispatchHop, and the cancel_cleanup poll, which has no transaction.
PollTask(s) ==
    /\ TakeTask(s, "poll")
    /\ UNCHANGED <<load, coordVars, mask, op_seq, lockVars, committed, cont, running, watchVars,
                   val, histVars>>
    /\ PollExecution(s, Head(tasks[s]).tx, None, armed, mask)

\* ExpireShardCb
ExpireTask(s) ==
    LET t == Head(tasks[s]).tx
    IN  /\ TakeTask(s, "expire")
        /\ locks' = ReleaseAll(locks, GetLockArgs(t, s), LockMode(t))
        /\ NotifyNone(RemovedWatched(Watches, t, s),
                      [mask EXCEPT ![t][s] = @ \ {KEYLOCK_ACQUIRED}])
        /\ barrier' = [barrier EXCEPT ![t] = @ - 1]
        /\ UNCHANGED <<load, pc, todo, stage, hop, coord, txid, failed, found, op_seq, txq,
                       shard_lock, committed, cont, running, val, histVars>>
        /\ PollExecution(s, None, None, armed, mask)

\* FinalizeMulti ends with a poll for whatever t held up.
FinalizeMulti(s) == PollExecution(s, None, None, armed, mask)

\* UnlockMultiShardCb, with FinalizeMulti.
UnlockTask(s) ==
    LET t == Head(tasks[s]).tx
        newCont == IF cont[s] = t THEN None ELSE cont[s]
    IN  /\ TakeTask(s, "unlock")
        /\ IF IsGlobal(t)
           THEN /\ shard_lock' = [shard_lock EXCEPT ![s] = Release(@, LockMode(t))]
                /\ UNCHANGED locks
           ELSE /\ locks' = ReleaseAll(locks, GetLockArgs(t, s), LockMode(t))
                /\ UNCHANGED shard_lock
        /\ txq' = [txq EXCEPT ![s] = @ \ {t}]
        /\ cont' = [cont EXCEPT ![s] = newCont]
        /\ IF newCont = None THEN NotifyPending(s, Watches, mask) ELSE NotifyNone(Watches, mask)
        /\ barrier' = [barrier EXCEPT ![t] = @ - 1]
        /\ UNCHANGED <<load, pc, todo, stage, hop, coord, txid, failed, found, op_seq, committed,
                       running, val, histVars>>
        /\ FinalizeMulti(s)
=============================================================================
