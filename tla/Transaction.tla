---------------------------- MODULE Transaction ----------------------------
(***************************************************************************)
(* The coordinators (src/server/transaction.cc) and, with the shards, the  *)
(* transaction framework as a whole.  A coordinator schedules its          *)
(* transaction on the shards it is active on, dispatches the hops of its   *)
(* command, and unlocks or expires what is left.                           *)
(***************************************************************************)
EXTENDS EngineShard

\* The shards of the current hop: every command of an atomic multi transaction
\* has active shards of its own.
HopShards(t) == IF Multi(t) THEN Cmd[t].hops[hop[t]] ELSE Active(t)

\* Does the h-th hop conclude?  An atomic multi transaction never concludes by
\* itself, see UnlockMulti.
Concludes(t, h) == ~Multi(t) /\ h = Len(Cmd[t].hops)

WithConclude(flags, conclude) ==
    IF conclude THEN flags \cup {COORD_CONCLUDING} ELSE flags \ {COORD_CONCLUDING}

\* Execute(cb, conclude) up to ScheduleInternal or DispatchHop.
Execute(t, st, h, flags, conclude) ==
    /\ stage' = [stage EXCEPT ![t] = st]
    /\ hop' = [hop EXCEPT ![t] = h]
    /\ coord' = [coord EXCEPT ![t] = WithConclude(flags, conclude)]
    /\ pc' = [pc EXCEPT ![t] = IF COORD_SCHED \in flags THEN "hop" ELSE "schedule"]

\* A transaction that has to repeat or to go on after it was suspended is, for
\* the order of transactions, a new one.
Forget(t) ==
    /\ ran' = {r \in ran : r[1] # t}
    /\ conflict_order' = {e \in conflict_order : t \notin {e[1], e[2]}}

\* The client of t has its answer; the commands that were not sent yet come later.
RecordDone(t) ==
    done_before' = IF TrackOrder
                   THEN done_before \cup {<<t, u>> : u \in {v \in Tx : pc[v] = "start"}}
                   ELSE done_before

FirstStage(t) == IF Cmd[t].kind = "blocking" THEN "check" ELSE "run"

\* The flags of the first hop, and whether that hop concludes.
FirstFlags(t) ==
    WithConclude({}, IF Cmd[t].kind = "blocking" THEN Cardinality(Active(t)) = 1
                     ELSE Concludes(t, 1))

Init ==
    /\ load \in DOMAIN Workload
    /\ pc = [t \in Tx |-> IF Cmd[t].kind = "none" THEN "done" ELSE "start"]
    /\ todo = [t \in Tx |-> {}]
    /\ stage = [t \in Tx |-> FirstStage(t)]
    /\ hop = [t \in Tx |-> 1]
    /\ coord = [t \in Tx |-> FirstFlags(t)]
    /\ txid = [t \in Tx |-> 0]
    /\ barrier = [t \in Tx |-> 0]
    /\ failed = [t \in Tx |-> FALSE]
    /\ baton = [t \in Tx |-> "open"]
    /\ found = [t \in Tx |-> {}]
    /\ wake_key = [t \in Tx |-> None]
    /\ mask = [t \in Tx |-> [s \in Shard |-> {}]]
    /\ armed = [t \in Tx |-> {}]
    /\ op_seq = 1
    /\ txq = [s \in Shard |-> {}]
    /\ locks = [k \in Key |-> FreeLock]
    /\ shard_lock = [s \in Shard |-> FreeLock]
    /\ committed = [s \in Shard |-> 0]
    /\ cont = [s \in Shard |-> None]
    /\ running = [s \in Shard |-> None]
    /\ repoll = [s \in Shard |-> FALSE]
    /\ tasks = [s \in Shard |-> <<>>]
    /\ poll = [s \in Shard |-> Idle]
    /\ wqueue = [k \in Key |-> <<>>]
    /\ wactive = {}
    /\ awakened_keys = {}
    /\ awakened = [s \in Shard |-> {}]
    /\ val = [k \in Key |-> 0]
    /\ ran = {}
    /\ conflict_order = {}
    /\ done_before = {}

(***************************************************************************)
(* ScheduleInternal.  Its first attempt is the start of the command.       *)
(***************************************************************************)

\* Tasks are added to the queues of the shards one by one, in ascending order.
SendTask(t, op, tx, next) ==
    LET s == Min(todo[t])
    IN  /\ FiberFree(t)
        /\ tasks' = [tasks EXCEPT ![s] = Append(@, [op |-> op, tx |-> tx])]
        /\ todo' = [todo EXCEPT ![t] = @ \ {s}]
        /\ pc' = IF todo[t] = {s} THEN [pc EXCEPT ![t] = next] ELSE pc
        /\ UNCHANGED <<load, stage, hop, coord, txid, barrier, failed, baton, found, wake_key,
                       localVars, op_seq, lockVars, pollVars, watchVars, val, histVars>>

\* One attempt: assign the txid and start scheduling.
ScheduleAttempt(t) ==
    LET single == Cardinality(Active(t)) = 1
    IN  /\ pc[t] \in {"start", "schedule"}
        /\ FiberFree(t)
        /\ ~CanRunInlined(t, Active(t))
        /\ single \/ op_seq <= MaxTxid
        /\ txid' = IF single THEN txid ELSE [txid EXCEPT ![t] = op_seq]
        /\ op_seq' = IF single THEN op_seq ELSE op_seq + 1
        /\ barrier' = [barrier EXCEPT ![t] = Cardinality(Active(t))]
        /\ failed' = [failed EXCEPT ![t] = FALSE]
        /\ todo' = [todo EXCEPT ![t] = Active(t)]
        /\ pc' = [pc EXCEPT ![t] = "sched_send"]
        /\ Forget(t)
        /\ UNCHANGED <<load, stage, hop, coord, baton, found, wake_key, localVars, lockVars,
                       pollVars, tasks, watchVars, val, done_before>>

SendSchedule(t) == pc[t] = "sched_send" /\ SendTask(t, "schedule", t,
    IF SingleHopAsync(t) THEN "hop_wait" ELSE "sched_wait")

\* The coordinator lives on the thread of its only shard and schedules inline.
\* SingleHopAsync inlines the callback that polls as well.
ScheduleInline(t) ==
    /\ pc[t] \in {"start", "schedule"}
    /\ FiberFree(t)
    /\ CanRunInlined(t, Active(t))
    /\ ScheduleInShard(t, Cmd[t].home, t)
    /\ IF SingleHopAsync(t)
       THEN pc' = [pc EXCEPT ![t] = "hop_wait"] /\ UNCHANGED coord
       ELSE /\ pc' = [pc EXCEPT ![t] = "hop"]
            /\ coord' = [coord EXCEPT ![t] = @ \cup {COORD_SCHED}]
    /\ UNCHANGED <<load, todo, tasks>>

\* All shards have answered, and some could not schedule t.
ScheduleFailed(t) ==
    /\ pc[t] = "sched_wait"
    /\ FiberFree(t)
    /\ barrier[t] = 0 /\ failed[t]
    /\ todo' = [todo EXCEPT ![t] = Active(t)]
    /\ failed' = [failed EXCEPT ![t] = FALSE]
    /\ pc' = [pc EXCEPT ![t] = "cancel"]
    /\ UNCHANGED <<load, stage, hop, coord, txid, barrier, baton, found, wake_key, localVars,
                   op_seq, lockVars, pollVars, tasks, watchVars, val, histVars>>

\* t blocked the transactions behind it in the queue.
PollAfterCancel(t, s) == t \in txq[s] /\ QueueHead(s) = t /\ txq[s] # {t}

\* CancelShardCb on shard s, and what the coordinator does after the last one.
\* It is run in brief on the thread of the shard, past the shard queue.
CancelShardCb(t, s) ==
    LET poll_execution == failed[t] \/ PollAfterCancel(t, s)
    IN  /\ pc[t] = "cancel" /\ s \in todo[t]
        /\ ThreadFree(s)
        /\ txq' = [txq EXCEPT ![s] = @ \ {t}]
        /\ IF t \in txq[s] /\ IsGlobal(t)
           THEN /\ shard_lock' = [shard_lock EXCEPT ![s] = Release(@, LockMode(t))]
                /\ UNCHANGED <<locks, mask>>
           ELSE IF t \in txq[s]
           THEN /\ locks' = ReleaseAll(locks, GetLockArgs(t, s), LockMode(t))
                /\ mask' = [mask EXCEPT ![t][s] = @ \ {KEYLOCK_ACQUIRED}]
                /\ UNCHANGED shard_lock
           ELSE UNCHANGED <<locks, mask, shard_lock>>
        /\ failed' = [failed EXCEPT ![t] = poll_execution]
        /\ todo' = [todo EXCEPT ![t] = IF @ # {s} THEN @ \ {s}
                                       ELSE IF poll_execution THEN Active(t) ELSE {}]
        /\ pc' = IF todo[t] # {s} THEN pc
                 ELSE [pc EXCEPT ![t] = IF poll_execution THEN "cleanup_send" ELSE "schedule"]
        /\ UNCHANGED <<load, stage, hop, coord, txid, barrier, baton, found, wake_key, armed,
                       op_seq, pollVars, tasks, watchVars, val, histVars>>

SendCleanup(t) == pc[t] = "cleanup_send" /\ SendTask(t, "poll", None, "schedule")

(***************************************************************************)
(* DispatchHop and the end of Execute.                                     *)
(***************************************************************************)

AllToRun(t) == HopShards(t)

\* The shards on which the hop was not executed when t was scheduled.
ShardsToRun(t) == {s \in HopShards(t) : OPTIMISTIC_EXECUTION \notin mask[t][s]}

\* ScheduleInternal is left with COORD_SCHED set.
DispatchHop(t) ==
    LET S == HopShards(t)
        run == ShardsToRun(t)
        newMask == [mask EXCEPT ![t] =
                      [s \in Shard |-> IF s \in S THEN @[s] \ {OPTIMISTIC_EXECUTION} ELSE @[s]]]
        newArmed == [armed EXCEPT ![t] = @ \cup run]
        inline == run # {} /\ CanRunInlined(t, S)
    IN  /\ pc[t] = "hop" \/ (pc[t] = "sched_wait" /\ barrier[t] = 0 /\ ~failed[t])
        /\ FiberFree(t)
        /\ coord' = [coord EXCEPT ![t] = @ \cup {COORD_SCHED}]
        /\ mask' = newMask
        /\ barrier' = [barrier EXCEPT ![t] = Cardinality(run)]
        /\ pc' = [pc EXCEPT ![t] = IF run = {} \/ inline THEN "hop_wait" ELSE "hop_send"]
        /\ UNCHANGED <<load, stage, hop, txid, failed, baton, found, wake_key, op_seq, lockVars,
                       committed, cont, running, tasks, watchVars, val, histVars>>
        /\ IF inline
           THEN /\ PollExecution(Cmd[t].home, t, t, newArmed, newMask)
                /\ UNCHANGED todo
           ELSE /\ armed' = newArmed
                /\ todo' = [todo EXCEPT ![t] = run]
                /\ UNCHANGED <<repoll, poll>>

SendPoll(t) == pc[t] = "hop_send" /\ SendTask(t, "poll", t, "hop_wait")

\* The flags Execute leaves when its hop is done.
AfterHop(t) == IF COORD_CONCLUDING \in coord[t] THEN coord[t] \ {COORD_SCHED} ELSE coord[t]

HopDone(t) == pc[t] = "hop_wait" /\ FiberFree(t) /\ barrier[t] = 0

\* The next hop of a command with several hops, or of a multi transaction.
NextHop(t) ==
    /\ HopDone(t)
    /\ stage[t] = "run" /\ hop[t] < Len(Cmd[t].hops)
    /\ Execute(t, "run", hop[t] + 1, AfterHop(t), Concludes(t, hop[t] + 1))
    /\ UNCHANGED <<load, todo, txid, barrier, failed, baton, found, wake_key, localVars, op_seq,
                   lockVars, pollVars, tasks, watchVars, val, histVars>>

\* The command is done.
Finish(t) ==
    /\ HopDone(t)
    /\ \/ stage[t] = "run" /\ ~Multi(t) /\ hop[t] = Len(Cmd[t].hops)
       \/ stage[t] = "check" /\ COORD_CONCLUDING \in coord[t]
       \/ stage[t] \in {"pop", "action", "conclude"}
    /\ pc' = [pc EXCEPT ![t] = "done"]
    /\ coord' = [coord EXCEPT ![t] = AfterHop(t)]
    /\ UNCHANGED <<load, todo, stage, hop, txid, barrier, failed, baton, found, wake_key,
                   localVars, op_seq, lockVars, pollVars, tasks, watchVars, val, ran,
                   conflict_order>>
    /\ RecordDone(t)

\* UnlockMulti(): the coordinator does not wait for the shards.
UnlockMulti(t) ==
    /\ HopDone(t)
    /\ Multi(t) /\ hop[t] = Len(Cmd[t].hops)
    /\ coord' = [coord EXCEPT ![t] = @ \cup {COORD_CONCLUDING}]
    /\ barrier' = [barrier EXCEPT ![t] = Cardinality(Active(t))]
    /\ todo' = [todo EXCEPT ![t] = Active(t)]
    /\ pc' = [pc EXCEPT ![t] = "unlock_send"]
    /\ UNCHANGED <<load, stage, hop, txid, failed, baton, found, wake_key, localVars, op_seq,
                   lockVars, pollVars, tasks, watchVars, val, ran, conflict_order>>
    /\ RecordDone(t)

SendUnlock(t) == pc[t] = "unlock_send" /\ SendTask(t, "unlock", t, "done")

(***************************************************************************)
(* Blocking commands: RunCbOnFirstNonEmptyBlocking and WaitOnWatch.  On a  *)
(* single shard the first hop concludes, and pops, if it finds a key that  *)
(* is ready; on several shards it only looks.                              *)
(***************************************************************************)

\* What follows a first hop that did not conclude.
AfterCheck(t) ==
    /\ HopDone(t)
    /\ stage[t] = "check" /\ COORD_CONCLUDING \notin coord[t]
    /\ Execute(t, IF found[t] # {} THEN "pop"
                  ELSE IF baton[t] = "closed" THEN "conclude"
                  ELSE "watch", 1, coord[t], TRUE)
    /\ UNCHANGED <<load, todo, txid, barrier, failed, baton, found, wake_key, localVars, op_seq,
                   lockVars, pollVars, tasks, watchVars, val, histVars>>

\* The keys are watched on all shards; the locks were kept.
Block(t) ==
    /\ HopDone(t)
    /\ stage[t] = "watch"
    /\ coord' = [coord EXCEPT ![t] = @ \cup {COORD_SCHED}]
    /\ pc' = [pc EXCEPT ![t] = "blocked"]
    /\ UNCHANGED <<load, todo, stage, hop, txid, barrier, failed, baton, found, wake_key,
                   localVars, op_seq, lockVars, pollVars, tasks, watchVars, val, histVars>>

\* The barrier was closed by NotifySuspended: run the action on all shards.
Wake(t) ==
    /\ pc[t] = "blocked"
    /\ FiberFree(t)
    /\ baton[t] = "closed" /\ COORD_CANCELLED \notin coord[t]
    /\ Execute(t, "action", 1, coord[t], TRUE)
    /\ Forget(t)
    /\ UNCHANGED <<load, todo, txid, barrier, failed, baton, found, wake_key, localVars, op_seq,
                   lockVars, pollVars, tasks, watchVars, val, done_before>>

\* ExpireBlocking: the barrier timed out, or it was closed by CancelBlocking, or
\* by a notification but the connection is closing.
ExpireBlocking(t) ==
    /\ pc[t] = "blocked"
    /\ FiberFree(t)
    /\ Cmd[t].impatient
    /\ baton' = [baton EXCEPT ![t] = "closed"]
    /\ barrier' = [barrier EXCEPT ![t] = Cardinality(Active(t))]
    /\ todo' = [todo EXCEPT ![t] = Active(t)]
    /\ pc' = [pc EXCEPT ![t] = "expire_send"]
    /\ UNCHANGED <<load, stage, hop, coord, txid, failed, found, wake_key, localVars, op_seq,
                   lockVars, pollVars, tasks, watchVars, val, histVars>>

SendExpire(t) == pc[t] = "expire_send" /\ SendTask(t, "expire", t, "expire_wait")

Expired(t) ==
    /\ pc[t] = "expire_wait"
    /\ FiberFree(t)
    /\ barrier[t] = 0
    /\ pc' = [pc EXCEPT ![t] = "done"]
    /\ UNCHANGED <<load, todo, stage, hop, coord, txid, barrier, failed, baton, found, wake_key,
                   localVars, op_seq, lockVars, pollVars, tasks, watchVars, val, ran,
                   conflict_order>>
    /\ RecordDone(t)

\* The connection of a blocking command is dropped or the client is unblocked,
\* at any time until the command is done.
CancelBlocking(t) ==
    /\ Cmd[t].kind = "blocking" /\ Cmd[t].impatient
    /\ pc[t] \notin {"start", "done"}
    /\ baton[t] = "open"
    /\ baton' = [baton EXCEPT ![t] = "closed"]
    /\ coord' = [coord EXCEPT ![t] = @ \cup {COORD_CANCELLED}]
    /\ UNCHANGED <<load, pc, todo, stage, hop, txid, barrier, failed, found, wake_key, localVars,
                   op_seq, lockVars, pollVars, tasks, watchVars, val, histVars>>

(***************************************************************************)
(* The specification.                                                      *)
(***************************************************************************)

\* Nothing is left to do: every transaction is done, or blocked on keys that
\* are not ready, or has used up the bound on attempts to schedule.
Terminated ==
    /\ \A t \in Tx : \/ pc[t] = "done"
                     \/ pc[t] \in {"start", "schedule"} /\ op_seq > MaxTxid
                     \/ pc[t] = "blocked" /\ \A k \in Keys(t) : ~Ready(t, k)
    /\ \A s \in Shard : tasks[s] = <<>> /\ poll[s] = Idle
    /\ UNCHANGED vars

CoordinatorStep(t) ==
    \/ ScheduleAttempt(t) \/ SendSchedule(t) \/ ScheduleInline(t) \/ ScheduleFailed(t)
    \/ \E s \in Shard : CancelShardCb(t, s)
    \/ SendCleanup(t)
    \/ DispatchHop(t) \/ SendPoll(t)
    \/ NextHop(t) \/ Finish(t) \/ UnlockMulti(t) \/ SendUnlock(t)
    \/ AfterCheck(t) \/ Block(t) \/ Wake(t)
    \/ ExpireBlocking(t) \/ SendExpire(t) \/ Expired(t)

ShardStep(s) ==
    \/ ScheduleTask(s) \/ PollTask(s) \/ ExpireTask(s) \/ UnlockTask(s)
    \/ PreUpdateBlocking(s) \/ FinishSchedule(s) \/ FinishRun(s)
    \/ PollAwaked(s) \/ PollContinuation(s) \/ PollHead(s) \/ PollTrans(s) \/ PollIfDeferred(s)

Next ==
    \/ \E t \in Tx : CoordinatorStep(t) \/ CancelBlocking(t)
    \/ \E s \in Shard : ShardStep(s) \/ Heartbeat(s) \/ FlushSlotsNotify(s)
    \/ Terminated

Spec == Init /\ [][Next]_vars

\* A step some fiber can take on its own; clients that cancel, FlushSlots and
\* termination are not among them.
Progress ==
    \/ \E t \in Tx : CoordinatorStep(t)
    \/ \E s \in Shard : ShardStep(s) \/ Heartbeat(s)

\* The fibers never stop all together.  The schedulers of the threads are fair to
\* each fiber; this is weaker, and enough because no run of Progress is infinite.
Fairness == WF_vars(Progress)

FairSpec == Spec /\ Fairness
=============================================================================
