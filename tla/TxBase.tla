------------------------------- MODULE TxBase -------------------------------
(***************************************************************************)
(* The state shared by the parts of the transaction framework: the         *)
(* coordinators of the transactions (src/server/transaction.{h,cc}), the   *)
(* shards (src/server/engine_shard.{h,cc}) and the blocking controllers    *)
(* (src/server/blocking_controller.cc).                                    *)
(*                                                                         *)
(* A coordinator is a fiber of its own; a shard thread runs the tasks of   *)
(* its queue on one fiber, and may also run a coordinator that lives on    *)
(* the same thread and executes inline.  A callback of a transaction may   *)
(* preempt, so it is split into its start and its end; everything else     *)
(* that a shard thread does between two preemption points is one step, or  *)
(* a chain of steps during which the thread does nothing else.             *)
(*                                                                         *)
(* The queue of a shard is the set of its transactions, ordered by txid:   *)
(* that is what module TxQueue shows the linked list of the code to be.    *)
(***************************************************************************)
EXTENDS IntentLock, Sequences, FiniteSets, FiniteSetsExt

CONSTANTS
    Shard,      \* shard ids, a set of natural numbers
    Key,        \* keys, standing for their lock fingerprints
    Tx,         \* transactions
    None,       \* the null pointer
    ShardOf,    \* the shard of each key
    Workload,   \* sequence of workloads: the command of each transaction, see CmdType
    FlushSlots, \* TRUE if a FlushSlots fiber, or a heartbeat that was suspended, may notify
    TrackOrder, \* TRUE if conflict_order and done_before are recorded
    MaxTxid     \* bound on op_seq

\* What of CommandId, the arguments and the connection the framework looks at.
CmdType ==
    [kind : {"plain", "async", "multi", "blocking", "none"}, \* none: it is not sent
     args : Seq(Key),              \* keys in argument order; <<>>: all shards
     mode : Mode,                  \* LockMode(): SHARED for read-only commands
     global : BOOLEAN,             \* CO::GLOBAL_TRANS, or multi mode GLOBAL
     idempotent : BOOLEAN,         \* CO::IDEMPOTENT
     hops : Seq(SUBSET Shard),     \* active shards of each hop
     effect : {"none", "push", "pop"}, \* what the last hop does to its keys
     need : Nat,                   \* elements a blocked command waits for
     home : Shard \cup {None},     \* shard of the coordinator's thread, if any
     preempts : BOOLEAN,           \* its callbacks may preempt
     impatient : BOOLEAN]          \* may time out, be cancelled or disconnect

ASSUME ConstantAssumption ==
    /\ Shard \subseteq Nat /\ IsFiniteSet(Shard)
    /\ IsFiniteSet(Tx) /\ IsFiniteSet(Key)
    /\ None \notin Tx \cup Key \cup Shard
    /\ ShardOf \in [Key -> Shard]
    /\ Workload # <<>>
    /\ \A w \in DOMAIN Workload : /\ Tx \subseteq DOMAIN Workload[w]
                                   /\ \A t \in Tx : Workload[w][t].mode \in Mode
    /\ FlushSlots \in BOOLEAN /\ TrackOrder \in BOOLEAN
    /\ MaxTxid \in Nat

VARIABLES
    load,          \* which workload the clients send
    \* The coordinator of each transaction.
    pc,            \* what the coordinator does next
    todo,          \* shards it still has to send a task to, or hear from
    stage,         \* which hop of the command it is executing
    hop,           \* index of the hop, for commands with plain hops
    coord,         \* coordinator_state_
    txid,          \* txid_, 0 while unassigned
    barrier,       \* run_barrier_
    failed,        \* fail_cnt # 0, then should_poll_execution
    baton,         \* blocking_barrier_: "open" or "closed"
    found,         \* find_res of FindFirstNonEmpty
    wake_key,      \* wake_key_pos
    \* PerShardData of each transaction.
    mask,          \* local_mask
    armed,         \* the shards whose is_armed is set
    \* The shards.
    op_seq,        \* the global transaction counter
    txq,           \* txq_, as a set ordered by txid
    locks,         \* trans_locks, of all shards
    shard_lock,    \* shard_lock_
    committed,     \* committed_txid_
    cont,          \* continuation_trans_
    running,       \* running_tx_
    repoll,        \* needs_repoll_
    tasks,         \* queue_, the fifo of the shard's own fiber
    poll,          \* where the running PollExecution or ScheduleInShard is
    \* The blocking controllers.
    wqueue,        \* watch queue of each key
    wactive,       \* keys whose watch queue is ACTIVE
    awakened_keys,
    awakened,      \* awakened_transactions_ of each shard
    val,           \* number of elements of each key
    \* History.
    ran,           \* <<t, s>>: t ran on s
    conflict_order,\* <<t, u>>: t ran before u on a key where they conflict
    done_before    \* <<t, u>>: t was done when u started

coordVars == <<pc, todo, stage, hop, coord, txid, barrier, failed, baton, found, wake_key>>
localVars == <<mask, armed>>
lockVars == <<txq, locks, shard_lock>>
pollVars == <<committed, cont, running, repoll, poll>>
watchVars == <<wqueue, wactive, awakened_keys, awakened>>
histVars == <<ran, conflict_order, done_before>>
vars == <<load, coordVars, localVars, op_seq, lockVars, pollVars, tasks, watchVars, val, histVars>>

KEYLOCK_ACQUIRED == "KEYLOCK_ACQUIRED"
OUT_OF_ORDER == "OUT_OF_ORDER"
OPTIMISTIC_EXECUTION == "OPTIMISTIC_EXECUTION"
WAS_SUSPENDED == "WAS_SUSPENDED"
AWAKED_Q == "AWAKED_Q"
LocalMask == {KEYLOCK_ACQUIRED, OUT_OF_ORDER, OPTIMISTIC_EXECUTION, WAS_SUSPENDED, AWAKED_Q}

COORD_SCHED == "COORD_SCHED"
COORD_CONCLUDING == "COORD_CONCLUDING"
COORD_CANCELLED == "COORD_CANCELLED"
CoordState == {COORD_SCHED, COORD_CONCLUDING, COORD_CANCELLED}

Cmd == Workload[load]

Keys(t) == Range(Cmd[t].args)
KeysIn(t, s) == {k \in Keys(t) : ShardOf[k] = s}
Multi(t) == Cmd[t].kind = "multi"
IsGlobal(t) == Cmd[t].global
LockMode(t) == Cmd[t].mode
Active(t) == IF Cmd[t].args = <<>> THEN Shard ELSE {ShardOf[k] : k \in Keys(t)}

\* Does t go through the single shard path of SingleHopAsync?
SingleHopAsync(t) == Cmd[t].kind = "async" /\ Cardinality(Active(t)) = 1

\* The fingerprints a transaction locks on a shard (GetLockArgs).
GetLockArgs(t, s) == IF IsGlobal(t) THEN {} ELSE KeysIn(t, s)

\* Do the accesses of commands c and d on shard s conflict?
CmdConflict(c, d, s) ==
    /\ \/ c.global \/ d.global
       \/ \E k \in Range(c.args) \cap Range(d.args) : ShardOf[k] = s
    /\ EXCLUSIVE \in {c.mode, d.mode}

Conflict(t, u, s) == CmdConflict(Cmd[t], Cmd[u], s)

\* TxQueue::Front and TxQueue::TailScore.
QueueHead(s) == CHOOSE t \in txq[s] : \A u \in txq[s] : txid[t] <= txid[u]
TailScore(s) == Max({txid[t] : t \in txq[s]})

Task == [op : {"schedule", "poll", "expire", "unlock"}, tx : Tx \cup {None}]

\* The local variables of PollExecution (or ScheduleInShard) on a shard.
\*   by     the coordinator whose fiber runs it inline; None: the queue fiber
\*   at     "entered": inside a callback, suspended before it has taken effect;
\*          "callback": inside a callback that has taken effect
\*   ctx    for a callback: which call of RunCallback it is in
\*   trans, disarmed, ooo   the transaction it polls for, and its trans_mask
\*   again  this is the repoll of PollExecutionIfDeferred
\*   avoid  the callback returned AVOID_CONCLUDING
Frame ==
    [at : {"idle", "awaked", "cont", "loop", "tail", "repoll", "entered", "callback"},
     by : Tx \cup {None},
     ctx : {"none", "sched", "awaked", "cont", "head", "trans"},
     trans : Tx \cup {None},
     disarmed : BOOLEAN, ooo : BOOLEAN, again : BOOLEAN, avoid : BOOLEAN]

Idle == [at |-> "idle", by |-> None, ctx |-> "none", trans |-> None,
         disarmed |-> FALSE, ooo |-> FALSE, again |-> FALSE, avoid |-> FALSE]

(***************************************************************************)
(* Fibers.  A suspended callback leaves the thread of its shard to the     *)
(* other fibers of the thread: to the coordinators that live on it and,    *)
(* unless the callback runs on the queue fiber itself, to the tasks.       *)
(***************************************************************************)

\* May the callback of t preempt?  WatchInShard does not touch the data.
Preempts(t) == Cmd[t].preempts /\ stage[t] # "watch"

Suspended(s) == poll[s].at \in {"entered", "callback"} /\ Preempts(running[s])

ThreadFree(s) == poll[s].at = "idle" \/ Suspended(s)

QueueFiberFree(s) == poll[s].at = "idle" \/ (Suspended(s) /\ poll[s].by # None)

FiberFree(t) ==
    /\ Cmd[t].home # None => ThreadFree(Cmd[t].home)
    /\ \A s \in Shard : poll[s].by # t

HasBlockedTransactions(s) == \E k \in Key : ShardOf[k] = s /\ wqueue[k] # <<>>
HasAwakedTransaction(s) == awakened[s] # {}

\* Transaction::CanRunInlined, for a hop on the given shards.
CanRunInlined(t, shards) ==
    LET s == Cmd[t].home
    IN  /\ shards = {s}
        /\ ~IsGlobal(t)
        /\ running[s] = None
        /\ ~HasBlockedTransactions(s)

\* Does t find key k ready (its KeyReadyChecker, and the check before it blocks)?
Ready(t, k) == val[k] >= Cmd[t].need
=============================================================================
