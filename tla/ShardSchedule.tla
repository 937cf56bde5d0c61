--------------------------- MODULE ShardSchedule ---------------------------
(***************************************************************************)
(* What scheduling on the shards promises, without intent counters, polls  *)
(* and fibers: on every shard transactions hold intents from the moment    *)
(* they are scheduled (or run at once) until they conclude, wait in a queue*)
(* ordered by txid, and may run out of order if their intents were granted.*)
(* Module Transaction implements this specification.                       *)
(***************************************************************************)
EXTENDS Integers

CONSTANTS
    Shard, Tx,
    Conflict(_, _, _)  \* do two transactions conflict on a shard?

ASSUME ConflictAssumption ==
    \A t, u \in Tx, s \in Shard :
        /\ Conflict(t, u, s) \in BOOLEAN
        /\ Conflict(t, u, s) <=> Conflict(u, t, s)

VARIABLES
    op_seq,    \* the next txid
    txid,      \* the txid of each transaction, 0 while unassigned
    txq,       \* the transactions queued on each shard
    held,      \* the transactions that hold intents on each shard
    ooo,       \* the queued transactions that may run out of order
    committed  \* the greatest txid that ran from the head of the queue

schedVars == <<op_seq, txid, txq, held, ooo, committed>>

Init ==
    /\ op_seq = 1
    /\ txid = [t \in Tx |-> 0]
    /\ txq = [s \in Shard |-> {}]
    /\ held = [s \in Shard |-> {}]
    /\ ooo = [s \in Shard |-> {}]
    /\ committed = [s \in Shard |-> 0]

GrantedAmongQueued(t, s) == \A u \in txq[s] \ {t} : ~Conflict(t, u, s)

Granted(t, s) == \A u \in held[s] \ {t} : ~Conflict(t, u, s)

IsHead(t, s) == t \in txq[s] /\ \A u \in txq[s] : txid[t] <= txid[u]

AssignSame(t) ==
    /\ \A s \in Shard : t \notin held[s]
    /\ txid' = [txid EXCEPT ![t] = op_seq]
    /\ UNCHANGED <<op_seq, txq, held, ooo, committed>>

\* An attempt to schedule t, which holds nothing, takes a new txid.
Assign(t) ==
    /\ \A s \in Shard : t \notin held[s]
    /\ txid' = [txid EXCEPT ![t] = op_seq]
    /\ op_seq' = op_seq + 1
    /\ UNCHANGED <<txq, held, ooo, committed>>

\* The txid a transaction has when it enters a queue: the one it was assigned,
\* or a new one.
EntersWith(t, n) ==
    \/ n = txid[t] /\ n > 0 /\ UNCHANGED <<txid, op_seq>>
    \/ /\ n = op_seq
       /\ \A s \in Shard : t \notin txq[s]
       /\ txid' = [txid EXCEPT ![t] = n]
       /\ op_seq' = op_seq + 1

\* t enters the queue of s with txid n: behind all others, unless its intents
\* are granted, and never behind what was committed.
Enter(t, s, n) ==
    /\ t \notin txq[s]
    /\ EntersWith(t, n)
    /\ n > committed[s]
    /\ Granted(t, s) \/ \A u \in txq[s] : txid[u] < n
    /\ txq' = [txq EXCEPT ![s] = @ \cup {t}]
    /\ held' = [held EXCEPT ![s] = @ \cup {t}]
    /\ \/ Granted(t, s) /\ ooo' = [ooo EXCEPT ![s] = @ \cup {t}]
       \/ UNCHANGED ooo
    /\ UNCHANGED committed

\* t starts to run on s without entering the queue.
RunAtOnce(t, s) ==
    /\ t \notin held[s] /\ t \notin txq[s]
    /\ Granted(t, s)
    /\ held' = [held EXCEPT ![s] = @ \cup {t}]
    /\ UNCHANGED <<op_seq, txid, txq, ooo, committed>>

CommitAnyone(t, s) ==
    /\ t \in txq[s]
    /\ committed' = [committed EXCEPT ![s] = txid[t]]
    /\ UNCHANGED <<op_seq, txid, txq, held, ooo>>

\* The head of the queue starts to run, once; the hop that suspends it drops its
\* permission to run out of order.
Commit(t, s) ==
    /\ IsHead(t, s)
    /\ txid[t] # committed[s]
    /\ committed' = [committed EXCEPT ![s] = txid[t]]
    /\ ooo' \in {ooo, [ooo EXCEPT ![s] = @ \ {t}]}
    /\ UNCHANGED <<op_seq, txid, txq, held>>

\* t leaves the queue and keeps its intents: to go on as the continuation, or
\* suspended.
Leave(t, s) ==
    /\ IsHead(t, s) \/ t \in ooo[s]
    /\ txq' = [txq EXCEPT ![s] = @ \ {t}]
    /\ ooo' = [ooo EXCEPT ![s] = @ \ {t}]
    /\ UNCHANGED <<op_seq, txid, held, committed>>

\* t concludes, expires, unlocks or is cancelled on s.
Conclude(t, s) ==
    /\ t \in held[s]
    /\ txq' = [txq EXCEPT ![s] = @ \ {t}]
    /\ held' = [held EXCEPT ![s] = @ \ {t}]
    /\ ooo' = [ooo EXCEPT ![s] = @ \ {t}]
    /\ UNCHANGED <<op_seq, txid, committed>>

Next ==
    \E t \in Tx :
        \/ Assign(t)
        \/ \E s \in Shard :
              \/ Enter(t, s, txid[t]) \/ Enter(t, s, op_seq)
              \/ RunAtOnce(t, s) \/ Commit(t, s) \/ Leave(t, s) \/ Conclude(t, s)

Spec == Init /\ [][Next]_schedVars

(***************************************************************************)
(* Properties.                                                             *)
(***************************************************************************)

\* The variables keep their types.
TypeOK ==
    /\ op_seq \in Nat \ {0}
    /\ txid \in [Tx -> Nat]
    /\ txq \in [Shard -> SUBSET Tx]
    /\ held \in [Shard -> SUBSET Tx]
    /\ ooo \in [Shard -> SUBSET Tx]
    /\ committed \in [Shard -> Nat]

\* A transaction that may run out of order has precedence, on its shard, over
\* every transaction it conflicts with: any of these that holds intents is still
\* queued, with a greater txid (OUT_OF_ORDER in ScheduleInShard).
OutOfOrderHasPrecedence ==
    \A s \in Shard : \A t \in ooo[s], u \in held[s] :
        t # u /\ Conflict(t, u, s) => u \in txq[s] /\ txid[t] < txid[u]

\* Whatever entered the queue out of place or ran out of order, what a shard
\* commits from the head of its queue is later than all it committed before
\* (DCHECK_LT(committed_txid_, txid) in PollExecutionInternal).
CommittedIncreases ==
    [][\A s \in Shard : \/ committed'[s] > committed[s]
                        \/ committed'[s] = committed[s] /\ \A t \in Tx : ~Commit(t, s)]_schedVars

\* No two queued transactions of a shard have the same txid.
UniqueTxids == \A s \in Shard : \A t, u \in txq[s] : txid[t] = txid[u] => t = u

\* Assigned txids are distinct and were taken from op_seq.
TxidsAreFresh ==
    /\ \A t \in Tx : txid[t] < op_seq
    /\ \A t, u \in Tx : txid[t] = txid[u] /\ txid[t] > 0 => t = u

\* What may run out of order is queued, what is queued holds intents and was not
\* overtaken by what the shard committed.
QueuesAreConsistent ==
    \A s \in Shard :
        /\ ooo[s] \subseteq txq[s]
        /\ txq[s] \subseteq held[s]
        /\ committed[s] < op_seq
        /\ \A t \in txq[s] : txid[t] > 0 /\ txid[t] >= committed[s]

\* The inductive invariant.
IInv == TypeOK /\ TxidsAreFresh /\ QueuesAreConsistent /\ OutOfOrderHasPrecedence
=============================================================================
