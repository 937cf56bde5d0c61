------------------------ MODULE ShardScheduleProofs ------------------------
(***************************************************************************)
(* Proofs about the abstract schedule, for any shards, transactions and    *)
(* conflicts.  IInv is inductive: OutOfOrderHasPrecedence alone is not,    *)
(* because a transaction that leaves the queue must be the head or have    *)
(* precedence itself, and txids compare strictly only if they are distinct.*)
(***************************************************************************)
EXTENDS ShardSchedule, TLAPS

\* No transaction holds anything in the initial state.
LEMMA InitIInv == Init => IInv
BY DEF Init, IInv, TypeOK, TxidsAreFresh, QueuesAreConsistent, OutOfOrderHasPrecedence

\* A transaction that holds nothing, and so is not queued, gets a new txid.
LEMMA AssignIInv == ASSUME IInv, NEW t \in Tx, Assign(t) PROVE IInv'
<1> USE DEF IInv, Assign
<1>1. \A s \in Shard : t \notin txq[s] /\ t \notin ooo[s]
  BY DEF QueuesAreConsistent
<1>2. TypeOK'
  BY DEF TypeOK
<1>3. TxidsAreFresh'
  BY DEF TypeOK, TxidsAreFresh
<1>4. QueuesAreConsistent'
  BY <1>1 DEF TypeOK, QueuesAreConsistent
<1>5. OutOfOrderHasPrecedence'
  BY <1>1 DEF TypeOK, OutOfOrderHasPrecedence, QueuesAreConsistent
<1> QED BY <1>2, <1>3, <1>4, <1>5

\* A transaction that is not queued on the shard enters its queue: with its
\* intents granted it conflicts with nobody there, otherwise it comes last.
LEMMA EnterIInv ==
    ASSUME IInv, NEW t \in Tx, NEW s \in Shard, NEW n \in Nat, Enter(t, s, n) PROVE IInv'
<1> USE DEF IInv
<1>1. /\ t \notin txq[s] /\ t \notin ooo[s]
      /\ n > committed[s] /\ n > 0
  BY DEF Enter, EntersWith, QueuesAreConsistent, TypeOK
<1>2. /\ txid' = [txid EXCEPT ![t] = n]
      /\ op_seq' \in Nat /\ op_seq' >= op_seq /\ n < op_seq'
  BY DEF Enter, EntersWith, TypeOK, TxidsAreFresh
<1>3. \A r \in Shard : \A u \in txq[r] : txid'[u] = txid[u]
  BY <1>2 DEF Enter, EntersWith, TypeOK
<1>4. /\ txq' = [txq EXCEPT ![s] = @ \cup {t}]
      /\ held' = [held EXCEPT ![s] = @ \cup {t}]
      /\ committed' = committed
      /\ \/ Granted(t, s) /\ ooo' = [ooo EXCEPT ![s] = @ \cup {t}]
         \/ ooo' = ooo
  BY DEF Enter
<1>5. TypeOK'
  BY <1>2, <1>4 DEF TypeOK
<1>6. TxidsAreFresh'
  BY <1>2 DEF Enter, EntersWith, TypeOK, TxidsAreFresh
<1>7. QueuesAreConsistent'
  BY <1>1, <1>2, <1>3, <1>4 DEF TypeOK, QueuesAreConsistent
<1>8. OutOfOrderHasPrecedence'
  <2> SUFFICES ASSUME NEW r \in Shard, NEW v \in ooo'[r], NEW u \in held'[r],
                      v # u, Conflict(v, u, r)
               PROVE  u \in txq'[r] /\ txid'[v] < txid'[u]
    BY DEF OutOfOrderHasPrecedence
  <2>0. v \in Tx /\ u \in Tx
    BY <1>4 DEF TypeOK
  <2>1. CASE v \in ooo[r] /\ u \in held[r] /\ ~(r = s /\ t \in {u, v})
    <3>1. u \in txq[r] /\ v \in txq[r] /\ txid[v] < txid[u]
      BY <2>1 DEF OutOfOrderHasPrecedence, QueuesAreConsistent
    <3> QED BY <3>1, <1>3, <1>4 DEF TypeOK
  <2>2. CASE r = s /\ v = t
    <3>1. Granted(t, s) /\ u \in held[s]
      BY <2>2, <1>1, <1>4 DEF TypeOK
    <3> QED BY <3>1, <2>2 DEF Granted
  <2>3. CASE r = s /\ u = t
    <3>1. v \in ooo[s] /\ v \in txq[s] /\ v \in held[s]
      BY <2>3, <1>4 DEF TypeOK, QueuesAreConsistent
    <3>2. Conflict(t, v, s)
      BY <2>3, <2>0, ConflictAssumption
    <3>3. ~Granted(t, s)
      BY <3>1, <3>2, <2>3 DEF Granted
    <3>4. txid[v] < n
      BY <3>1, <3>3 DEF Enter
    <3> QED BY <2>3, <2>0, <3>1, <3>4, <1>2, <1>3, <1>4 DEF TypeOK
  <2> QED BY <2>1, <2>2, <2>3, <1>4 DEF TypeOK
<1> QED BY <1>5, <1>6, <1>7, <1>8

\* A transaction that runs at once conflicts with nobody that holds intents.
LEMMA RunAtOnceIInv ==
    ASSUME IInv, NEW t \in Tx, NEW s \in Shard, RunAtOnce(t, s) PROVE IInv'
<1> USE DEF IInv, RunAtOnce
<1>1. TypeOK' /\ TxidsAreFresh'
  BY DEF TypeOK, TxidsAreFresh
<1>2. QueuesAreConsistent'
  BY DEF TypeOK, QueuesAreConsistent
<1>3. OutOfOrderHasPrecedence'
  <2> SUFFICES ASSUME NEW r \in Shard, NEW v \in ooo[r], NEW u \in held'[r],
                      v # u, Conflict(v, u, r)
               PROVE  u \in txq[r] /\ txid[v] < txid[u]
    BY DEF OutOfOrderHasPrecedence
  <2>1. CASE u \in held[r]
    BY <2>1 DEF OutOfOrderHasPrecedence
  <2>2. CASE r = s /\ u = t
    <3>1. v \in held[s] \ {t} /\ v \in Tx
      BY <2>2 DEF QueuesAreConsistent, TypeOK
    <3>2. Conflict(t, v, s)
      BY <2>2, <3>1, ConflictAssumption
    <3> QED BY <3>1, <3>2 DEF Granted
  <2> QED BY <2>1, <2>2 DEF TypeOK
<1> QED BY <1>1, <1>2, <1>3

\* The head has the least txid of the queue, so that committing it overtakes
\* nobody.
LEMMA CommitIInv ==
    ASSUME IInv, NEW t \in Tx, NEW s \in Shard, Commit(t, s) PROVE IInv'
<1> USE DEF IInv, Commit
<1>0. t \in txq[s] /\ txid[t] \in Nat /\ txid[t] < op_seq
  BY DEF IsHead, TypeOK, TxidsAreFresh
<1>1. TypeOK' /\ TxidsAreFresh'
  BY <1>0 DEF TypeOK, TxidsAreFresh
<1>2. QueuesAreConsistent'
  BY <1>0 DEF TypeOK, QueuesAreConsistent, IsHead
<1>3. OutOfOrderHasPrecedence'
  BY DEF TypeOK, OutOfOrderHasPrecedence
<1> QED BY <1>1, <1>2, <1>3

\* A transaction that leaves the queue but keeps its intents conflicts with
\* nobody that may run out of order: such a one would come before the head, or
\* each of the two before the other.
LEMMA LeaveIInv ==
    ASSUME IInv, NEW t \in Tx, NEW s \in Shard, Leave(t, s) PROVE IInv'
<1> USE DEF IInv, Leave
<1>1. TypeOK' /\ TxidsAreFresh'
  BY DEF TypeOK, TxidsAreFresh
<1>2. QueuesAreConsistent'
  BY DEF TypeOK, QueuesAreConsistent
<1>3. OutOfOrderHasPrecedence'
  <2> SUFFICES ASSUME NEW r \in Shard, NEW v \in ooo'[r], NEW u \in held[r],
                      v # u, Conflict(v, u, r)
               PROVE  u \in txq'[r] /\ txid[v] < txid[u]
    BY DEF OutOfOrderHasPrecedence
  <2>1. v \in ooo[r] /\ v \in txq[r] /\ v \in held[r] /\ v \in Tx /\ u \in Tx
    BY DEF TypeOK, QueuesAreConsistent
  <2>2. u \in txq[r] /\ txid[v] < txid[u]
    BY <2>1 DEF OutOfOrderHasPrecedence
  <2>3. ~(r = s /\ u = t)
    <3> SUFFICES ASSUME r = s, u = t PROVE FALSE
      OBVIOUS
    <3>1. CASE IsHead(t, s)
      BY <3>1, <2>1, <2>2 DEF IsHead, TypeOK
    <3>2. CASE t \in ooo[s]
      <4>1. Conflict(t, v, s)
        BY <2>1, ConflictAssumption
      <4>2. txid[t] < txid[v]
        BY <4>1, <3>2, <2>1 DEF OutOfOrderHasPrecedence
      <4> QED BY <4>2, <2>1, <2>2 DEF TypeOK
    <3> QED BY <3>1, <3>2
  <2> QED BY <2>2, <2>3 DEF TypeOK
<1> QED BY <1>1, <1>2, <1>3

\* A transaction that concludes leaves nothing behind.
LEMMA ConcludeIInv ==
    ASSUME IInv, NEW t \in Tx, NEW s \in Shard, Conclude(t, s) PROVE IInv'
<1> USE DEF IInv, Conclude
<1>1. TypeOK' /\ TxidsAreFresh'
  BY DEF TypeOK, TxidsAreFresh
<1>2. QueuesAreConsistent'
  BY DEF TypeOK, QueuesAreConsistent
<1>3. OutOfOrderHasPrecedence'
  BY DEF TypeOK, OutOfOrderHasPrecedence
<1> QED BY <1>1, <1>2, <1>3

\* Every step preserves IInv.
LEMMA NextIInv == IInv /\ [Next]_schedVars => IInv'
<1> SUFFICES ASSUME IInv, [Next]_schedVars PROVE IInv'
  OBVIOUS
<1>1. CASE UNCHANGED schedVars
  BY <1>1 DEF schedVars, IInv, TypeOK, TxidsAreFresh, QueuesAreConsistent,
              OutOfOrderHasPrecedence
<1>2. CASE Next
  <2>1. PICK t \in Tx :
            \/ Assign(t)
            \/ \E s \in Shard :
                  \/ Enter(t, s, txid[t]) \/ Enter(t, s, op_seq)
                  \/ RunAtOnce(t, s) \/ Commit(t, s) \/ Leave(t, s) \/ Conclude(t, s)
    BY <1>2 DEF Next
  <2>2. CASE Assign(t)
    BY <2>2, AssignIInv
  <2>3. ASSUME NEW s \in Shard, Enter(t, s, txid[t]) \/ Enter(t, s, op_seq) PROVE IInv'
    <3>1. txid[t] \in Nat /\ op_seq \in Nat
      BY DEF IInv, TypeOK
    <3> QED BY <2>3, <3>1, EnterIInv
  <2>4. ASSUME NEW s \in Shard, RunAtOnce(t, s) PROVE IInv'
    BY <2>4, RunAtOnceIInv
  <2>5. ASSUME NEW s \in Shard, Commit(t, s) PROVE IInv'
    BY <2>5, CommitIInv
  <2>6. ASSUME NEW s \in Shard, Leave(t, s) PROVE IInv'
    BY <2>6, LeaveIInv
  <2>7. ASSUME NEW s \in Shard, Conclude(t, s) PROVE IInv'
    BY <2>7, ConcludeIInv
  <2> QED BY <2>1, <2>2, <2>3, <2>4, <2>5, <2>6, <2>7
<1> QED BY <1>1, <1>2

\* The inductive invariant holds in every reachable state of the schedule.
THEOREM Invariance == Spec => []IInv
BY InitIInv, NextIInv, PTL DEF Spec

\* Type correctness of the schedule.
THEOREM TypeCorrect == Spec => []TypeOK
<1>1. IInv => TypeOK
  BY DEF IInv
<1> QED BY <1>1, Invariance, PTL

\* Whatever is scheduled, suspended, cancelled or concluded, a transaction that
\* may run out of order has precedence over all it conflicts with
\* (OUT_OF_ORDER in ScheduleInShard).
THEOREM Precedence == Spec => []OutOfOrderHasPrecedence
<1>1. IInv => OutOfOrderHasPrecedence
  BY DEF IInv
<1> QED BY <1>1, Invariance, PTL

\* No two transactions that may run out of order on a shard conflict, so that
\* the order in which they run there does not matter.
THEOREM OutOfOrderIsConflictFree ==
    Spec => [](\A s \in Shard : \A t, u \in ooo[s] : t # u => ~Conflict(t, u, s))
<1>1. IInv => \A s \in Shard : \A t, u \in ooo[s] : t # u => ~Conflict(t, u, s)
  <2> SUFFICES ASSUME IInv, NEW s \in Shard, NEW t \in ooo[s], NEW u \in ooo[s],
                      t # u, Conflict(t, u, s)
               PROVE  FALSE
    OBVIOUS
  <2>1. t \in Tx /\ u \in Tx /\ t \in held[s] /\ u \in held[s]
    BY DEF IInv, TypeOK, QueuesAreConsistent
  <2>2. Conflict(u, t, s)
    BY <2>1, ConflictAssumption
  <2>3. txid[t] < txid[u] /\ txid[u] < txid[t]
    BY <2>1, <2>2 DEF IInv, OutOfOrderHasPrecedence
  <2> QED BY <2>1, <2>3 DEF IInv, TypeOK
<1> QED BY <1>1, Invariance, PTL

\* No two queued transactions of a shard have the same txid.
THEOREM TxidsDistinct == Spec => []UniqueTxids
<1>1. IInv => UniqueTxids
  BY DEF IInv, TypeOK, TxidsAreFresh, QueuesAreConsistent, UniqueTxids
<1> QED BY <1>1, Invariance, PTL

\* What a shard commits from the head of its queue is later than all it committed
\* before (DCHECK_LT(committed_txid_, txid) in PollExecutionInternal).
THEOREM Monotone == Spec => CommittedIncreases
<1> DEFINE Later(s) == \/ committed'[s] > committed[s]
                       \/ committed'[s] = committed[s] /\ \A t \in Tx : ~Commit(t, s)
<1>1. IInv /\ [Next]_schedVars => [\A s \in Shard : Later(s)]_schedVars
  <2> SUFFICES ASSUME IInv, Next, NEW s \in Shard PROVE Later(s)
    OBVIOUS
  <2>1. committed \in [Shard -> Nat] /\ txid \in [Tx -> Nat]
    BY DEF IInv, TypeOK
  <2>2. ASSUME NEW t \in Tx, NEW r \in Shard, Commit(t, r)
        PROVE  committed' = [committed EXCEPT ![r] = txid[t]] /\ txid[t] > committed[r]
    BY <2>1, <2>2 DEF Commit, IsHead, IInv, QueuesAreConsistent
  <2>3. CASE \E t \in Tx : Commit(t, s)
    BY <2>1, <2>2, <2>3
  <2>4. CASE \A t \in Tx : ~Commit(t, s)
    <3>1. CASE committed' = committed
      BY <2>4, <3>1
    <3>2. ASSUME NEW t \in Tx, NEW r \in Shard, Commit(t, r) PROVE committed'[s] = committed[s]
      BY <2>1, <2>2, <2>4, <3>2
    <3> QED BY <2>4, <3>1, <3>2 DEF Next, Assign, Enter, RunAtOnce, Leave, Conclude
  <2> QED BY <2>3, <2>4
<1> QED BY <1>1, Invariance, PTL DEF Spec, CommittedIncreases
=============================================================================
