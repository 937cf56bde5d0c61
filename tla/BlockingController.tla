------------------------- MODULE BlockingController -------------------------
(***************************************************************************)
(* The watch queues of a shard (src/server/blocking_controller.cc).  All   *)
(* keys are in one database, so awakened_indices_ adds nothing to          *)
(* awakened_keys and is left out; a key without a queue in queue_map is    *)
(* one with an empty queue.                                                *)
(***************************************************************************)
EXTENDS TxBase

\* The state of the controllers: RunInShard unwatches and then notifies within
\* one step, so both work on a value w of this shape.
Watches == [queue |-> wqueue, active |-> wactive, keys |-> awakened_keys, txs |-> awakened]

SetWatches(w) ==
    /\ wqueue' = w.queue
    /\ wactive' = w.active
    /\ awakened_keys' = w.keys
    /\ awakened' = w.txs

\* RemovedWatched without sending the key for re-verification ...
RemovedAndForgotten(w, t, s) ==
    [w EXCEPT !.queue = [k \in Key |-> SelectSeq(w.queue[k], LAMBDA u : u # t \/ ShardOf[k] # s)],
              !.active = {k \in @ : ShardOf[k] # s \/ w.queue[k] = <<>> \/ Head(w.queue[k]) # t},
              !.txs[s] = @ \ {t}]

\* ... and without suspending the queue.
RemovedFromActive(w, t, s) ==
    [w EXCEPT !.queue = [k \in Key |-> SelectSeq(w.queue[k], LAMBDA u : u # t \/ ShardOf[k] # s)],
              !.txs[s] = @ \ {t}]

\* RemovedWatched(keys, tx), with UnwatchTx for each key: an active queue whose
\* front is tx is suspended and its key sent for re-verification.
RemovedWatched(w, t, s) ==
    LET front == {k \in KeysIn(t, s) : k \in w.active /\ w.queue[k] # <<>> /\ Head(w.queue[k]) = t}
        queue == [k \in Key |-> IF k \in KeysIn(t, s)
                                THEN SelectSeq(w.queue[k], LAMBDA u : u # t)
                                ELSE w.queue[k]]
    IN  [queue |-> queue,
         active |-> w.active \ front,
         keys |-> {k \in w.keys \cup front : k \in KeysIn(t, s) => queue[k] # <<>>},
         txs |-> [w.txs EXCEPT ![s] = @ \ {t}]]

NotifiedFront(q, k, taken) ==
    IF \/ val[k] = 0 \/ q = <<>> \/ ~Ready(Head(q), k)
       \/ baton[Head(q)] = "closed" \/ Head(q) \in taken
    THEN None ELSE Head(q)

NotifiedUnready(q, k, taken) ==
    LET woken == {i \in DOMAIN q : baton[q[i]] = "open" /\ q[i] \notin taken}
    IN  IF val[k] = 0 \/ woken = {} THEN None ELSE q[Min(woken)]

\* The transaction NotifyWatchQueue wakes for key k: the first in the queue that
\* finds the key ready and whose NotifySuspended claims the baton.
Notified(q, k, taken) ==
    LET woken == {i \in DOMAIN q : Ready(q[i], k) /\ baton[q[i]] = "open" /\ q[i] \notin taken}
    IN  IF val[k] = 0 \/ woken = {} THEN None ELSE q[Min(woken)]

\* The queue NotifyWatchQueue leaves: it drops transactions that were claimed
\* before and moves the ones that are not ready behind the others.
NotifyWatchQueue(q, k, t) ==
    LET NotReady(u) == ~Ready(u, k)
        i == IF t = None THEN Len(q) + 1 ELSE Min({j \in DOMAIN q : q[j] = t})
    IN  IF val[k] = 0 THEN q
        ELSE SubSeq(q, i, Len(q)) \o SelectSeq(SubSeq(q, 1, i - 1), NotReady)

\* NotifyPending goes over the awakened keys in some order; t[k] is the
\* transaction that is woken for key k.  It acts on controllers w and masks msk.
NotifyPending(s, w, msk) ==
    LET K == {k \in w.keys : ShardOf[k] = s}
    IN  \E t \in [K -> Tx \cup {None}],
           pos \in {f \in [K -> 1 .. Cardinality(K)] : \A i, j \in K : f[i] = f[j] => i = j} :
          LET woken == {t[k] : k \in K} \ {None}
              KeyOf(u) == CHOOSE k \in K : t[k] = u
          IN  /\ \A k \in K :
                    t[k] = Notified(w.queue[k], k, {t[j] : j \in {j \in K : pos[j] < pos[k]}})
              /\ SetWatches(
                    [queue |-> [k \in Key |-> IF k \in K
                                              THEN NotifyWatchQueue(w.queue[k], k, t[k])
                                              ELSE w.queue[k]],
                     active |-> w.active \cup {k \in K : t[k] # None},
                     keys |-> w.keys \ K,
                     txs |-> [w.txs EXCEPT ![s] = @ \cup woken]])
              /\ baton' = [u \in Tx |-> IF u \in woken THEN "closed" ELSE baton[u]]
              /\ wake_key' = [u \in Tx |-> IF u \in woken THEN KeyOf(u) ELSE wake_key[u]]
              /\ mask' = [u \in Tx |-> IF u \in woken
                                       THEN [msk[u] EXCEPT ![s] = @ \cup {AWAKED_Q}]
                                       ELSE msk[u]]

\* The steps that do not notify leave the controllers as w, the masks as msk.
NotifyNone(w, msk) ==
    /\ SetWatches(w)
    /\ mask' = msk
    /\ UNCHANGED <<baton, wake_key>>

\* Heartbeat of the shard: once no callback and no global transaction is in the
\* way it expires keys and then dispatches what is awakened.  One that is suspended
\* in between, in SendMessages, only looks at continuation_trans_ again: it notifies
\* like FlushSlotsNotify.
Heartbeat(s) ==
    /\ ThreadFree(s)
    /\ running[s] = None
    /\ Check(shard_lock[s], EXCLUSIVE)
    /\ cont[s] = None
    /\ \E k \in awakened_keys : ShardOf[k] = s
    /\ NotifyPending(s, Watches, mask)
    /\ UNCHANGED <<load, pc, todo, stage, hop, coord, txid, barrier, failed, found, armed, op_seq,
                   lockVars, pollVars, tasks, val, histVars>>

\* FlushSlotsFb notifies between two bucket traversals, on a fiber of its own;
\* it only looks at continuation_trans_ (as does a heartbeat that was suspended).
FlushSlotsNotify(s) ==
    /\ FlushSlots
    /\ ThreadFree(s)
    /\ cont[s] = None
    /\ \E k \in awakened_keys : ShardOf[k] = s
    /\ NotifyPending(s, Watches, mask)
    /\ UNCHANGED <<load, pc, todo, stage, hop, coord, txid, barrier, failed, found, armed, op_seq,
                   lockVars, pollVars, tasks, val, histVars>>
=============================================================================
