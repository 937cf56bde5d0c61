---------------------------- MODULE SortedQueue ----------------------------
(***************************************************************************)
(* What the transaction queue of a shard promises: its transactions, here  *)
(* their txids, in ascending order, whatever the order they came in.       *)
(***************************************************************************)
EXTENDS Integers, SequencesExt

CONSTANT Ranks  \* the txids

VARIABLE queue

Init == queue = <<>>

Sorted(S) == SetToSortSeq(S, <)

Enqueue(r) ==
    /\ r \notin Range(queue)
    /\ queue' = Sorted(Range(queue) \cup {r})

Dequeue(r) ==
    /\ r \in Range(queue)
    /\ queue' = Sorted(Range(queue) \ {r})

Next == \E r \in Ranks : Enqueue(r) \/ Dequeue(r)

Spec == Init /\ [][Next]_queue
=============================================================================
