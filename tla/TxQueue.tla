------------------------------ MODULE TxQueue ------------------------------
(***************************************************************************)
(* The transaction queue of a shard (src/core/tx_queue.{h,cc}): a circular *)
(* doubly linked list of records kept in one vector, ordered by rank (the  *)
(* txid), together with a free list threaded through the unused records.   *)
(***************************************************************************)
EXTENDS Integers, Sequences, FiniteSets

CONSTANTS
    Ranks,     \* txids a caller may insert; each is in the queue at most once
    InitSize,  \* size of vec_ at construction (32 in the code)
    MaxSize,   \* bound on the growth of vec_
    NextBits   \* width of QRecord::next (24 in the code)

ASSUME SizeAssumption ==
    /\ Ranks \subseteq Nat
    /\ InitSize \in Nat \ {0}
    /\ NextBits \in Nat
    /\ MaxSize \in InitSize .. 2 ^ NextBits - 1

VARIABLES vec, next_free, head, size

vars == <<vec, next_free, head, size>>

kEnd == -1
FREE_TAG == "free"
TRANS_TAG == "trans"

\* An index as the bit field `next' stores it.
Narrow(i) == i % 2 ^ NextBits

\* QRecord::QRecord, linked to the next free record.
FreeRecord(next) == [tag |-> FREE_TAG, rank |-> 0, next |-> Narrow(next), prev |-> kEnd]

\* vec_ is 0-based.
Slots == 0 .. Len(vec) - 1
At(v, i) == v[i + 1]

Init ==
    /\ vec = [i \in 1 .. InitSize |-> FreeRecord(i)]
    /\ next_free = 0
    /\ head = kEnd
    /\ size = 0

GrowOffByOne(v) == v \o [i \in 1 .. Len(v) |-> FreeRecord(Len(v) + i - 1)]

\* Grow: double the vector, the new records form the free list.
Grow(v) == v \o [i \in 1 .. Len(v) |-> FreeRecord(Len(v) + i)]

LinkOneWay(v, p, n) ==
    [v EXCEPT ![n + 1].next = At(v, p).next, ![n + 1].prev = p, ![p + 1].next = Narrow(n)]

\* Link(p, n): insert record n right after record p.
Link(v, p, n) ==
    LET next == At(v, p).next
        v1 == [v EXCEPT ![n + 1].next = next, ![n + 1].prev = p]
        v2 == [v1 EXCEPT ![p + 1].next = Narrow(n)]
    IN  [v2 EXCEPT ![next + 1].prev = n]

\* The records on the way back from the tail, at most size_ of them.
FromTail(v) ==
    LET back[i \in 1 .. size] ==
            IF i = 1 THEN At(v, head).prev ELSE At(v, back[i - 1]).prev
    IN  back

LinkFreeLast(v, weight) ==
    LET taken == next_free
    IN  /\ next_free' = At(v, taken).next
        /\ size' = size + 1
        /\ head' = IF size = 0 THEN taken ELSE head
        /\ vec' = IF size = 0
                  THEN [v EXCEPT ![taken + 1].next = Narrow(taken), ![taken + 1].prev = taken]
                  ELSE Link(v, At(v, head).prev, taken)

\* LinkFree(weight): take the first free record, and link it behind the last
\* record whose rank is smaller, or as the new head.
LinkFree(v, weight) ==
    LET taken == next_free
        back == FromTail(v)
        smaller == {i \in 1 .. size : At(v, back[i]).rank < weight}
        cur == CHOOSE i \in smaller : \A j \in smaller : i <= j
    IN  /\ next_free' = At(v, taken).next
        /\ size' = size + 1
        /\ IF size = 0
           THEN /\ head' = taken
                /\ vec' = [v EXCEPT ![taken + 1].next = Narrow(taken), ![taken + 1].prev = taken]
           ELSE IF smaller # {}
           THEN /\ vec' = Link(v, back[cur], taken)
                /\ UNCHANGED head
           ELSE /\ vec' = Link(v, At(v, head).prev, taken)
                /\ head' = taken

InQueue == {At(vec, i).rank : i \in {j \in Slots : At(vec, j).tag # FREE_TAG}}

Insert(r) ==
    /\ r \notin InQueue
    /\ LET v == IF next_free >= Len(vec) THEN Grow(vec) ELSE vec
       IN  /\ Len(v) <= MaxSize
           /\ LinkFree([v EXCEPT ![next_free + 1].tag = TRANS_TAG,
                                 ![next_free + 1].rank = r], r)

\* Remove(it): unlink the record and push it on the free list.  What is left of
\* the rank and of prev in a free record is never read.
Remove(it) ==
    /\ it \in Slots
    /\ At(vec, it).tag # FREE_TAG
    /\ LET prev == At(vec, it).prev
           next == IF size > 1 THEN At(vec, it).next ELSE kEnd
           v1 == IF size > 1 THEN [vec EXCEPT ![prev + 1].next = next] ELSE vec
           v2 == IF size > 1 THEN [v1 EXCEPT ![next + 1].prev = prev] ELSE v1
       IN  /\ vec' = [v2 EXCEPT ![it + 1] = FreeRecord(next_free)]
           /\ next_free' = it
           /\ head' = IF head = it THEN next ELSE head
           /\ size' = size - 1

Next == (\E r \in Ranks : Insert(r)) \/ (\E it \in Slots : Remove(it))

Spec == Init /\ [][Next]_vars

(***************************************************************************)
(* Properties.                                                             *)
(***************************************************************************)

\* The slots met on the way from `start' along next.
Walk(start, n) ==
    LET pos[i \in 1 .. n] == IF i = 1 THEN start ELSE At(vec, pos[i - 1]).next
    IN  pos

\* What Front, Head and Next let a reader of the queue see.
Contents == [i \in 1 .. size |-> At(vec, Walk(head, size)[i]).rank]

Abstract == INSTANCE SortedQueue WITH queue <- Contents

\* Read from its head, the list is always the sorted queue: Insert and Remove, in
\* any order and over growth, lose, repeat or misplace nothing.
ImplementsSortedQueue == Abstract!Spec

\* The list reads the same backwards, so that TailScore and the search of
\* LinkFree see the true tail.
BackwardsIsReverse ==
    size > 0 => \A i \in 1 .. size :
        LET pos == Walk(head, size)
        IN  At(vec, pos[i]).prev = pos[IF i = 1 THEN size ELSE i - 1]

\* The free list holds every unused record once and ends past the vector, where
\* Insert grows it (DCHECK_EQ(FREE_TAG, vec_[next_free_].tag) in Insert).
FreeListIsIntact ==
    LET n == Len(vec) - size
        pos == Walk(next_free, n + 1)
    IN  /\ {pos[i] : i \in 1 .. n} = {i \in Slots : At(vec, i).tag = FREE_TAG}
        /\ pos[n + 1] = Len(vec)
=============================================================================
