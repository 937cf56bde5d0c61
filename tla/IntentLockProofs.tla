-------------------------- MODULE IntentLockProofs --------------------------
(***************************************************************************)
(* What the counters of intent locks say about the transactions that hold  *)
(* intents, for any number of them.                                        *)
(***************************************************************************)
EXTENDS IntentLock, FiniteSetTheorems, TLAPS

\* The counters of a lock that these transactions hold intents on.
Counts(l, shared, exclusive) ==
    /\ l[SHARED] = Cardinality(shared)
    /\ l[EXCLUSIVE] = Cardinality(exclusive)

\* The modes are two.
LEMMA Modes == SHARED # EXCLUSIVE /\ SHARED \in Mode /\ EXCLUSIVE \in Mode
BY DEF SHARED, EXCLUSIVE, Mode

\* Acquire keeps a lock a pair of natural numbers.
LEMMA AcquireType == ASSUME NEW l \in Lock, NEW m \in Mode PROVE Acquire(l, m) \in Lock
BY DEF Acquire, Lock

\* The result of IntentLock::Acquire is what Check says before it: that is why
\* ScheduleInShard may test IsLockFree and skip the recording altogether.
THEOREM AcquiredIffCheck ==
    ASSUME NEW l \in Lock, NEW m \in Mode PROVE Acquired(l, m) <=> Check(l, m)
<1>1. l[SHARED] \in Nat /\ l[EXCLUSIVE] \in Nat
  BY Modes DEF Lock
<1>2. CASE m = SHARED
  <2>1. Acquire(l, m)[EXCLUSIVE] = l[EXCLUSIVE]
    BY <1>2, Modes DEF Acquire, Lock
  <2> QED BY <1>2, <2>1, Modes DEF Acquired, Check, Opposite
<1>3. CASE m = EXCLUSIVE
  <2>1. Acquire(l, m)[SHARED] = l[SHARED] /\ Acquire(l, m)[EXCLUSIVE] = l[EXCLUSIVE] + 1
    BY <1>3, Modes DEF Acquire, Lock
  <2> QED BY <1>1, <1>3, <2>1, Modes DEF Acquired, Check, Opposite
<1> QED BY <1>2, <1>3 DEF Mode

\* Release undoes Acquire.
LEMMA ReleaseAcquire ==
    ASSUME NEW l \in Lock, NEW m \in Mode PROVE Release(Acquire(l, m), m) = l
<1>1. Acquire(l, m) \in Lock /\ Release(Acquire(l, m), m) \in [Mode -> Int]
  BY AcquireType DEF Release, Acquire, Lock
<1>2. \A n \in Mode : Release(Acquire(l, m), m)[n] = l[n]
  BY DEF Release, Acquire, Lock
<1> QED BY <1>1, <1>2 DEF Lock

\* Releasing all fingerprints of a transaction undoes acquiring them: what a
\* transaction does to the lock table between the two is its own
\* (ScheduleInShard and CancelShardCb, DbSlice::Acquire and DbSlice::Release).
THEOREM ReleaseAllAcquireAll ==
    ASSUME NEW D, NEW tbl \in [D -> Lock], NEW fps \in SUBSET D, NEW m \in Mode
    PROVE  ReleaseAll(AcquireAll(tbl, fps, m), fps, m) = tbl
<1> DEFINE acq == AcquireAll(tbl, fps, m)
           rel == ReleaseAll(acq, fps, m)
<1>1. DOMAIN acq = D /\ DOMAIN rel = D
  BY DEF AcquireAll, ReleaseAll
<1>2. ASSUME NEW fp \in D PROVE rel[fp] = tbl[fp]
  <2>1. CASE fp \in fps
    <3>1. rel[fp] = Release(Acquire(tbl[fp], m), m)
      BY <2>1 DEF AcquireAll, ReleaseAll
    <3> QED BY <3>1, ReleaseAcquire
  <2>2. CASE fp \notin fps
    BY <2>2 DEF AcquireAll, ReleaseAll
  <2> QED BY <2>1, <2>2
<1>3. rel = [fp \in D |-> rel[fp]]
  BY <1>1 DEF ReleaseAll
<1> QED BY <1>1, <1>2, <1>3

\* A lock that counts the intents of its holders is granted exactly when no
\* holder conflicts: the counters decide what ShardSchedule!Granted says.
THEOREM GrantedIffNoConflict ==
    ASSUME NEW l \in Lock, NEW m \in Mode, NEW shared, NEW exclusive,
           IsFiniteSet(shared), IsFiniteSet(exclusive), Counts(l, shared, exclusive)
    PROVE  Acquired(l, m) <=> exclusive = {} /\ (m = SHARED \/ shared = {})
<1>1. (l[SHARED] = 0 <=> shared = {}) /\ (l[EXCLUSIVE] = 0 <=> exclusive = {})
  BY FS_EmptySet DEF Counts
<1> QED BY <1>1, AcquiredIffCheck DEF Check

\* Recording the intent of one more holder keeps the count.
THEOREM AcquireCounts ==
    ASSUME NEW l \in Lock, NEW t, NEW shared, NEW exclusive,
           IsFiniteSet(shared), IsFiniteSet(exclusive), Counts(l, shared, exclusive),
           t \notin shared, t \notin exclusive
    PROVE  /\ Counts(Acquire(l, SHARED), shared \cup {t}, exclusive)
           /\ Counts(Acquire(l, EXCLUSIVE), shared, exclusive \cup {t})
<1>1. /\ Cardinality(shared \cup {t}) = Cardinality(shared) + 1
      /\ Cardinality(exclusive \cup {t}) = Cardinality(exclusive) + 1
  BY FS_AddElement
<1> QED BY <1>1, Modes DEF Counts, Acquire, Lock

\* Releasing the intent of a holder keeps the count, and no counter gets below 0
\* (assert(cnt_[m] >= val) in IntentLock::Release).
THEOREM ReleaseCounts ==
    ASSUME NEW l \in Lock, NEW m \in Mode, NEW t, NEW shared, NEW exclusive,
           IsFiniteSet(shared), IsFiniteSet(exclusive), Counts(l, shared, exclusive),
           t \in (IF m = SHARED THEN shared ELSE exclusive)
    PROVE  /\ Release(l, m) \in Lock
           /\ Counts(Release(l, m), IF m = SHARED THEN shared \ {t} ELSE shared,
                                    IF m = SHARED THEN exclusive ELSE exclusive \ {t})
<1>0. l[SHARED] \in Nat /\ l[EXCLUSIVE] \in Nat
  BY Modes DEF Lock
<1>1. CASE m = SHARED
  <2>1. Cardinality(shared \ {t}) = Cardinality(shared) - 1 /\ l[SHARED] # 0
    BY <1>1, FS_RemoveElement, FS_EmptySet DEF Counts
  <2> QED BY <1>0, <1>1, <2>1, Modes DEF Counts, Release, Lock
<1>2. CASE m = EXCLUSIVE
  <2>1. Cardinality(exclusive \ {t}) = Cardinality(exclusive) - 1 /\ l[EXCLUSIVE] # 0
    BY <1>2, Modes, FS_RemoveElement, FS_EmptySet DEF Counts
  <2> QED BY <1>0, <1>2, <2>1, Modes DEF Counts, Release, Lock
<1> QED BY <1>1, <1>2 DEF Mode
=============================================================================
