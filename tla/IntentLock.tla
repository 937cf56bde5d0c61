---------------------------- MODULE IntentLock ----------------------------
(***************************************************************************)
(* Intent locks (src/core/intent_lock.h) and the table that maps key       *)
(* fingerprints to them (LockTable in src/server/table.{h,cc}, used through*)
(* DbSlice::Acquire, Release and IsLockFree).  A lock is a pair of counters*)
(* of recorded intents; an entry of the table that is absent in the code   *)
(* is one whose counters are both zero.                                    *)
(***************************************************************************)
EXTENDS Integers

SHARED == "SHARED"
EXCLUSIVE == "EXCLUSIVE"
Mode == {SHARED, EXCLUSIVE}

Lock == [Mode -> Nat]

FreeLock == [m \in Mode |-> 0]

Opposite(m) == IF m = SHARED THEN EXCLUSIVE ELSE SHARED

\* IntentLock::Acquire records the intent in any case ...
Acquire(l, m) == [l EXCEPT ![m] = @ + 1]

AcquiredDespiteOthers(l, m) == Acquire(l, m)[Opposite(m)] = 0

\* ... and its result says whether the lock was granted.
Acquired(l, m) ==
    LET after == Acquire(l, m)
    IN  /\ after[Opposite(m)] = 0
        /\ m = SHARED \/ after[EXCLUSIVE] = 1

\* IntentLock::Check: could `m' be granted?  Records nothing.
Check(l, m) ==
    /\ l[EXCLUSIVE] = 0
    /\ m = SHARED \/ l[SHARED] = 0

ReleaseOpposite(l, m) == [l EXCEPT ![Opposite(m)] = @ - 1]

ReleaseEveryone(l, m) == [l EXCEPT ![m] = 0]

\* IntentLock::Release
Release(l, m) == [l EXCEPT ![m] = @ - 1]

(***************************************************************************)
(* The lock table of a shard; fps is the set of fingerprints of a          *)
(* transaction (uniq_fps_ removes the duplicates).                         *)
(***************************************************************************)

\* DbSlice::Acquire: record the intent on every fingerprint.
AcquireAll(tbl, fps, m) ==
    [fp \in DOMAIN tbl |-> IF fp \in fps THEN Acquire(tbl[fp], m) ELSE tbl[fp]]

\* The result of DbSlice::Acquire.
AllAcquired(tbl, fps, m) == \A fp \in fps : Acquired(tbl[fp], m)

\* DbSlice::Release
ReleaseAll(tbl, fps, m) ==
    [fp \in DOMAIN tbl |-> IF fp \in fps THEN Release(tbl[fp], m) ELSE tbl[fp]]

\* DbSlice::IsLockFree
IsLockFree(tbl, fps, m) == \A fp \in fps : Check(tbl[fp], m)
=============================================================================
