-------------------------- MODULE MCShardSchedule --------------------------
(***************************************************************************)
(* Three transactions on two shards: t1 and t2 conflict on both shards, t3 *)
(* with each of them on one.                                               *)
(***************************************************************************)
EXTENDS ShardSchedule

CONSTANTS t1, t2, t3, MaxTxid

MCConflict(t, u, s) ==
    /\ t # u
    /\ \/ {t, u} = {t1, t2}
       \/ {t, u} = {t1, t3} /\ s = 1
       \/ {t, u} = {t2, t3} /\ s = 2

Bound == op_seq <= MaxTxid + 1
=============================================================================
