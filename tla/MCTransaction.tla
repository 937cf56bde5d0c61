--------------------------- MODULE MCTransaction ---------------------------
(***************************************************************************)
(* Instances of the transaction framework: two shards, and a small set of  *)
(* commands for each question.                                             *)
(***************************************************************************)
EXTENDS TxProperties, TLC

CONSTANTS t1, t2, t3, t4, x, y, z

MCShard == {1, 2}
MCKey == {x, y, z}
MCShardOf == x :> 1 @@ y :> 2 @@ z :> 1

\* A command with one concluding hop on the given keys.
Plain(args, mode) ==
    [kind |-> "plain", args |-> args, mode |-> mode, global |-> FALSE, idempotent |-> FALSE,
     hops |-> <<{}>>, effect |-> "none", need |-> 1, home |-> None,
     preempts |-> FALSE, impatient |-> FALSE]

Write(args) == Plain(args, EXCLUSIVE)
Read(args) == Plain(args, SHARED)
Global == [Plain(<<>>, EXCLUSIVE) EXCEPT !.global = TRUE]

\* RENAME-like: two hops, the second concludes.
TwoHops(args) == [Write(args) EXCEPT !.hops = <<{}, {}>>]

\* EXEC or EVAL in LOCK_AHEAD mode, one hop per command.
Exec(args, hops) == [Write(args) EXCEPT !.kind = "multi", !.hops = hops]

Push(args) == [Write(args) EXCEPT !.effect = "push"]
Blpop(args) == [Write(args) EXCEPT !.kind = "blocking", !.effect = "pop"]
Impatient(cmd) == [cmd EXCEPT !.impatient = TRUE]
On(shard, cmd) == [cmd EXCEPT !.home = shard]
Preempting(cmd) == [cmd EXCEPT !.preempts = TRUE]

\* A transaction that is not sent.
Absent == [Plain(<<x>>, EXCLUSIVE) EXCEPT !.kind = "none"]

\* Two writes of both keys.
PairCmd == t1 :> Write(<<x, y>>) @@ t2 :> Write(<<x, y>>) @@ t3 :> Absent

\* A write of both keys, and one of each: the second may start when the first is done.
OrderCmd == t1 :> Write(<<x, y>>) @@ t2 :> Write(<<x>>) @@ t3 :> Write(<<y>>)

\* A global transaction beside a write of both shards ...
GlobalCmd == t1 :> Write(<<x, y>>) @@ t2 :> Global @@ t3 :> Absent

\* ... beside a command of all shards that has no keys (CO::NO_KEY_TRANSACTIONAL) ...
KeylessCmd == t1 :> Read(<<>>) @@ t2 :> Global @@ t3 :> Absent

\* ... and beside commands of a single key.
SinglesCmd == t1 :> Write(<<x>>) @@ t2 :> Global @@ t3 :> Read(<<y>>)

\* A transaction with two hops, and an EXEC that locks both keys but runs on each
\* shard in turn.
MultiCmd == t1 :> TwoHops(<<x, y>>) @@ t2 :> Exec(<<x, y>>, <<{2}, {1}>>) @@ t3 :> Absent

\* An EXEC that never runs on one of the shards it locks, and writes of a key each.
ExecCmd == t1 :> Exec(<<x, y>>, <<{2}, {2}>>) @@ t2 :> Write(<<x>>) @@ t3 :> Write(<<y>>)

\* Two transactions that meet on shard 2 only: on shard 1 the intents of both are
\* granted, also to the one that enters the queue before its tail, and both may run
\* out of order and stay in the queue.
OutOfOrderCmd == t1 :> Exec(<<x, y>>, <<{2}, {1}>>) @@ t2 :> TwoHops(<<z, y>>) @@ t3 :> Absent

\* On one shard, a transaction that runs out of order behind one it does not
\* conflict with, and before one it conflicts with.
OvertakeCmd == t1 :> TwoHops(<<x>>) @@ t2 :> TwoHops(<<z>>) @@ t3 :> Write(<<z>>)

\* A command that blocks on two shards, a push on one and an EXEC of two pushes
\* on the other.
BlockCmd == t1 :> Blpop(<<x, y>>) @@ t2 :> Push(<<x>>)
            @@ t3 :> [Exec(<<y>>, <<{2}, {2}>>) EXCEPT !.effect = "push"]

\* A command that blocks on two shards, and a push on each.
ServeCmd == t1 :> Blpop(<<x, y>>) @@ t2 :> Push(<<x>>) @@ t3 :> Push(<<y>>)

\* Two waiters for one key; the one that waits for another key too may give up.
WaitersCmd == t1 :> Impatient(Blpop(<<x, y>>)) @@ t2 :> Blpop(<<x>>) @@ t3 :> Push(<<x>>)

\* A command that blocks on a key, and a push, behind a transaction on another key
\* of the shard.
SuspendCmd == t1 :> TwoHops(<<x>>) @@ t2 :> Blpop(<<z>>) @@ t3 :> Push(<<z>>)

\* Two waiters of which one needs two elements of the key.
SkipCmd == t1 :> [Blpop(<<x>>) EXCEPT !.need = 2] @@ t2 :> Blpop(<<x>>) @@ t3 :> Push(<<x>>)

\* A waiter for two keys of which one shard also sees a push and an LPOP that
\* preempts.
Lpop(args) == [Write(args) EXCEPT !.effect = "pop"]
StealCmd == t1 :> Blpop(<<x, y>>) @@ t2 :> Push(<<x>>) @@ t3 :> Preempting(Lpop(<<x>>))

\* One push on two keys of a shard, a waiter for both and a waiter for one.
TwoKeysCmd == t1 :> Blpop(<<x, z>>) @@ t2 :> Blpop(<<z>>) @@ t3 :> Push(<<x, z>>)

\* Two waiters of which one may give up at any time, also when it was notified.
HandoverCmd == t1 :> Impatient(Blpop(<<x>>)) @@ t2 :> Blpop(<<x>>) @@ t3 :> Push(<<x>>)

\* Callbacks that preempt, on the thread of their shard and elsewhere.
InlineCmd == t1 :> On(1, Preempting(Write(<<x>>))) @@ t2 :> On(1, Preempting(Write(<<x>>)))
             @@ t3 :> Preempting(Write(<<x, y>>))

Async(cmd) == [cmd EXCEPT !.kind = "async"]

\* Commands dispatched with SingleHopAsync, one of them inline, beside one that
\* preempts.
AsyncCmd == t1 :> On(1, Async(Write(<<x>>))) @@ t2 :> Async(Write(<<x>>))
            @@ t3 :> Preempting(Write(<<x, y>>))

\* FlushSlots notifies while a push of a single hop is suspended.
FlushCmd == t1 :> Blpop(<<x>>) @@ t2 :> Preempting(Push(<<x>>)) @@ t3 :> TwoHops(<<x>>)

\* The workloads of the runs.
CommandsLoad == <<PairCmd, OrderCmd, GlobalCmd, KeylessCmd, SinglesCmd, MultiCmd, ExecCmd,
                  OutOfOrderCmd, OvertakeCmd, InlineCmd, AsyncCmd>>
RefineLoad == <<OutOfOrderCmd, SuspendCmd, InlineCmd>>
BlockingLoad == <<BlockCmd, WaitersCmd, SkipCmd, StealCmd, TwoKeysCmd, FlushCmd>>
LiveLoad == <<PairCmd, ServeCmd, HandoverCmd>>

(***************************************************************************)
(* Instances in which the code does not do what is written about it.       *)
(***************************************************************************)

Idempotent(cmd) == [cmd EXCEPT !.idempotent = TRUE]

\* MGET of two keys and MSET of the same keys.
FracturedLoad == <<t1 :> Idempotent(Read(<<x, y>>)) @@ t2 :> Write(<<x, y>>)>>

\* A command dispatched with SingleHopAsync runs inline and preempts.
AsyncInlineLoad == <<t1 :> On(1, Preempting(Async(Write(<<x>>)))) @@ t2 :> Write(<<x>>)>>

\* A blocking command runs its first hop inline and preempts.
BlpopInlineLoad == <<t1 :> On(1, Preempting(Blpop(<<x>>))) @@ t2 :> Push(<<x>>)>>

\* A command polled inline runs the queue, with the watch hop of t1 in it.
WatchInlineLoad == <<t1 :> Blpop(<<x, y>>) @@ t2 :> On(1, Preempting(Write(<<x>>))) @@ t3 :> Push(<<y>>)>>

\* FlushSlots notifies during the first hop of an EXEC.
FlushMultiLoad == <<t1 :> Blpop(<<x>>)
                 @@ t2 :> Preempting([Exec(<<x>>, <<{1}, {1}>>) EXCEPT !.effect = "push"])>>

\* On a single shard, FlushSlots notifies the second waiter while a DEL of the key,
\* which has one element, is suspended before it deletes.
OneShard == {1}
OneKey == {x}
OneShardOf == x :> 1
Del(args) == Async(Lpop(args))
FlushDelLoad == <<t1 :> On(1, Impatient(Blpop(<<x>>))) @@ t2 :> On(1, Blpop(<<x>>))
                  @@ t3 :> On(1, Push(<<x>>)) @@ t4 :> Preempting(Del(<<x>>))>>
=============================================================================
