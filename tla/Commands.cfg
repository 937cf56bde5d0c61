SPECIFICATION Spec
CONSTANTS
    t1 = t1
    t2 = t2
    t3 = t3
    t4 = t4
    x = x
    y = y
    z = z
    None = None
    Tx = {t1, t2, t3}
    Shard <- MCShard
    Key <- MCKey
    ShardOf <- MCShardOf
    Workload <- CommandsLoad
    FlushSlots = FALSE
    TrackOrder = TRUE
    MaxTxid = 4
INVARIANTS
    StrictlySerializable
    OutOfOrderHasPrecedence
    IntentsMatchHolders
    ArmedIsPolled
    PollIsNotLost
