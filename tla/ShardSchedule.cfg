SPECIFICATION Spec
CONSTANTS
    t1 = t1
    t2 = t2
    t3 = t3
    Tx = {t1, t2, t3}
    Shard = {1, 2}
    MaxTxid = 4
    Conflict <- MCConflict
CONSTRAINT Bound
INVARIANTS
    OutOfOrderHasPrecedence
    UniqueTxids
PROPERTIES
    CommittedIncreases
