SPECIFICATION Spec
CONSTANTS
    Ranks = {1, 2, 3, 4, 5}
    InitSize = 1
    MaxSize = 8
    NextBits = 4
INVARIANTS
    BackwardsIsReverse
    FreeListIsIntact
PROPERTY ImplementsSortedQueue
