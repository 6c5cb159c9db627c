\* Two invocations, a cache two directories down; its lock and the directories
\* of the cache may be taken away.
SPECIFICATION FairSpec
CONSTANTS
    Proc = {p1, p2}
    CacheDepth = 2
    Exposed = {1, 2, 4}
    MaxInode = 13
    MaxTrouble = 2
INVARIANTS
    OneHolderPerPartition
PROPERTIES
    NoSecondLock
    SomeoneGetsIn
CHECK_DEADLOCK FALSE
