\* Room for the lock and two files: an invocation must evict another one's start.
\* Either may crash holding the lock; the started ones are scheduled fairly.
SPECIFICATION FairSpec
CONSTANTS
    Id <- MCId
    EventBytes <- MCEventBytes
    EventLimit = 2
    FileLimit = 3
    ByteLimit = 4
    Lifetime = 2
    MaxTime = 2
    Absent = Absent
    NoTime = NoTime
    Foreign = Foreign
    Live <- MCLive
    History <- MCTightHistory
    Readings <- MCReadings
PROPERTIES
    FinishJoinsItsStart
    ImplementsLog
    EveryInvocationEnds
CHECK_DEADLOCK FALSE
