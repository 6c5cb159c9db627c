\* Limits small enough that two pairs fill the partition and three overfill it.
SPECIFICATION Spec
CONSTANTS
    Id <- MCId
    EventBytes <- MCEventBytes
    EventLimit = 2
    FileLimit = 6
    ByteLimit = 7
    Lifetime = 2
    MaxTime = 3
    Absent = Absent
    NoTime = NoTime
    Foreign = Foreign
    Partitions <- MCPartitions
    Clocks <- MCClocks
    Requests <- MCRequests
INVARIANTS
    LoopComputesThePlan
CHECK_DEADLOCK FALSE
