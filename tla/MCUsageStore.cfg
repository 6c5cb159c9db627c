\* Safety of two live invocations with crashes and I/O failures everywhere.
SPECIFICATION Spec
CONSTANTS
    Id <- MCId
    EventBytes <- MCEventBytes
    EventLimit = 2
    FileLimit = 6
    ByteLimit = 8
    Lifetime = 2
    MaxTime = 2
    Absent = Absent
    NoTime = NoTime
    Foreign = Foreign
    Live <- MCLive
    History <- MCHistory
    Readings <- MCReadings
INVARIANTS
    LockDiscipline
    FinalsAreWhole
    ReceiptIsEvidence
    WithinQuota
    NoFalseAlarm
    StagingIsAccountedFor
    EffectsAreReported
    OccupancyIsReal
PROPERTIES
    FinalsNeverChange
    UnfinishedGoLast
CHECK_DEADLOCK FALSE
