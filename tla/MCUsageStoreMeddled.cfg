\* Two interferences at any points of the transactions of one invocation.
SPECIFICATION MeddledSpec
CONSTANTS
    Id <- MCId
    EventBytes <- MCEventBytes
    EventLimit = 2
    FileLimit = 5
    ByteLimit = 7
    Lifetime = 2
    MaxTime = 2
    Absent = Absent
    NoTime = NoTime
    Foreign = Foreign
    Live <- MCLive
    History <- MCHistory
    Readings <- MCReadings
    Meddled <- MCMeddled
    MaxMeddles = 2
PROPERTIES
    NeverOverwrites
    RemovesOnlyWhatItChecked
    CleanMeansIntact
    OccupancyIsExplained
CHECK_DEADLOCK FALSE
