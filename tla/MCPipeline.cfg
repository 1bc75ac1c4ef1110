SPECIFICATION PipeSpec
CONSTANTS
    t1 = t1
    z1 = z1
    null = null
    Tags <- MCTags
    Zones <- MCZones
    NullZones <- MCNullZones
    LocationTypes <- MCLocationTypes
    Movements <- MCMovements
    PacketAges <- MCPacketAges
    OfflineThreshold = 1
    MaxSilence = 1
    QueueBound = 1
    MaxAge = 1
    Restarts = TRUE
    Expires = TRUE
    Faults = TRUE
INVARIANTS
    PipeTypeOK
    LatestIsAnnounced
    BucketOutlivesRecords
    SnapshotTellsState
PROPERTIES
    OnlyChangesArePublished
