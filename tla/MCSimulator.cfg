SPECIFICATION SimSpec
CONSTANTS
    t1 = t1
    t2 = t2
    z1 = z1
    z2 = z2
    null = null
    TagOrder <- MCTagOrder
    ZoneOrder <- MCZoneOrder
    Tags <- MCTags
    Zones <- MCZones
    NullZones <- MCNullZones
    LocationTypes <- MCLocationTypes
    Movements <- MCMovements
    PacketAges <- MCPacketAges
    Scenarios <- MCScenarios
    Buffer = 2
    MaxStarts = 2
    OfflineThreshold = 1
    MaxSilence = 1
    QueueBound = 1
    MaxAge = 1
    Restarts = FALSE
    Expires = FALSE
    Faults = FALSE
INVARIANTS
    SimTypeOK
    FailureHasReason
    PassMeansTested
CHECK_DEADLOCK FALSE
CONSTRAINTS
    Undecided
    FewWaiting
ACTION_CONSTRAINT PutFirst
