SPECIFICATION Spec
CONSTANTS
    t1 = t1
    t2 = t2
    z1 = z1
    null = null
    NullZones <- MCNullZones
    Tags <- MCTwoTags
    Zones <- MCOneZone
    LocationTypes <- MCTwoTypes
    Movements <- MCMovements
    OfflineThreshold = 2
    MaxSilence = 3
    PacketAges = {0, 3}
SYMMETRY MCSymmetry
INVARIANTS
    TypeOK
    PresenceMirrorsState
    ZoneViewCurrent
    DegradedIsInactive
PROPERTIES
    NoDoubleInactive
    SweepReportsSilence
