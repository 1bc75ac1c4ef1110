SPECIFICATION AdapterSpec
CONSTANTS
    t1 = t1
    t2 = t2
    z1 = z1
    NullZones = NullZones
    Tags <- MCTwoTags
    Zones <- MCOneZone
    LocationTypes <- MCOneType
    Movements <- MCOneMovement
    OfflineThreshold = 3
    MaxSilence = 6
    PacketAges = {0}
    EmitChanSize = 1
    WatchdogTick = 2
    Noise = FALSE
    Cancels = FALSE
    EmitFails = FALSE
    Prompt = TRUE
CHECK_DEADLOCK FALSE
INVARIANTS
    DetectionLatency
