SPECIFICATION FairAdapterSpec
CONSTANTS
    t1 = t1
    t2 = t2
    z1 = z1
    NullZones = NullZones
    Tags <- MCOneTag
    Zones <- MCNoZone
    LocationTypes <- MCTwoTypes
    Movements <- MCOneMovement
    OfflineThreshold = 1
    MaxSilence = 1
    PacketAges = {0}
    EmitChanSize = 2
    WatchdogTick = 1
    Noise = TRUE
    Cancels = TRUE
    EmitFails = TRUE
    Prompt = FALSE
CHECK_DEADLOCK FALSE
INVARIANTS
    AdapterTypeOK
    QueueCarriesView
    NoEmitAfterReturn
PROPERTIES
    CancelReturns
    EmitErrorReturns
