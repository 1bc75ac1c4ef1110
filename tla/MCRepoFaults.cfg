SPECIFICATION Spec
CONSTANTS
    a1 = a1
    a2 = a2
    c1 = c1
    Actors <- MCOneActor
    Callers <- MCOneCaller
    Owns <- MCOwnsAll
    Snapshots <- MCSnapshots
    MaxWrites = 4
    MaxRestarts = 2
    MaxKvFaults = 1
    MaxPublishFaults = 1
    CrashMidWrite = TRUE
CHECK_DEADLOCK FALSE
INVARIANTS
    RememberedWasPublished
    RawComesFirst
