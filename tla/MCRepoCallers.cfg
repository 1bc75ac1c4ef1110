SPECIFICATION Spec
CONSTANTS
    a1 = a1
    a2 = a2
    c1 = c1
    Actors <- MCTwoActors
    Callers <- MCTwoActors
    Owns <- MCOwnsOne
    Snapshots <- MCSnapshots
    MaxWrites = 3
    MaxRestarts = 1
    MaxKvFaults = 0
    MaxPublishFaults = 0
    CrashMidWrite = FALSE
SYMMETRY MCExchange
CHECK_DEADLOCK FALSE
INVARIANTS
    TypeOK
    CacheCurrent
PROPERTIES
    IndependentKinds
    ImplementsChangeFeed
