SPECIFICATION Spec
CONSTANTS
    a1 = a1
    a2 = a2
    Actors <- MCOneActor
    Requests <- MCTwoTypes
    MaxRecords = 3
    MaxSessions = 2
    ChanSize = 4
    FirstSequence = 98
CHECK_DEADLOCK FALSE
INVARIANTS
    ResumeMissesNothing
