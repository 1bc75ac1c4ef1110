SPECIFICATION FairSpec
CONSTANTS
    a1 = a1
    a2 = a2
    Actors <- MCTwoActors
    Requests <- MCRequests
    MaxRecords = 3
    MaxSessions = 2
    ChanSize = 1
    FirstSequence = 98
CHECK_DEADLOCK FALSE
INVARIANTS
    TypeOK
    SubjectInOrder
    NothingMissed
    PictureCurrent
PROPERTIES
    EventuallyCaughtUp
