SPECIFICATION FairSpec
CONSTANTS
    quuppa = quuppa
    vision = vision
    s1 = s1
    s2 = s2
    Providers <- MCTwoProviders
    Clients <- MCTwoClients
CHECK_DEADLOCK FALSE
INVARIANTS
    TypeOK
    StreamsHaveNats
    NothingLeftBehind
    ExitCodeTells
PROPERTIES
    OnlyStreamsHoldExit
    FailFast
