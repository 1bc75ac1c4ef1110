SPECIFICATION FairSpec
CONSTANTS
    quuppa = quuppa
    vision = vision
    Providers <- MCProviders
    MaxDirectives = 3
CHECK_DEADLOCK FALSE
INVARIANTS
    TypeOK
    RepliesTell
    AtMostOneUntold
PROPERTIES
    EveryDirectiveAnswered
