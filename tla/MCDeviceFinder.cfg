SPECIFICATION FairSpec
CONSTANT
    BodyPieces <- MCBodyPieces
INVARIANTS
    TypeOK
    ClosedIsLast
    WaitingIsSafeToDestroy
PROPERTIES
    ImplementsDiscovery
    AnswerSettles
    ExitReturns
CHECK_DEADLOCK FALSE
