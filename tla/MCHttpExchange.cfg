SPECIFICATION FairSpec
CONSTANTS
    BodyPieces <- MCBodyPieces
    DumpLimit <- MCDumpLimit
INVARIANT
    AnswerIsTrue
PROPERTY
    CallsReturn
CHECK_DEADLOCK FALSE
