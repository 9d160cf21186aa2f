SPECIFICATION Spec
CONSTANT
    BodyPieces <- MCBodyPieces
INVARIANT
    ContentIsAllRead
CHECK_DEADLOCK FALSE
