SPECIFICATION Spec
CONSTANT
    BodyPieces <- MCBodyPieces
INVARIANT
    OkIsAccepted
CHECK_DEADLOCK FALSE
