SPECIFICATION FairSpec
CONSTANTS
    UNDEFINED_SIZE = 2147483647
    ImageReserved = 1
    FrameReserved = 1
    MaxFrames = 1
    Wires <- CutAnywhere
PROPERTIES AllDelivered
CHECK_DEADLOCK FALSE
