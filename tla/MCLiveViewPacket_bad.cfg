SPECIFICATION Spec
CONSTANTS
    UNDEFINED_SIZE = 2147483647
    ImageReserved = 1
    FrameReserved = 1
    MaxFrames = 2
    Wires <- BadWires
INVARIANTS TypeOK LeafBounds PassedElementsFull ImageSizedFirst FullFieldComplete PartialMeansRunOut SizeIsConsumption
PROPERTIES NoByteAfterRefusal
CHECK_DEADLOCK FALSE
