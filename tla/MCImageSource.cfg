SPECIFICATION FairSpec
CONSTANTS
    Bodies <- MCBodies
    Threshold = 2
    MaxStarts = 2
INVARIANTS TypeOK QueueIsStream HeldBounded DownstreamReady NoThreadOutlives
INVARIANTS OneReadAfterStop TerminatesOnlyEnded
PROPERTIES DestructorReturns EndOfStreamEnds
CHECK_DEADLOCK FALSE
