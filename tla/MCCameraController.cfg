SPECIFICATION FairControllerSpec
CONSTANTS
    MaxPosts <- MCMaxPosts
    MaxStarts <- MCMaxStarts
INVARIANTS
    BegunIsWaitedFor
    StreamGoneWithController
    OneStream
    StreamHasLastUrl
PROPERTIES
    ImplementsTask
    StopCancelsNothing
    DestructorReturns
CHECK_DEADLOCK FALSE
