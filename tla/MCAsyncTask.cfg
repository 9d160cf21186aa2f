SPECIFICATION FairSpec
CONSTANTS
    MaxPosts <- MCMaxPosts
    MaxStarts <- MCMaxStarts
INVARIANTS
    TypeOK
    Serial
    OnlyDetachedOutlive
    FirstLifeServes
PROPERTIES
    StopLeavesNothing
    PostedIsServed
CHECK_DEADLOCK FALSE
