SPECIFICATION FairSpec
CONSTANTS
    Retrys = {0, 2}
    MaxDrops = 2
    MaxReboots = 1
INVARIANTS
    TypeOK
    HandlerOutlived
    FailMeansAllTried
    WaitHasOneCause
    BootOutcome
PROPERTIES
    BootEnds
CHECK_DEADLOCK FALSE
