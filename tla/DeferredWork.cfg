SPECIFICATION FairSpec
CONSTANTS
    Work = {w1, w2, hung}
    Hanging = {hung}
    Flushers = {test}
    Shutdown = shutdown
INVARIANTS
    TypeOK
    ClosedAfterDrain
PROPERTIES
    FlushLeavesNothing
    ShutdownEnds
    FlushEnds
CHECK_DEADLOCK FALSE
