SPECIFICATION FairSpec
CONSTANTS
    Handlers <- AllHandlers
    N = 2
    Taggable = {1}
    FailingCollectors = {1, 2}
    SaveMayFail = TRUE
    ReplyMayFail = TRUE
    Hookable = {TRUE, FALSE}
    CollectBody = TRUE
    MaxEmissions = 2
    MaxEntries = 2
    MaxChunks = 2
    MaxBuffered = 1
INVARIANTS
    TypeOK
    PipelineRunsOnce
    DueEntriesReachPanels
    OneEntryPerFailure
    ToolbarShowsFinishedPanels
    StreamMeasuredToItsEnd
    FailureStatusIsServed
    StoredIsFinal
PROPERTIES
    ClosedOnce
    EventuallyStored
    ImplementsRecord
CHECK_DEADLOCK FALSE
