SPECIFICATION Spec
CONSTANTS
    Handlers <- AllHandlers
    N = 2
    Taggable = {1}
    FailingCollectors = {}
    SaveMayFail = FALSE
    ReplyMayFail = TRUE
    Hookable = {TRUE}
    CollectBody = TRUE
    MaxEmissions = 1
    MaxEntries = 0
    MaxChunks = 2
    MaxBuffered = 1
INVARIANT RecordedStatusIsServed
CHECK_DEADLOCK FALSE
