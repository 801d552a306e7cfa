SPECIFICATION Spec
CONSTANTS
    Handlers <- AllHandlers
    N = 2
    Taggable = {1}
    FailingCollectors = {1}
    SaveMayFail = FALSE
    ReplyMayFail = FALSE
    Hookable = {TRUE}
    CollectBody = TRUE
    MaxEmissions = 1
    MaxEntries = 0
    MaxChunks = 2
    MaxBuffered = 1
INVARIANT FailedCollectorCostsItsPanelOnly
CHECK_DEADLOCK FALSE
