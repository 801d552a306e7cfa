SPECIFICATION HcSpec
CONSTANTS
    call1 = call1
    call2 = call2
    HcCalls = {call1, call2}
    HcScenarios <- RequestObjects
    HcHeaders = {"auth"}
    HcTraceId = "x-request-id"
    HcSockets = {"socket1", "socket2"}
    HcMaxPending = 1
    HcNone = HcNone
INVARIANT CallerHeadersSent
CHECK_DEADLOCK FALSE
