SPECIFICATION Spec
CONSTANTS
    web = web
    cli = cli
    w1 = w1
    w1again = w1again
    wread = wread
    wclear = wclear
    c2 = c2
    cread = cread
    Processes <- BothProcesses
    Calls <- MixedCalls
    Kind <- KindOf
    ProcessOf <- Owner
    TokenOf <- Token
    VersionOf <- Version
    MaxProfiles = 2
    Mortal <- WebOnly
    MaxTime = 0
    MaxFaults = 0
INVARIANTS
    LiveSavesSucceed
CHECK_DEADLOCK FALSE
