SPECIFICATION Spec
CONSTANTS
    web = web
    cli = cli
    w1 = w1
    w1again = w1again
    wread = wread
    wclear = wclear
    c2 = c2
    cread = cread
    Processes <- WebOnly
    Calls <- LoneCalls
    Kind <- KindOf
    ProcessOf <- Owner
    TokenOf <- Token
    VersionOf <- Version
    MaxProfiles = 2
    Mortal <- WebOnly
    MaxTime = 0
    MaxFaults = 2
INVARIANTS
    SidecarRecovered
CHECK_DEADLOCK FALSE
