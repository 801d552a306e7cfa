SPECIFICATION Spec
CONSTANTS
    web = web
    cli = cli
    none = none
    Processes <- OneProcess
    Calls <- BurstCalls
    ProcessOf <- BurstProcess
    TokenOf <- BurstTokens
    NoToken <- none
    MaxProfiles = 2
    SweepInterval = 50
    Expires = FALSE
    MaxOverlap = 4
    MaxTime = 0
    MaxRestarts = 0
INVARIANT FullToTheCap
CHECK_DEADLOCK FALSE
