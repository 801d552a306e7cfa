SPECIFICATION Spec
CONSTANTS
    web = web
    cli = cli
    none = none
    Processes <- TwoProcesses
    Calls <- MixedCalls
    ProcessOf <- MixedProcess
    TokenOf <- MixedTokens
    NoToken <- none
    MaxProfiles = 1
    SweepInterval = 2
    Expires = TRUE
    MaxOverlap = 2
    MaxTime = 2
    MaxRestarts = 1
INVARIANTS
    TypeOK
    CounterExact
PROPERTIES
    SaveLeavesCap
CHECK_DEADLOCK FALSE
