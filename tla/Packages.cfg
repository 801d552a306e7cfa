SPECIFICATION Spec
CONSTANTS
    op1 = op1
    op2 = op2
    app1 = app1
    app2 = app2
    call1 = call1
    call2 = call2
    AiOps = {op1, op2}
    AiScenarios <- AiScenariosHere
    AiNames <- AiNamesHere
    AiMaxSteps = 2
    AiMaxTools = 1
    AiMaxAttempts = 3
    AiNone = AiNone
    AsApps = {app1, app2}
    AsOptions <- AsOptionsHere
    AsAgents = {"agent"}
    AsUsages <- AsUsagesHere
    AsMaxTime = 2
    AsMaxLoads = 2
    AsNone = AsNone
    HcCalls = {call1, call2}
    HcScenarios <- HcScenariosHere
    HcHeaders = {"auth"}
    HcTraceId = "x-request-id"
    HcSockets = {"socket1", "socket2"}
    HcMaxPending = 1
    HcNone = HcNone
    CrRequests = {1, 2}
    CrSockets = {"socket"}
    CrMaxTime = 1
    CrNone = CrNone
    MgCalls = {1, 2, 3}
    MgScenarios <- MgScenariosHere
    MgMaxEdits = 2
    MgMaxTime = 2
    MgNone = MgNone
    DqCalls = {1, 2, 3}
    DqApps = {1, 2}
    DqScenarios <- DqScenariosHere
    DqNone = DqNone
    EvMaxExecs = 6
    EvScenarios <- EvScenariosHere
    EvNone = EvNone
    MqMaxMessages = 2
    MqMaxDeliveries = 3
    MqScenarios <- MqScenariosHere
    MqNone = MqNone
    CmRuns = {1, 2}
    CmScenarios <- CmScenariosHere
    CmNone = CmNone
    RsNone = RsNone
    RsEmpty = RsEmpty
    DsApps <- DsAppsHere
    DsWords <- DsWordsHere
    DsPathParams = {":id"}
    DsMaxNames = 2
    WiHosts <- WiHostsHere
    WiPeers <- WiPeersHere
    WiPaths <- WiPathsHere
    AxNone = AxNone
    AxScenarios <- AxScenariosHere
    AxProviders <- AxProvidersHere
INVARIANTS
    PackagesTypeOK
    OneEntryPerCall
    AiPanelIsHonest
    HttpCallsAreTold
    MongoEntriesTellWhatWasSent
    AwaitedHandlersStored
    SurfacesAreWhole
    CommandOutcomeKept
CHECK_DEADLOCK FALSE
