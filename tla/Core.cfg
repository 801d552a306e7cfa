SPECIFICATION Spec
CONSTANTS
    p1 = p1
    SpTasks = {1, 2}
    SpMethods = {"a", "c"}
    SpScenarios <- SpScenariosHere
    SpMaxDepth = 2
    TtEntries <- TtEntriesHere
    TtMaxEntries = 3
    TtMarks <- TtMarksHere
    TtDurations <- TtDurationsHere
    TtNone = TtNone
    DbProfiles <- DbProfilesHere
    DbSections <- DbSectionsHere
    DbCap = 2
    DbTtl = 2
    DbPageSize = 1
    DbTraceLimit = 2
    DbGuards = 1
    DbMaxTime = 2
    DbMaxPage = 2
    DbNone = DbNone
    RuProfiles <- RuProfilesHere
    RuCustom <- RuCustomHere
    RuNone = RuNone
    RtProfiles = {p1}
    RtHistory = 2
    RtMaxPauses = 2
    RtMaxSamples = 3
    RtNone = RtNone
    CdValues <- CdValuesHere
    CdRequests <- CdRequestsHere
    CdDefaults = {"cookie", "token"}
    CdSafeDepths = {0, 1}
    CdItems = 2
    CdMaxSize = 4
    CdRedactDepth = 2
    CdNone = CdNone
    SdMaxFlips = 3
    SdMaxToggles = 4
    SdMaxFailures = 1
    SdNone = SdNone
    LqProfiles <- LqProfilesHere
    LqRequests <- LqRequestsHere
    LqLower <- LqLowerHere
    LqForeign = {"E'", "e'"}
    LqTtl = 2
    LqPageSize = 1
    LqMaxRows = 2
    LqMaxTime = 3
    LqNone = LqNone
    SgNone = SgNone
    SgFailed = SgFailed
    SgUnsafe = "?"
    SgApps <- SgAppsHere
    SgWords <- SgWordsHere
    SgMaxDepth = 3
    IcApps <- IcAppsHere
    IcMinimum <- IcMinimumHere
    IcMaxReads = 2
    IcMaxStack = 2
    IcNone = IcNone
    PgApps <- PgAppsHere
    PgQueries <- PgQueriesHere
    PgPlans <- PgPlansHere
    PgNone = PgNone
    ExNone = ExNone
    ExThrown <- ExThrownHere
    ExOptions <- ExOptionsHere
    ExDisk <- ExDiskHere
    ExRoot <- ExRootHere
    ExSources <- ExSourcesHere
    ExSecret = {"token"}
    ExMaxStack = 4
    ExMaxCause = 2
    ExMaxCached = 2
    ExCaptures = 2
    ExEdits = 1
    MkDepth = 2
    MkLongest = 4
    MkBuiltIn <- MkBuiltInHere
    AcCounts <- AcCountsHere
    AcMargin = 7
    AcMaxUrl = 3
    AcNone = AcNone
    AcDefaults <- AcDefaultsHere
    AcUpdates <- AcUpdatesHere
    AcContents <- AcContentsHere
    SeScenarios <- SeScenariosHere
    SeSecretKeys = {"password", "secret", "key", "token"}
    SeValidated <- SeValidatedHere
    SeRank <- SeRankHere
    SeThrows = SeThrows
    SeNone = SeNone
INVARIANTS
    CoreTypeOK
    SpansAreTheCalls
    TraceShowsTheCalls
    EveryProfileListedOnce
    SectionsListWhatIsAsked
    TagsSummariseTheProfile
    PausesCountedOnce
    CapturesAreSafeAndWhole
    PagesShowTheirData
CHECK_DEADLOCK FALSE
