CONSTANTS
    Callers = {u1, u2}
    Idle = Idle
    SecurityCalls = 2
    Interval = 3
    QueueSizes = {1, 2}
    MaxBackoff = 8
    MaxDelay = 1
    MaxAdmitted = 4
    Records = {r1, r2}
    Missing = Missing
    MaxVersions = 2
    MaxRestores = 2
    Keys = {"a", "b", "c"}
    NoKey = "none"
    Hash <- MCHash
    MaxSize = 2
    MaxBytes = 2
    MaxValueSize = 3
    Sizes = {1, 2, 3}
    ChainLimit = 2
    TTL = 2
    CleanupEvery = 1
    Threads = {t1, t2}
    Documents = {d1, d2}
    EmptyDocument = EmptyDoc
    LargeDocument = LargeDoc
    NoDocument = NoDoc
    NoStamp = NoStamp
    ClosedCircuit = Closed
    MaxResults = 1
    ResultTTL = 1
    FailureLimit = 2
    ResetTime = 1
    Workers = {w1, w2, w3}
    NoOperation = NoOp
    MaxOperations = 2
    MaxStarts = 3
    MaxItems = 3
    PageSizes <- MCSizes
    Strategies = 2
    MaxZephyrFetches = 2
    UserFiles = {"x", "y"}
    ImprovedOf <- MCImproved
    Payload = "payload"
    Meta = "meta"
    Stem <- MCStem
    NamedFiles = {"x", "y", "payload"}
    OutputNames = {"a"}
    MaxCommands = 2
    MaxSaves = 2
    Categories = {"regression", "smoke", "integration", "e2e"}
    ScenarioTypes <- MCTypes
    Requests <- MCRequests
    Totals = {1, 2, 4}
    BatchSize = 2
    MaxSuites = 2
    TestFiles <- MCTestFiles
    HashWords = {"hashsum"}
    MaxApplied = 3
    Inputs <- MCInputs
    MaxConversions = 2
    IntentCacheLimit = 2
    IntentCacheCleanup = 2
SPECIFICATION ServicesSpec
PROPERTY SecurityVerdicts
INVARIANT OriginalSurvives
PROPERTY RestoreReturnsSnapshot
INVARIANT LRUAgrees
INVARIANT ResultsAgree
INVARIANT CircuitFollowsFailures
INVARIANT SlotsReturn
INVARIANT ZephyrDelivers
INVARIANT ExitTellsOutputs
INVARIANT SuiteIsWhole
INVARIANT SuggestionsKeepTests
INVARIANT ConversionRepeats
INVARIANT ChosenLibraryIsImported
CHECK_DEADLOCK FALSE
