CONSTANTS
    Threads = {p1, p2}
    BackendOf <- OwnBackends
    Ids = {a, b}
    MaxClock = 3
    MaxQueries = 2
    None = None
    AppThreads = {a1, a2}
    Contexts = {x1, x2}
    Null = Null
    Clients = {1, 2, 3, 4, 5, 6}
    TemplateFiles = {"Login", "common", "helpers"}
    KindOf <- MCKinds
    TemplateKeys = {"login", "smoke"}
    KeysOf <- MCKeys
    Sources <- MCSources
    FirstText <- MCFirst
    EditTexts = {"missing", "disallowed", "foreign", "unfit"}
    MaxFiles = 3
    Programs = {g1, g2}
    MaxConfigurations = 2
    MaxEdits = 1
    NoFact = NoFact
SPECIFICATION SharedSpec
INVARIANT ReadsOwnRecords
INVARIANT ReaderSeesEverything
INVARIANT ClientIsShared
INVARIANT RegistryFollows
INVARIANT ConfigurationRepeats
SYMMETRY ListingSymmetry
CHECK_DEADLOCK FALSE
