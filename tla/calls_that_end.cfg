CONSTANTS
    MaxRetries = 3
    Threshold = 5
    MaxTotal = 3
    MaxFetches = 3
    Threads = {t1, t2}
    MaxCalls = 2
    Window = 3
    MaxStamps = 6
    Ingesters = {i1, i2}
    Ids = {a, b}
    MaxRecords = 1
    HasTtl = TRUE
    MaxBronzeCalls = 3
    NoId = NoId
SPECIFICATION CallsSpec
INVARIANT NoAttemptWhileOpen
INVARIANT OpenIsJustified
INVARIANT ProbeSettlesBreaker
INVARIANT FetchIsComplete
PROPERTY FetchEnds
INVARIANT InBudgetUntilContended
INVARIANT NothingForgotten
PROPERTY AcquireEnds
INVARIANT StoresAgree
INVARIANT CapacityIsKept
INVARIANT RecordCacheFollows
INVARIANT OwnRecordSurvives
PROPERTY CallEnds
PROPERTY ImplementsCatalog
CHECK_DEADLOCK FALSE
