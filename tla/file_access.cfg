CONSTANTS
    Procs = {p1, p2}
    Inodes = {i1, i2, i3}
    NoProc = NoProc
    NoInode = NoInode
    MaxOps = 3
    Absent = Absent
    Partial = Partial
    Readers = {r1, r2}
    f = f
    g = g
    Files = {f, g}
    SizeOf <- Sizes
    MaxBytes = 2
    FirstDisk <- BothFiles
    MaxVersion = 4
    MaxReads = 3
    None = None
SPECIFICATION AccessSpec
INVARIANT StoresSerialisedUntilRenewed
INVARIANT RecordIntact
INVARIANT CleanupRemovesWhatItJudged
PROPERTY RetrieveReturnsCommitted
PROPERTY OperationsEnd
INVARIANT HitIsFresh
INVARIANT BudgetIsKept
PROPERTY ReadEnds
CHECK_DEADLOCK FALSE
