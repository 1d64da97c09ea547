CONSTANTS
    Threads = {p1, p2}
    BackendOf <- OwnBackends
    Ids = {a, b}
    MaxClock = 3
    MaxQueries = 2
    None = None
SPECIFICATION Spec
INVARIANT CachedListingIsCurrent
CHECK_DEADLOCK FALSE
