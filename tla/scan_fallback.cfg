CONSTANTS
    Threads = {p1, p2}
    BackendOf <- OwnBackends
    Ids = {a, b, c}
    MaxClock = 4
    MaxQueries = 1
    None = None
SPECIFICATION Spec
INVARIANT ScanIsAllOrNothing
SYMMETRY ListingSymmetry
CHECK_DEADLOCK FALSE
