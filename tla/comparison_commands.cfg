CONSTANTS
    TestFiles <- MCUnnumbered
    HashWords = {"hashsum"}
    MaxApplied = 1
SPECIFICATION EngineSpec
INVARIANT ComparesMatching
CHECK_DEADLOCK FALSE
