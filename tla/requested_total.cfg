CONSTANTS
    Categories = {"regression", "smoke", "integration", "e2e"}
    ScenarioTypes <- MCTypes
    Requests <- MCRequests
    Totals = {1, 2, 4}
    BatchSize = 2
    MaxSuites = 2
SPECIFICATION GenerationSpec
INVARIANT RequestIsMet
CHECK_DEADLOCK FALSE
