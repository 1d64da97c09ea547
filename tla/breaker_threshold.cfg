CONSTANTS
    MaxRetries = 3
    Threshold = 5
    MaxTotal = 3
    MaxFetches = 3
SPECIFICATION Spec
INVARIANT OpensAtThreshold
CHECK_DEADLOCK FALSE
