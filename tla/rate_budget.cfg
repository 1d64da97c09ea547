CONSTANTS
    Threads = {t1, t2}
    MaxCalls = 2
    Window = 3
    MaxStamps = 6
SPECIFICATION SleepersSpec
INVARIANT InBudget
CHECK_DEADLOCK FALSE
