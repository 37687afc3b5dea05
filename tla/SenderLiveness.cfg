SPECIFICATION FairSpec
CONSTANTS
    Fires = {f1}
    Drainers = {d1, d2}
    NoEvent = NoEvent
    StdinTimeout = 1
    HookBudget = 2
    TotalBudget = 2
    MinAttempt = 1
    LookupMax = 1
    DrainMax = 2
    MaxMishaps = 1
PROPERTIES
    QueueDrains
CHECK_DEADLOCK FALSE
