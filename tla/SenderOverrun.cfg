SPECIFICATION Spec
CONSTANTS
    Fires = {f1}
    Drainers = {}
    NoEvent = NoEvent
    StdinTimeout = 1
    HookBudget = 3
    TotalBudget = 3
    MinAttempt = 1
    LookupMax = 4
    DrainMax = 2
    MaxMishaps = 1
INVARIANTS
    HookInBudget
CHECK_DEADLOCK FALSE
