SPECIFICATION Spec
CONSTANTS
    Fires = {f1, f2}
    Drainers = {}
    NoEvent = NoEvent
    StdinTimeout = 1
    HookBudget = 3
    TotalBudget = 3
    MinAttempt = 1
    LookupMax = 1
    DrainMax = 2
    MaxMishaps = 1
SYMMETRY Symmetry
INVARIANTS
    TypeOK
    OutcomeHonest
    CauseHonest
    QueuedIsKept
    NoRepeatAfterVerdict
    HookInBudget
CHECK_DEADLOCK FALSE
