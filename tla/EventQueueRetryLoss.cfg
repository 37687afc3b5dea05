SPECIFICATION Spec
CONSTANTS
    Procs = {p1, p2}
    Events = {e1}
    NoProc = NoProc
    NoEvent = NoEvent
    Ops = {"enqueue", "drain"}
    MaxEntries = 1
    Retention = 1
    ClaimReclaim = 2
    SendBudget = 1
    DrainMax = 1
    MaxTime = 2
    MaxFaults = 0
    MaxCount = 1
SYMMETRY Symmetry
PROPERTIES
    NoSilentLoss
CHECK_DEADLOCK FALSE
