SPECIFICATION FairSpec
CONSTANTS
    Procs = {p1, p2}
    Events = {e1}
    NoProc = NoProc
    NoEvent = NoEvent
    Ops = {"enqueue", "drain"}
    MaxEntries = 1
    Retention = 1
    ClaimReclaim = 2
    SendBudget = 1
    DrainMax = 1
    MaxTime = 3
    MaxFaults = 1
    MaxCount = 1
PROPERTIES
    FilesExpire
CHECK_DEADLOCK FALSE
