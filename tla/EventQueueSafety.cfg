SPECIFICATION Spec
CONSTANTS
    Procs = {p1, p2}
    Events = {e1, e2}
    NoProc = NoProc
    NoEvent = NoEvent
    Ops = {"enqueue", "drain", "prune", "discard"}
    MaxEntries = 1
    Retention = 1
    ClaimReclaim = 2
    SendBudget = 1
    DrainMax = 1
    MaxTime = 2
    MaxFaults = 1
    MaxCount = 1
SYMMETRY Symmetry
INVARIANTS
    TypeOK
    OneFilePerEvent
    ExclusiveSend
    ClaimNotStolen
    DuplicatesOnlyAfterDoubt
    NeverSendsExpired
PROPERTIES
    ImplementsSpool
CHECK_DEADLOCK FALSE
