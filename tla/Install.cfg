SPECIFICATION Spec
CONSTANTS
    Bare = Bare
    None = None
    Absent = Absent
    Empty = Empty
    Garbled = Garbled
    Launchers = {Bare, old, new}
    Mates = {m}
    Keys = {k}
    MaxUpsets = 2
SYMMETRY Paths
INVARIANTS
    TypeOK
    UserContentKept
    LastCopyKept
    UninstallClean
    DoctorHonest
    InstallHeals
CHECK_DEADLOCK FALSE
