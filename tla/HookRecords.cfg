SPECIFICATION Spec
CONSTANTS
    Procs = {p1, p2}
    Scenes <- MCScenes
    Backends <- MCBackends
    Sessions = {s1, s2}
SYMMETRY Symmetric
INVARIANTS
    TypeOK
    OneBeepPerMoment
    TalliesExact
    OneSalt
    NamesKept
    CoverageSound
    GreenMeansBeeps
    SetupAgrees
    TrustIsEarned
CHECK_DEADLOCK FALSE
