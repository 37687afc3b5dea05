SPECIFICATION Spec
CONSTANTS
    Fires = {f1, f2, f3}
    Sessions = {s1}
    Types = {"approval", "completed", "tool_started"}
    LocalOnly = {"tool_started"}
    Bodies = {b1, b2}
    Window = 2
    CollapseWindow = 0
    MaxTime = 2
SYMMETRY Symmetry
INVARIANTS
    DedupedMeansSent
CHECK_DEADLOCK FALSE
