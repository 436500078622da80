CONSTANTS
    StepWriter = {s1}
    ToolWriter = {t1, t2}
    Adder = {s1, t1, t2}
    Free = Free
    Client = {c1}
    MaxMessages = 2
    MaxPatches = 1
    MaxCrashes = 1
    MaxEvents = 1
    KeepEvents = 1
    MaxAdded = 2
SPECIFICATION Spec
SYMMETRY ToolSymmetry
INVARIANTS
    TypeOK
    NoDuplicateLine
    AckedSurvives
    LockedWritersKeepEachOther
    StreamHasNoGap
CHECK_DEADLOCK FALSE
