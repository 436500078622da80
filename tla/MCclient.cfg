CONSTANTS
    Caller = {c1, c2}
    Main = c1
    Closer = {k1, k2}
    NoThread = NoThread
    FailureThreshold = 2
    Cooldown = 1
    NoTime = NoTime
SPECIFICATION Spec
INVARIANTS
    TypeOK
    BelowThreshold
    ProbeFlagHeld
    LoopOwned
    CleanupCancelledByAnother
PROPERTIES
    ClockRestartsByProbe
    StalledCallInterrupted
CHECK_DEADLOCK FALSE
