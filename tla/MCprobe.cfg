CONSTANTS
    Caller = {c1, c2}
    Main = c1
    Closer = {}
    NoThread = NoThread
    FailureThreshold = 2
    Cooldown = 1
    NoTime = NoTime
SPECIFICATION Spec
INVARIANTS
    RefusedBehindProbe
CHECK_DEADLOCK FALSE
