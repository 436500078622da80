CONSTANTS
    Steer = {s1}
    MaxQueue = 2
    MaxSteps = 2
    MaxPrompts = 2
    MaxRuns = 2
    MaxHooks = 2
    MaxFaults = 1
SPECIFICATION Spec
INVARIANTS
    ChatTypeOK
    PromptsInOrder
    RecordInOnePlace
    NothingLeftBehind
    SteerMissedNoCheckpoint
CHECK_DEADLOCK FALSE
