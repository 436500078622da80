CONSTANTS
    a1 = a1
    n1 = n1
    Agent = {a1}
    MaxRuns = 1
    MaxConcurrent = 1
    Modes <- AgentModes
    Notice <- Notices
    Thread = {t1, t2}
    Nobody = Nobody
    MaxFaults = 2
    MaxRequests = 2
SPECIFICATION FairSpec
INVARIANTS
    TypeOK
    
    ExactlyOnePlace
    OnlyLateSleep
PROPERTIES
    CompletionArrives
CHECK_DEADLOCK FALSE
