CONSTANTS
    a1 = a1
    a2 = a2
    Agent = {a1, a2}
    MaxRuns = 2
    MaxConcurrent = 1
    Modes <- AgentModes
SPECIFICATION FairRunsSpec
INVARIANTS
    
    
    OneWriterPerLog
    
    NoOpenRunAfterEnd
PROPERTIES
    EveryRunEnds
CHECK_DEADLOCK FALSE
