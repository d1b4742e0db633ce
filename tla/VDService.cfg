CONSTANTS
    Processes = {p1, p2, p3}
    NoProcess = NoProcess
    VD_AGENT_MAX_RESTARTS = 2
    MaxSessions = 2
    MaxStops = 2
    LaunchFails = TRUE
    AgentHangs = TRUE
    LongGaps = TRUE

SPECIFICATION FairSpec
INVARIANTS
    RightSession
    OneAgent

PROPERTIES
    Recovers
    CrashLoopEnds
    StopEnds

CHECK_DEADLOCK FALSE
