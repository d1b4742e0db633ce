CONSTANTS
    Processes = {p1}
    NoProcess = NoProcess
    VD_AGENT_MAX_RESTARTS = 2
    MaxSessions = 1
    MaxStops = 1
    LaunchFails = FALSE
    AgentHangs = FALSE
    LongGaps = FALSE

SPECIFICATION FairSpec
PROPERTY
    StopIsHonoured

CHECK_DEADLOCK FALSE
