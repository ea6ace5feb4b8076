SPECIFICATION FairSpec
CONSTANTS
    N = 2
    p1 = p1
    p2 = p2
    Clients = {p1, p2}
    MaxTasks = 3
    MaxClicks = 3
    MaxLoads = 1
    MaxEdits = 1
    MaxFixes = 1
    MaxRecords = 1
INVARIANTS
    CaptureComesBack
    OneReplay
    AgentIsNotRecorded
PROPERTIES
    ReplayEnds
\* When every click is used up nobody touches the panel any more.
CHECK_DEADLOCK FALSE
