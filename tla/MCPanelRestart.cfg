SPECIFICATION Spec
CONSTANTS
    N = 2
    p1 = p1
    p2 = p2
    Clients = {p1, p2}
    MaxTasks = 3
    MaxClicks = 6
    MaxLoads = 0
    MaxEdits = 0
    MaxFixes = 0
    MaxRecords = 0
PROPERTIES
    ResumeNeverFromStepOne
\* When every click is used up nobody touches the panel any more.
CHECK_DEADLOCK FALSE
