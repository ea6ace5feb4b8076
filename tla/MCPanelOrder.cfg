SPECIFICATION Spec
SYMMETRY Panels
CONSTANTS
    N = 3
    p1 = p1
    p2 = p2
    Clients = {p1, p2}
    MaxTasks = 3
    MaxClicks = 4
    MaxLoads = 0
    MaxEdits = 0
    MaxFixes = 0
    MaxRecords = 1
INVARIANTS
    StepsPassInOrder
\* When every click is used up nobody touches the panel any more.
CHECK_DEADLOCK FALSE
