SPECIFICATION FairSpec
CONSTANTS
    k1 = k1
    k2 = k2
    p1 = p1
    q1 = q1
    q2 = q2
    Keys = {k1, k2}
    Panels = {p1}
    Polls = {q1, q2}
    NoPoll = NoPoll
    NoKey = NoKey
    MaxActs = 3
    MaxLoads = 1
    MaxCalls = 3
INVARIANTS
    ActsOnce
    ElementInOrder
    AgentIsNotRecorded
PROPERTIES
    PendingIsFlushed
\* When everything is used up nobody touches the page or the panel any more.
CHECK_DEADLOCK FALSE
