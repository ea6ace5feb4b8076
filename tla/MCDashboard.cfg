SPECIFICATION Spec
CONSTANTS
    MaxRequests = 4
    Kinds <- AnyHandler
    MaxReplayRequests = 1
    None = None
INVARIANTS
    OneSession
    NoLostBrowser
    ReplayIsTracked
PROPERTIES
    RequestsEnd
\* When every request has been answered nobody asks any more.
CHECK_DEADLOCK FALSE
