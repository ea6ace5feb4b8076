SPECIFICATION SessionFairSpec
CONSTANTS
    N = 3
    MaxRetries <- MCRetries
    RetryAllowed = {2}
    HardSteps = {}
    Candidates <- MCSelectors
    EventLimit = 100
    FixLimit = 100
    MaxFresh = 1
    MaxResumes = 2
    MaxCrashes = 2
    MaxOther = 0
INVARIANTS
    ResumeNeverSkips
    ResumeAtPausedStep
    FinishedStepsNotRepeated
PROPERTIES
    ExecutesAtLeastOnce
    ProcessEnds
\* With every bound used up the operator types nothing more.
CHECK_DEADLOCK FALSE
