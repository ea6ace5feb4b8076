SPECIFICATION FairSpec
CONSTANTS
    N = 3
    MaxRetries <- MCMaxRetries
    RetryAllowed <- MCRetryAllowed
    HardSteps <- MCHardSteps
    Candidates <- MCCandidates
INVARIANTS
    SuccessMeansActed
    EffectsBounded
PROPERTIES
    ActsOnlyWhenApproved
    LogFollowsContract
    RunEnds
\* A run ends and the process exits.
CHECK_DEADLOCK FALSE
