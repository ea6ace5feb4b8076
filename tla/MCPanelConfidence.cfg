SPECIFICATION RankSpec
CONSTANTS
    Targets <- MCTargets
    Contents <- MCContents
    MaxShifts = 1
INVARIANTS
    PanelGuessesAreBlocked
\* Once the step is made the call is over.
CHECK_DEADLOCK FALSE
