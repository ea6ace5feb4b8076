SPECIFICATION Spec
CONSTANTS
    MaxEvents = 2
    MaxDocs = 2
    MaxControls = 1
    Kinds <- UserActs
    field = field
    Elements <- OneElement
    ArmedStart = TRUE
    None = None
INVARIANTS
    RecordedOnce
    EdgesFollowSteps
    FirstOfItsNumberIsRecorded
\* The browser is closed at the end, and the user may do nothing.
CHECK_DEADLOCK FALSE
