SPECIFICATION Spec
CONSTANTS
    MaxEvents = 2
    MaxDocs = 2
    MaxControls = 0
    Kinds <- UserActs
    field = field
    Elements <- OneElement
    ArmedStart = TRUE
    None = None
INVARIANTS
    EveryCaptureIsRecorded
\* The browser is closed at the end, and the user may do nothing.
CHECK_DEADLOCK FALSE
