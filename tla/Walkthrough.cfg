SPECIFICATION Spec
CONSTANTS
    None = None
    MaxEdits = 1
    MaxAltered = 1
INVARIANTS
    AnyChangeIsSeen
CHECK_DEADLOCK FALSE
