SPECIFICATION Spec
CONSTANTS
    MaxId = 2
    PerPage = 1
    MaxClicks = 3
    MaxVersion = 2
    None = None
INVARIANT EmptyMeansNone
CHECK_DEADLOCK FALSE
