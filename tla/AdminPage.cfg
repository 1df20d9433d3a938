SPECIFICATION Spec
CONSTANTS
    MaxId = 2
    PerPage = 1
    MaxClicks = 3
    MaxVersion = 2
    None = None
INVARIANTS TypeOK PagerMatchesRows OwnWritesShow AlertIsTrue BusyHasCall
CHECK_DEADLOCK FALSE
