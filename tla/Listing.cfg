SPECIFICATION Spec
CONSTANTS
    Comments = {1, 2, 3}
    CreatedAt <- MCCreatedAt
    FirstPages = {0, 2, 127}
    PerPages = {0, 4}
    DefaultPerPage = 1
    MaxPerPage = 2
    MaxInt = 127
INVARIANTS TypeOK WalkComplete NoRepeats PageAsPromised
