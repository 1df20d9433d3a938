SPECIFICATION Spec
CONSTANTS
    Handlers = {h1, h2}
    MaxId = 2
    NoRow = NoRow
    Free = Free
INVARIANT NamedInSameTransaction
