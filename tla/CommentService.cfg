SPECIFICATION Spec
CONSTANTS
    Handlers = {h1, h2}
    MaxId = 2
    NoRow = NoRow
    Free = Free
SYMMETRY Symmetry
INVARIANTS TypeOK NoLostToggle AnswersOwnWrite AckedIsComplete
PROPERTIES DeletedStaysDeleted ImplementsContract
