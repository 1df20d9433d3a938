SPECIFICATION LiveSpec
CONSTANTS
    Handlers = {h1, h2}
    MaxId = 1
    NoRow = NoRow
    Free = Free
PROPERTIES EveryRequestAnswered
