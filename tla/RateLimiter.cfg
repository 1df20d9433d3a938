SPECIFICATION Spec
CONSTANTS
    Handlers = {h1, h2}
    Clients = {c1, c2}
    Limiters = {l1, l2}
    Burst = 2
    Idle = 2
    Stall = 1
    MaxTime = 5
    None = None
SYMMETRY Symmetry
INVARIANTS Quota HeldIsMapped ForgottenInTime
PROPERTIES ImplementsBucket
