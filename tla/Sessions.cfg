SPECIFICATION Spec
CONSTANTS
    Requests = {r1, r2}
    Tokens = {t1, t2}
    TTL = 1
    Period = 2
    MaxTime = 5
    None = None
SYMMETRY Symmetry
INVARIANTS LoggedOutNoMore AdmittedInLife ForgottenInTime
PROPERTY DeadStaysDead
