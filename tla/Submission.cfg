SPECIFICATION LiveAttempts
CONSTANTS
    Requests = {r1, r2}
    Tokens = {good}
    Genuine = {good}
    Addresses = {here, there}
    TTL = 2
    Timeout = 1
    MaxTime = 3
    WriteTimeout = 1
    MaxAttempts = 3
    None = None
INVARIANTS CacheTruthful StoredWasAccepted CountedOnce
PROPERTIES AttemptEnds
CHECK_DEADLOCK FALSE
