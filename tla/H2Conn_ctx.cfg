SPECIFICATION FairSpec
CONSTANTS
    r1 = r1
    r2 = r2
    r3 = r3
    r4 = r4
    Calls = {r1, r2, r3, r4}
    Body <- MCBody
    Heads = {r2}
    CloseCalls = {r3}
    Trailers = {r4}
    Scenarios <- ContextScenario
    MaxSettings = 1
    MaxStreamID = 5
    RetryLimit = 1
    MaxAttempts = 2
PROPERTY TimeoutEndsRead
CHECK_DEADLOCK FALSE
