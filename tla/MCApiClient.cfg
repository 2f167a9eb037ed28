CONSTANTS
    c1 = c1
    c2 = c2
    Calls = {c1, c2}
    Concurrency = 2
    MaxRetries = 1
    RequestDelay = 1
    Timeout = 2
    TotalTimeout = 3
    BackoffCap = 2
    RetryAfters = {2}
SPECIFICATION FairSpec
INVARIANTS
    WarmedUpOnce
    OneSession
    CallsAreBounded
PROPERTIES
    RequestsAreSpaced
    CallsEnd
