\* Punctual rounds, at most two failures in a row and a token that outlives them,
\* with a restart.
SPECIFICATION TimelySpec
CONSTANTS
    c1 = c1
    c2 = c2
    Background = Background
    Contexts <- OneContext
    TTLs <- LongTTLs
    RefreshBefore = 10
    RetryBase = 1
    RetryMax = 3
    MinWait = 1
    MaxLifecycleID = 3
    MaxRetryCount = 2
    MaxDelay = 1
    MaxFailures = 2
INVARIANTS
    NoGap
    RefreshesAheadOfOwn
PROPERTIES
    KeepsValidToken
\* MaxLifecycleID ends the owner's calls: every loop may then have finished.
CHECK_DEADLOCK FALSE
