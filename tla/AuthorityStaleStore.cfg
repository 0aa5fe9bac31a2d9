\* A stopped loop stores the token of its last fetch after its successor.
SPECIFICATION Spec
CONSTANTS
    c1 = c1
    c2 = c2
    Background = Background
    Contexts <- OneContext
    TTLs <- TwoTTLs
    RefreshBefore = 2
    RetryBase = 1
    RetryMax = 2
    MinWait = 1
    MaxLifecycleID = 3
    MaxRetryCount = 1
    MaxDelay = 0
    MaxFailures = 0
INVARIANTS
    RefreshesAhead
\* MaxLifecycleID ends the owner's calls: every loop may then have finished.
CHECK_DEADLOCK FALSE
