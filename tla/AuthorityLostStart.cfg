\* Start while a cancelled loop has not cleaned up yet.
SPECIFICATION FairSpec
CONSTANTS
    c1 = c1
    c2 = c2
    Background = Background
    Contexts <- OneContext
    TTLs <- ShortTTL
    RefreshBefore = 2
    RetryBase = 1
    RetryMax = 2
    MinWait = 1
    MaxLifecycleID = 1
    MaxRetryCount = 1
    MaxDelay = 0
    MaxFailures = 0
PROPERTIES
    StartTakesEffect
\* MaxLifecycleID ends the owner's calls: every loop may then have finished.
CHECK_DEADLOCK FALSE
