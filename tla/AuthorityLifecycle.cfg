\* Three generations of the loop: every interleaving of Start, Stop, the cancel
\* call, clean-up and late fetches.
SPECIFICATION FairSpec
CONSTANTS
    c1 = c1
    c2 = c2
    Background = Background
    Contexts <- OneContext
    TTLs <- ShortestTTL
    RefreshBefore = 1
    RetryBase = 1
    RetryMax = 1
    MinWait = 1
    MaxLifecycleID = 3
    MaxRetryCount = 1
    MaxDelay = 0
    MaxFailures = 0
INVARIANTS
    TypeOK
    NoOrphanLoop
    CancelBelongsToRunningLoop
PROPERTIES
    AbandonedLoopEnds
    KeepsFetching
    Recovers
    StartTakesEffectUncancelled
\* MaxLifecycleID ends the owner's calls: every loop may then have finished.
CHECK_DEADLOCK FALSE
