\* Two callers make the first calls to a service at the same time.
SPECIFICATION RacySpec
CONSTANTS
    p1 = p1
    p2 = p2
    NoTarget = NoTarget
    NotFound = NotFound
    Invalid = Invalid
    Callers <- TwoCallers
    ItemLists <- BareList
    Config <- PlatformConfig
CHECK_DEADLOCK FALSE
INVARIANTS
    NoTornRead
