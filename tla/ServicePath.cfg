\* Two callers resolve through the registry and through copies, and dial what they got.
SPECIFICATION PathSpec
CONSTANTS
    p1 = p1
    p2 = p2
    x1 = x1
    conn1 = conn1
    conn2 = conn2
    NoTarget = NoTarget
    NotFound = NotFound
    Invalid = Invalid
    NoConn = NoConn
    Failed = Failed
    ClosedErr = ClosedErr
    Callers <- TwoCallers
    Closers <- OneCloser
    Conns <- TwoConns
    ItemLists <- SomeLists
    Config <- PlatformConfig
SYMMETRY Symmetric
INVARIANTS
    ResolvesAsRegistered
    SharedByName
PROPERTIES
    FieldsSettleOnce
