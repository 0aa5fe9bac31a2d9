\* Two dials, by any spelling of two services, race with each other and with two
\* Close calls; the pool that callers see is the atomic one.
SPECIFICATION FairSpec
CONSTANTS
    p1 = p1
    p2 = p2
    p3 = p3
    x1 = x1
    x2 = x2
    k1 = k1
    k2 = k2
    conn1 = conn1
    conn2 = conn2
    conn3 = conn3
    NoKey = NoKey
    NoTarget = NoTarget
    NoConn = NoConn
    Failed = Failed
    ClosedErr = ClosedErr
    Callers <- TwoCallers
    Closers <- TwoClosers
    Names <- SomeNames
    Keys <- TwoKeys
    Target <- TargetOfName
    Conns <- ThreeConns
PROPERTIES
    ImplementsLivePool
INVARIANTS
    TypeOK
    NoLeak
    OneConnPerTarget
    HandedOutOpen
    ClosedMeansClosed
