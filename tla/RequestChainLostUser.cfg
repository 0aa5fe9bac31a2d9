\* A handler that adds a header of its own to the call it makes.
SPECIFICATION Spec
CONSTANTS
    MissingSign = MissingSign
    MalformedSign = MalformedSign
    NoUser = NoUser
    NoKey = NoKey
    NotVerified = NotVerified
    NoContext = NoContext
    NotDialing = NotDialing
    NoOutgoing = NoOutgoing
    key1 = key1
    Services <- Party
    Methods <- OneMethodAndHealth
    ClientHeaders <- Clients
    HandlerHeaders <- OwnHeader
    Options <- VerifyOptions
    SigningKey = key1
    SignTTL = 1
    TokenTTL = 1
    ClientTimeout = 2
    InvokeTimeout = 2
    MaxHops = 2
    MaxTime = 2
INVARIANTS
    UserAuthorityAlwaysTravels
