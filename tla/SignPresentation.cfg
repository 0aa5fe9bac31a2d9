\* One sign at two services with two methods each, for five units of time.
SPECIFICATION Spec
CONSTANTS
    MissingSign = MissingSign
    MalformedSign = MalformedSign
    NoUser = NoUser
    NoKey = NoKey
    NotVerified = NotVerified
    NoCall = NoCall
    key1 = key1
    key2 = key2
    Signs <- AllSigns
    IssuedSigns <- AuthzIssued
    OptionSets <- SomeOptionSets
    Services <- AB
    Methods <- TwoMethods
    HeaderSets <- Beside
    MaxTime = 5
INVARIANTS
    BoundToOneEndpoint
    IdentityFromSignOnly
    KeyIsTheKids
    IssuedIsGood
PROPERTIES
    ExpiryIsFinal
