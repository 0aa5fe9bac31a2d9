\* Every message and decision, then every short error on its way through two services.
SPECIFICATION Spec
CONSTANTS
    NoInfo = NoInfo
    NoService = NoService
    NoCall = NoCall
    NoPolicy = NoPolicy
    NoScope = NoScope
    NoDecision = NoDecision
    NoLog = NoLog
    NoAnswer = NoAnswer
    Sentinels = {"expired"}
    Methods <- SomeMethods
    Registries <- Tables
    Messages <- SmallMessages
    Decisions <- SmallDecisions
    AuthorizerErrors <- SomeAuthorizerErrors
    Dims <- BothDims
    MaxTime = 2
    Orders <- SomeOrders
    SkipMethods = {""}
    ExitOptions <- SomeExitOptions
    Catalogs <- SomeCatalogs
    Codes <- SomeCodes
    ErrorInfos <- SomeInfos
    OptionLists <- SomeOptionLists
    MaxNodes = 3
    MaxHops = 2
INVARIANTS
    NeverFallsBack
    FailureStaysFailure
    LoggedIsAnswered
    IdentityTravels
    FoundAsDefined
    CauseStaysInside
PROPERTIES
    StartsAuthorized
