----------------------------- MODULE ServerChain -----------------------------
(***************************************************************************)
(* What becomes of an error on its way out of a service: the handler puts  *)
(* it together, the interceptors that are around the handler see it from   *)
(* the inside out (ErrorToStatus, the access logger, the request scope),   *)
(* gRPC answers it, and the handler that made the call takes the answer    *)
(* for its own error.                                                      *)
(*                                                                         *)
(* A call begins in RequestScope.  From the handler on, the services that  *)
(* called one another are unwound from the innermost one; hop counts them. *)
(* Each has its own interceptors, and all know one catalog of errors.      *)
(*                                                                         *)
(* Whoever writes a text writes a new word.                                *)
(***************************************************************************)
EXTENDS RequestScope

CONSTANTS
    Orders,          \* interceptors around a handler, from the inside out
    SkipMethods,     \* AccessLoggerOptions
    ExitOptions,     \* options ErrorToStatus is given
    Catalogs,        \* lists a catalog may be made of
    Codes,           \* codes business code uses
    ErrorInfos,      \* in answers of services outside of the model
    OptionLists,     \* options business code gives to werror
    MaxNodes, MaxHops,
    NoLog, NoAnswer

ASSUME ChainAssumption ==
    /\ Orders \subseteq Seq({"scope", "log", "exit"})
    /\ \A o \in Orders : \E i \in DOMAIN o : o[i] = "scope"
    /\ \A o \in Orders : \A i, j \in DOMAIN o : o[i] = o[j] => i = j
    /\ {MaxNodes, MaxHops} \subseteq Nat \ {0}

\* A word of a handler is a positive number; nobody else writes one.
Handlers(w) == w \in Nat \ {0}

\* What a program gives werror, ErrorToStatus and its authorizer: an authorizer's error
\* is one, which a typed nil is not.
ASSUME ErrorsAssumption ==
    /\ Sentinels \cap StatusTypes = {}
    /\ \A e \in AuthorizerErrors : IsList(e) /\ CodeOf(e) # "OK"
    /\ \A e \in AuthorizerErrors : \A w \in Text(e) : ~Handlers(w)
    /\ \A opts \in OptionLists :
         /\ IsList(opts)
         /\ \A i \in DOMAIN opts : opts[i].field = "cause" => IsList(opts[i].value)
    /\ \A o \in ExitOptions :
         /\ DOMAIN o = {"validationCode", "mappings", "defaultCode", "defaultMessage", "expose"}
         /\ IsList(o.mappings)
         /\ \A w \in o.defaultMessage : ~Handlers(w)
         /\ \A i \in DOMAIN o.mappings : \A w \in o.mappings[i].message : ~Handlers(w)
    /\ \A list \in Catalogs : \A i \in DOMAIN list :
         [domain |-> list[i].domain, reason |-> list[i].reason] # NoInfo

VARIABLES
    order, options, catalog,  \* of the service being unwound
    pending,         \* how many of order's interceptors have seen the outcome
    log,             \* the access log entry of the call
    answer,          \* what gRPC sent
    hop,
    words,           \* how many have been written
    \* History.
    claim,           \* [code, info, def] of the error that decides, as it was made
    covered,         \* words of causes that got a message of their own on top
    raised           \* the handler has an error

chainVars == <<order, options, catalog, pending, log, answer, hop, words,
               claim, covered, raised>>
vars == <<scopeVars, chainVars>>

Has(interceptor) == \E i \in DOMAIN order : order[i] = interceptor
Place(o, interceptor) == CHOOSE i \in DOMAIN o : o[i] = interceptor
NoOptions == <<>>
NoClaim == <<>>

Init ==
    /\ ScopeInit
    /\ order = <<>>
    /\ options = NoOptions
    /\ catalog = <<>>
    /\ pending = 0
    /\ log = NoLog
    /\ answer = NoAnswer
    /\ hop = 0
    /\ words = 0
    /\ claim = NoClaim
    /\ covered = {}
    /\ raised = FALSE

-----------------------------------------------------------------------------
(* The handler.                                                            *)

Handle ==
    /\ phase = "serving"
    /\ phase' = "handling"
    /\ hop' = 1
    /\ catalog' \in {list \in Catalogs : ValidCatalog(list)}
    /\ call' = [method |-> call.method]
    /\ service' = NoService
    /\ scope' = NoScope
    /\ now' = 0
    /\ UNCHANGED <<requested, err, order, options, pending, log, answer, words, claim,
                   covered, raised>>

Room(n) == phase = "handling" /\ Len(err) + n <= MaxNodes
Word == words + 1

\* A new error, alone or joined with the one there is.
Raises(e, c) ==
    /\ raised' = TRUE
    /\ words' = Word
    /\ \/ err = Nil /\ Room(1) /\ err' = e /\ claim' = c
       \/ err # Nil /\ Room(2)
            /\ \/ err' = Joined(err, e) /\ claim' = IF claim = NoClaim THEN c ELSE claim
               \/ err' = Joined(e, err) /\ claim' = IF c = NoClaim THEN claim ELSE c
    /\ UNCHANGED <<service, now, phase, call, scope, requested, order, options, catalog,
                   pending, log, answer, hop, covered>>

Claims(code, info, def) == [code |-> code, info |-> info, def |-> def]
Keys(d) == [domain |-> d.domain, reason |-> d.reason]

\* context.Canceled, a validation error, a sentinel, ...
RaisePlain(type) == Raises(Leaf(type, {Word}), NoClaim)
\* The answer of a service outside of the model.
RaiseStatus(code, info) ==
    code # "OK" /\ Raises(Status(code, info, {Word}), Claims(code, info, {}))
\* werror.New and the constructors of the codes.
RaiseNew(code, opts) ==
    Raises(New(code, {Word}, opts), Claims(NormalizeCode(code), InfoFrom(opts), {}))
RaiseDefined(d, opts) ==
    Raises(DefinitionWrap(d, Nil, {Word}, opts), Claims(d.code, Keys(d), {d}))
RaiseNil == Raises(NilError, Claims("OK", NoInfo, {}))

\* fmt.Errorf with %w.
Annotate ==
    /\ Room(1) /\ err # Nil
    /\ err' = Wrapped(Word, err)
    /\ words' = Word
    /\ UNCHANGED <<service, now, phase, call, scope, requested, order, options, catalog,
                   pending, log, answer, hop, claim, covered, raised>>

\* werror.Wrap and Definition.Wrap; without a message the cause's text stays visible.
Wraps(e, c, message) ==
    /\ Room(1) /\ err # Nil
    /\ err' = e
    /\ claim' = c
    /\ words' = Word
    /\ covered' = IF message = {} THEN covered ELSE covered \cup Text(err)
    /\ UNCHANGED <<service, now, phase, call, scope, requested, order, options, catalog,
                   pending, log, answer, hop, raised>>
WrapNew(code, opts, message) ==
    Wraps(Wrap(code, err, message, opts),
            Claims(NormalizeCode(code), InfoFrom(opts), {}), message)
WrapDefined(d, opts) ==
    Wraps(DefinitionWrap(d, err, {Word}, opts), Claims(d.code, Keys(d), {d}), {Word})

-----------------------------------------------------------------------------
(* The way out.                                                            *)

\* The interceptors of the service that is on its way out.
Around(o) ==
    /\ order' = o
    /\ options' \in IF \E i \in DOMAIN o : o[i] = "exit"
                    THEN {BuildOptions(given) : given \in ExitOptions}
                    ELSE {NoOptions}

Return(o) ==
    /\ phase = "handling"
    /\ phase' = "returning"
    /\ Around(o)
    /\ UNCHANGED <<service, now, call, scope, requested, err, catalog, pending, log,
                   answer, hop, words, claim, covered, raised>>

\* A refusal passes the interceptors outside of the request scope.
Refused(o) ==
    /\ phase = "failed"
    /\ phase' = "returning"
    /\ hop' = 1
    /\ Around(o)
    /\ pending' = Place(o, "scope")
    /\ raised' = TRUE
    /\ call' = [method |-> call.method]
    /\ service' = NoService
    /\ now' = 0
    /\ UNCHANGED <<scope, requested, err, catalog, log, answer, words, claim, covered>>

Passing(interceptor) ==
    /\ phase = "returning"
    /\ pending < Len(order)
    /\ order[pending + 1] = interceptor
    /\ pending' = pending + 1

ErrorToStatus ==
    /\ Passing("exit")
    /\ err' = NormalizeErrorToStatus(err, options)
    /\ UNCHANGED <<service, now, phase, call, scope, requested, order, options, catalog,
                   log, answer, hop, words, claim, covered, raised>>

\* The health check is skipped whatever the options say.
Skipped == {"health"} \cup (SkipMethods \ {""})

AccessLogger ==
    /\ Passing("log")
    /\ log' = IF call.method \in Skipped THEN NoLog
              ELSE [code |-> CodeOf(err), info |-> ErrorInfoOf(err), text |-> Text(err)]
    /\ UNCHANGED <<service, now, phase, call, scope, requested, err, order, options,
                   catalog, answer, hop, words, claim, covered, raised>>

RequestScopeReturns ==
    /\ Passing("scope")
    /\ UNCHANGED <<service, now, phase, call, scope, requested, err, order, options,
                   catalog, log, answer, hop, words, claim, covered, raised>>

Answered ==
    /\ phase = "returning"
    /\ pending = Len(order)
    /\ phase' = "answered"
    /\ answer' = OnWire(err)
    /\ UNCHANGED <<service, now, call, scope, requested, err, order, options, catalog,
                   pending, log, hop, words, claim, covered, raised>>

\* The handler that made the call has the answer for an error of its own.
CallerHandles ==
    /\ phase = "answered"
    /\ answer.code # "OK"
    /\ hop < MaxHops
    /\ phase' = "handling"
    /\ hop' = hop + 1
    /\ order' = <<>>
    /\ options' = NoOptions
    /\ err' = Status(answer.code, answer.info, answer.text)
    /\ claim' = IF claim = NoClaim THEN Claims(answer.code, answer.info, {}) ELSE claim
    /\ pending' = 0
    /\ log' = NoLog
    /\ answer' = NoAnswer
    /\ UNCHANGED <<service, now, call, scope, requested, catalog, words, covered, raised>>

\* The client has its answer.
Ends ==
    /\ phase = "answered"
    /\ phase' = "idle"
    /\ call' = NoCall
    /\ err' = Nil
    /\ order' = <<>>
    /\ options' = NoOptions
    /\ catalog' = <<>>
    /\ pending' = 0
    /\ log' = NoLog
    /\ answer' = NoAnswer
    /\ hop' = 0
    /\ words' = 0
    /\ claim' = NoClaim
    /\ covered' = {}
    /\ raised' = FALSE
    /\ UNCHANGED <<service, now, scope, requested>>

HandlerNext ==
    \/ \E type \in {"plain", "canceled", "deadline", "validation"} \cup Sentinels :
         RaisePlain(type)
    \/ \E code \in Codes, info \in ErrorInfos : RaiseStatus(code, info)
    \/ \E opts \in OptionLists :
         \/ \E code \in Codes :
              \/ RaiseNew(code, opts)
              \/ \E message \in {{}, {Word}} : WrapNew(code, opts, message)
         \/ \E i \in DOMAIN catalog :
              RaiseDefined(catalog[i], opts) \/ WrapDefined(catalog[i], opts)
    \/ RaiseNil \/ Annotate

Next ==
    \/ ScopeNext /\ UNCHANGED chainVars
    \/ Handle \/ HandlerNext
    \/ \E o \in Orders : Return(o) \/ Refused(o)
    \/ ErrorToStatus \/ AccessLogger \/ RequestScopeReturns
    \/ Answered \/ CallerHandles \/ Ends

Spec == Init /\ [][Next]_vars

-----------------------------------------------------------------------------
(* Properties.                                                             *)

\* A failure is never answered with OK, and a success never with anything else, whatever
\* interceptors there are, mappings and joins included.  The exception is what the code
\* makes of a typed nil *werror.Error: it is OK, if it is the first to have a status.
FailureStaysFailure ==
    phase = "answered" =>
        (answer.code = "OK" <=> ~raised \/ claim = Claims("OK", NoInfo, {}))

\* With ErrorToStatus right inside the access logger, as the README has it, the log says
\* of every call what its caller is told.
LoggedIsAnswered ==
    phase = "answered" /\ log # NoLog /\ Has("exit")
        /\ Place(order, "log") = Place(order, "exit") + 1
        => log = answer

\* Code, domain and reason of the first classified error reach every service up the
\* chain that does not replace them: joins, annotations, mappings and interceptors
\* leave them alone.
IdentityTravels ==
    phase = "answered" /\ claim # NoClaim =>
        /\ answer.code = claim.code
        /\ ErrorInfoOf(Status(answer.code, answer.info, answer.text)) = claim.info

\* Whoever looks the answer up in the catalog finds the definition the error was made
\* with, and nothing else.
FoundAsDefined ==
    phase = "answered" /\ claim # NoClaim /\ claim.def # {} =>
        Found(catalog, answer.info) = claim.def

\* What a cause says stays in the service that put a message of its own on top: it is
\* neither in an answer nor in an access log, of this hop or a later one.
CauseStaysInside ==
    /\ phase = "answered" => answer.text \cap covered = {}
    /\ log # NoLog => log.text \cap covered = {}
=============================================================================
