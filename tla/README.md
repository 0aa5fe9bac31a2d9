# go-micro: specification, model checking and proofs

go-micro is a Go library for building gRPC services behind an Envoy gateway: it gives a service
its own identity token, a pool of client connections, verified request contexts, request-scope and
data-access decisions, error normalisation, access logs, telemetry and configuration loading. This
directory holds TLA+ models of the parts in which ordering, concurrency, time or fail-closed
decisions matter, the TLC runs that check them, and proofs checked by TLAPS.

## Inventory

| Component (source) | State | Operations | What is hard, and what makes it correct |
|---|---|---|---|
| service token provider (`authz/authority.go`) | one cached token with its expiry and the last error under `mu`; cancel function and generation counter under `lifecycleMu`; one background goroutine per generation | `Start`, `Stop`, the refresh loop (`refreshOnce`, `nextRefreshDelay`, `retryDelay`, the select), `clearLifecycle`, readers `ServiceAuthority`, `ServiceAuthorityStatus` | generations overlap; cancellation races fetch, sleep and clean-up; refresh must happen before expiry, also after failures. Correct: no goroutine escapes `Stop`, `Start` takes effect, no gap in which the token is expired, retries never stop |
| connection manager (`invocation/manager.go`) | map from final target to connection, `closed`, RW lock | `Dial` (two look-ups, dial outside the lock, publish), `Close` | dials of one target race, `Close` overtakes a dial, one close fails. Correct: one shared connection per target, none leaked, none handed out closed, nothing left after `Close` |
| service registry and DNS (`invocation/service.go`, `dns.go`, `target.go`, `caller.go`) | a map from name to a stable `*DNS`, filled at construction | `New`, `DNS` (copy), `Caller`, `Invoke`; `DNSManager.Normalize` (writes the DNS in place), `Build` | `Invoke` hands the registry's own pointer to `Normalize`, so concurrent calls write it. Correct: equivalent descriptions give one target, normalisation is idempotent |
| unary invoker and authority metadata (`invocation/invoker.go`, `authz/authority_metadata.go`) | none of its own; metadata travels with the context | `Invoke`: resolve metadata, token, dial, timeout, call; the client interceptor | token and connection are obtained at different times; only the allow-listed identity may travel on; `Dial` is outside the timeout |
| authz sign verification and request context (`authz/verification.go`, `service/authz_context.go`, `service/context.go`) | none; a value per request | claims checks, target check, building the identity of a request | a sign travels along calls; skew, target service and method. Fail closed |
| request scope (`service/request_scope.go`, `middleware/grpc/request_scope.go`) | a policy registry, a decision per request | `Extract`, `Validate`, interceptor | which scopes a request may widen itself to. Fail closed |
| gRPC chain (`middleware/grpc`) | the context that the interceptors pass on | service context, request scope, access log, error normalisation | what an outer interceptor sees of what an inner one refused, mapped or skipped. Correct: the log and the caller are told the same |
| data access decisions (`access/access.go`) | a policy registry, decisions in the context keyed by resource and action | `Authorize`, `WithDataAccessDecision`, `DataAccessDecisionFromContext`, `NewDataAccessPolicyRegistry`, `Lookup` | contexts, registry, authorizer and readers hold slices that must not be the same ones; keys are trimmed while validation compares them as they are. Correct: what is kept never changes |
| service errors (`werror`) | immutable values | `New`, `Wrap`, `Definition.Wrap`, `StatusErrorOf`, `ErrorInfoOf`, catalog | which error of a joined or wrapped tree wins, at each of those who look. Correct: a failure keeps its code, domain and reason up the chain of callers, and a cause's text stays inside |
| configuration (`config`) | payload, local and remote loading | options, `LoadStoreConfig`, `EncodePayload`, `DecodePayload` | decoding order; mostly I/O |
| telemetry (`telemetry`) | three providers, process-wide globals | `NewProviders`, `Shutdown` | partial failure of construction, one shared shutdown deadline |
| logging, host information, constants, HTTP access log (`logger`, `sys`, `constant`, `middleware/http`, `app`, `kernel`) | none or I/O only | formatting and wiring | nothing a model checker reaches |

Interaction: a handler behind the gRPC chain calls another service through `RemoteServiceManaged`,
which looks the DNS up and asks `UnaryInvoker`; the invoker takes the token from the provider's
cache, the connection from the manager (which asks `DNSManager` for the target), and calls.

How a request travels: the access log, the service context and the request scope interceptors let it
in (or not); its handler asks for data-access decisions and keeps them in its context; it calls on
through the invoker or the client interceptor, which clean the metadata and add the service's own
authority; the next service starts over.

## Modules

| Module | Models | State and actions against the code |
|---|---|---|
| `ServiceAuthority` | `authz/authority.go` | The mutex-protected fields are variables under their own names; a loop is a generation number with a place (`fetch`, `store`, `record`, ...). `Start` and the locked part of `Stop` are one step each, `StopCancels` is the call of the cancel function after the lock is released, `FetchSucceeds`/`FetchFails` end the external `fetch`, `StoreToken` and `RecordRefreshError` are the lock sections of `refreshOnce`, `LeaveAfterRefresh`, `SleepUntilRefresh`, `SleepUntilRetry` the branches of `runRefreshLoop`, `Wake` and `LeaveSleep` the select, `ClearLifecycle` the deferred clean-up. Time is what is left: of the token, of a fetched reply, of a timer. |
| `ServiceAuthorityProofs` | | theorems about it |
| `ConnectionPool` | what `ConnectionManager` promises | an atomic map from target to connection |
| `ConnectionManager` | `invocation/manager.go` | `LookUpShared` and `LookUpExclusive` are the two look-ups, `DialSucceeds`/`DialFails` the dial outside the lock, `Publish` the last lock section. `Close` holds the lock over several steps (`CloseBegins`, `CloseConn` per entry, `CloseReturns`), since closing is visible to users of a connection. |
| `ConnectionManagerProofs` | | theorems about it |
| `DnsRegistry` | `invocation/service.go`, `dns.go`, `target.go`, `caller.go` | `entry` is the DNS behind each pointer: the registry's own and the copies callers took. `Normalize` is one step per field (`FieldIsSet`, `FieldIsBlank`, `FillField`), `Build` the validation and joining. A text is blank, a word, two dotted words or a padded word, and a host is the words between its dots, so that the parts of two services can join to one host. |
| `ServicePath` | `DnsRegistry` and `ConnectionManager` in one | `Resolve`, `Dial`, `DialProceeds`, `InvokeEnds` are the stages of one `RemoteServiceManaged.Invoke`: the key of the connection cache is what `Build` returned at the time |
| `ServicePathProofs` | | theorems about both, with those of `ConnectionManagerProofs` as an instance |
| `AuthzSign` | `service/authz_context.go`, `authz/verification.go` | operators: the options from configuration (`NewVerificationOptions`), `VerifyAuthzSign` and the claims checks, in the order of the code, with its three errors. A signature is who signed. |
| `ServiceContext` | `service/context.go`, `middleware/grpc/service_context.go` | operators: the context a request gets from headers and from a verified sign, whether it enters, and whom the access log names (`LoggedIdentity`). Of the headers of a verified request only the language is taken |
| `SignPresentation` | the two above in time | one sign presented again and again (`Enter`, `Refuse`) at every endpoint, beside other headers, to services whose clocks are off (`offset`) |
| `ServiceContextProofs` | | lemmas about `AuthzSign` and `ServiceContext`: what a verification establishes and what the entry makes of it |
| `SignPresentationProofs` | | theorems about `SignPresentation` |
| `RequestChain` | `invocation/invoker.go`, `authz/authority_metadata.go` with `ServiceContext` | `hops` is the stack of calls in progress; a hop has the metadata it was called with, and the history `own` whether they were its caller's handler's own. `Resolve`, `DialFails` and `Invoke` are the invoker before, in and after `Dial`; `InterceptorCall` is the client interceptor; `Allow` is the external authz service in front of a hop; `Deliver` the service context interceptor; `Refresh` the token provider. |
| `RequestChainProofs` | | theorems about it |
| `RequestScope` | `service/request_scope.go`, `middleware/grpc/request_scope.go` | one action per way through the interceptor, for a call that meets one of several services; `asking` is the time the authorizer takes. `Refuse` leaves a status in `err`. |
| `ErrorTree` | `werror`, `middleware/grpc/error.go`, and of `errors`, `fmt` and gRPC what those build on | operators. An error is the pre-order of its tree, which is all that `errors.Is`, `errors.As` and `status.FromError` see; a text is the set of words that were written into it. |
| `ServerChain` | `RequestScope` and `ErrorTree` with the access logger: the way out of a handler | `HandlerNext` builds an error in every way business code can (`RaisePlain`, `RaiseNew`, `WrapDefined`, `Annotate`, joins, ...). `ErrorToStatus`, `AccessLogger` and `RequestScopeReturns` see it in the order of the chain; `Answered` is what gRPC sends; `CallerHandles` makes it the error of the handler that called. `claim`, `covered` and `raised` are history: what the error was when it was made. |
| `ServerChainProofs` | | theorems about it, and lemmas about the trees, texts and options of `ErrorTree` |
| `DataAccess` | `access/access.go` | `contexts` are the derived contexts, `policies` the registry and `heap` the slices their decisions and entries point to, so that sharing is visible. `Authorize` asks and validates: a decision that passes is cloned, a refused one is handed back as it is, in the authorizer's slices. `Make` is a decision of the caller's own, and `WithDecision` keeps whichever is in hand. `HolderWrites`, `ReaderWrites`, `AuthorizerWrites` and `BuilderWrites` are those who hold slices; the history `passed` is what `Authorize` let through and for which request |
| `DataAccessProofs` | | theorems about it |
| `MC...` | | constants for TLC |

One seam is modelled on both sides instead of composed: `RequestChain` takes the token provider as a
token that is there or not (`HasToken`, `Refresh`; `ServiceAuthority` says when).

## Runs

Every run ends by itself, the largest in about three minutes with two workers.

| Run | What it asks | Bounds, and why they are enough |
|---|---|---|
| `AuthorityLifecycle` | Does a loop ever escape its owner or block `Start`? Do abandoned loops end, active ones go on, and a `Start` take effect while no context is cancelled? | 3 for `lifecycleID`: `Start`, `Stop` and `Start` again, so an old loop in any place overlaps a new one; one context that can be cancelled and `Background`. The safety part is proved for any number. |
| `AuthorityTimely` | Is there a moment at which an active loop's token is expired? Does the loop wake ahead of expiry? Does a valid token ever give way to one that is not? | two failures in a row, one unit of lateness, token lives just above `TimingMargin` and one above that; proved for every configuration within the margin |
| `AuthorityLostStart` | violation, see Findings | one generation |
| `AuthorityStaleStore` | violation | two token lives |
| `Pool` | Is a connection leaked, doubled, handed out closed, left open? Does the manager implement the atomic pool and answer every dial? | two dials that repeat, two closers, two targets with two spellings of one: a dial race needs two dials, and a third can do nothing that a repeated one cannot; proved for any number, except that dials are answered |
| `ServicePath` | Does every name lead to the target that the list means by it, to that one for ever, and to one connection, shared only with a name that is registered with the same target? | two callers, through the registry or copies, one closer, two connections; lists with two services, two spellings of one, a nameless item, two services whose parts join to one host. Two callers are enough for every race on a blank and on a key. |
| `RegistryRace` | violation | two goroutines, one name |
| `SignPresentation` | Is a sign good for anything but its endpoint, its life and its identity? | four issued signs (user, service, anonymous, without target) and each of them with one claim, kid, algorithm or key changed; options given directly and read from configuration, with a key by kid, with two of them and with the general key alone; headers beside it of every kind that a context is built from; skew 0 and 1; two services, two methods |
| `RequestChain` | Over several hops: whose authority travels, whose identity is in each context, for which endpoint was the decision made, until when may a call run? | three hops (the caller's caller is the farthest whose data could leak), a service for each way out, a handler that adds no metadata, some that travels or some that does not; one unit of token and sign life so that both expire on the way |
| `RequestChainLostUser` | violation | two hops |
| `ServerChain` | Is an explicit scope ever dropped or served without a decision that covers it? Does an error keep what it was on its way to callers and log? | every message over absent, ill-typed, empty and given fields, every decision, two time units; then every error of up to three nodes (a join of two leaves, a wrap of a wrap) through two hops, four orders of interceptors, two sets of options, three catalogs of which one is valid. A second hop is where an answer becomes an error again; a third repeats it. |
| `DataAccess` | Does a context or the registry ever change, lose or mix up what it says? | three contexts, so that one has two descendants or a descendant of a descendant; two actions, one in two spellings; sound and unsound constraints, decisions that pass, are refused or never validated; tables with two spellings of a method and with each kind of invalid entry |

Bounds in the guards: `MaxLifecycleID`, `MaxRetryCount` (the count saturates where the delay is
flat), `MaxDelay`, `MaxTime`, `MaxHops`, `MaxContexts`, `MaxNodes`. The clocks stop at `MaxTime`;
deadlock is checked wherever the system cannot legitimately end (it can in the `Authority` runs,
where the owner runs out of generations, and in `RegistryRace`, where a behaviour ends with the
race).

Fairness. `ServiceAuthority`: goroutines are scheduled, timers fire and a `Stop` that has begun goes
on (weak fairness); `fetch` returns, which is an assumption on the function the service supplies.
`Recovers` in addition assumes, of each loop, that the auth service answers some of the requests that
it makes again and again (strong fairness of success). `ConnectionManager`: a dial or a Close that
has begun is scheduled until it returns, the dial function and `conn.Close` return; weak fairness is
enough because the lock is held across steps only once.

## Proofs

Every safety property of a passing run is a theorem, for every value of the constants that satisfies
the assumptions named below; TLC evaluates those assumptions on the values of each run. Each theorem
follows from an inductive invariant that was model-checked on the instance of the run before it was
proved. The proofs have one lemma per action, and lemmas about the operators of the model are
separate from those about its steps.

**Token provider** (`ServiceAuthorityProofs`), for any number of generations and any options that
the constructor normalises: `TypeCorrect`, `NoOrphan`, `CancelIsCurrent`, `OwnTokenRefreshedAhead`,
and `NoGapTheorem` and `ValidTokenKept` for `TimelySpec` under the assumption `TimingMargin`: the
refresh window and every token life leave room for the failures in a row and the lateness that the
specification allows. `ValidTokenKept` says that a valid token stays, with its expiry, until a valid
one replaces it, except that a loop stopped during its fetch may store an expired one over it.
`DefaultRetryComesTooLate` is about the other side of the margin: where the window is no longer than
the base of the retry formula, as with the default options, a loop that fails within the window
sleeps past the expiry of the token, and no failure at all fits the margin. Two lifecycle
properties, `NoOrphanLoop` and `CancelBelongsToRunningLoop`, are inductive only together
(`LifecycleInv`): that no loop escapes when `Stop` takes the kept cancel function or a clean-up
drops it rests on whose function it is, and that the kept one belongs to a running loop rests on
what is active. `NoGap` needs `AheadInv`, which says for each place of the loop how much of the
token must be left given the failures so far, and that a generation above the counter has not begun.
`RefreshesAheadOfOwn` becomes inductive when it forgets who is active and whose cancel function is
kept (`PlansFromOwn`): a sleep after a success was planned from the cached token, if that is the
loop's own.

**Connection manager** (`ConnectionManagerProofs`): the four safety properties of the pool and that
`Spec` implements the atomic pool, for any numbers. The invariant adds to the properties: who holds
the lock, that a cached connection is published, open and cached under one key only, that a connection
between dial and publication is known to one dial, and that what was handed out stays cached until
Close. The refinement maps the pool to the cache, emptied at the moment Close sets `closed`, and every
dial under way to a pending call; look-ups that go on, dials and the closing of single connections
stutter.

**From a name to a connection** (`ServicePathProofs`), for any list of services and any number of
callers, copies and connections: `ResolvedAsRegistered`, `SettleOnce` and `OneConnectionPerService`
(two names share a connection if and only if their registrations mean one target).
`PathImplementsManager` says that the path does to the manager nothing but what `ConnectionManager`
allows, so that the invariant of the manager is taken over from its proofs (instance `MP`) and only
the registry's half is new. That half (`RegistryInv`) says that a pointer leads to the registered
item of its own name, with some of its blanks filled (`PointersInv`), that the fields a normalising
call has passed are no longer blank and that one about to write overwrites nothing but a blank or
the default (`FillingInv`), and that a call that has built its target has the one meant by the name
in its entry (`BuiltInv`). `LeadsInv` joins the two: the connection of a key was dialled for the one
target that the names of the key resolve to. Assumed: the keys for "no target" and "not found" are
no targets (`PathAssumption`), and callers are no names (`CallersAssumption`).

**Sign verification** (`SignPresentationProofs`, on the lemmas of `ServiceContextProofs`), for any
sign, keys, options, clocks and headers: `OnlyTheKidsKey`, `OneEndpoint`, `IdentityOfTheSign`,
`ExpiredForGood` and `IssuedAccepted`. `PresentationInv` keeps for every endpoint that accepted the
sign that the sign names it, for the context that it is what the entry makes of the last call, in
which other headers change nothing but the language (`OnlyTheLanguage`), and for whoever found the
sign expired that it still is. Assumed: expiry, begin and skew are integers, the options are whole,
an AppId names one service (`EndpointAssumption`), and what the authz service issues is a complete
decision that allows a gRPC call (`IssuedAssumption`). `OneEndpoint` and `IssuedAccepted` have as a
hypothesis that the options leave the endpoint to the entry (`EntryBindsThePath`,
`EntryBindsTheEndpoint`), which is how `NewVerificationOptions` makes them: an option that names a
path of its own binds a sign to that path instead, at whatever method it arrives.

**Call chains** (`RequestChainProofs`), for any services and chains of any length: `CallsInOwnName`,
`NestedDeadlines`, `UserAuthorityKept`, `DecidedHere`, `OneUser` and `FreshWhenSent`. `ChainInv` is
about all hops at once, and every step changes the last one, adds one or takes it away. Whose
authority a hop carries, which sign came with which user (`SignOfItsUser`: the two only ever travel
together), what is kept for a call that waits in `Dial`, and how a hop's deadline lies within that
of the one before are kept apart by hop. That a user authority travels is said of each pair of hops:
a hop carries the user of an earlier one unless a handler in between had metadata of its own
(`Travels`). Assumed: signs come from the authz service and not from clients or handlers, a handler
that makes outgoing metadata does not speak for a user (`HeaderAssumption`), and the services leave
the path to the entry (`OptionsAssumption`).

**Request scope** (`ServerChainProofs`): `NeverFallsBack` and `StartsAuthorized` of the whole chain.
While the authorizer works, the message itself is out of sight of the properties, so that the
invariant (`AskingInv`) keeps that `requested` is still what the message holds in the dimensions of
the policy, and that a context has a scope only inside a handler. It assumes that policies allow no
dimension but the known ones (`ScopeAssumption`). Steps after the handler leave scope and phase alone
(`Quiet`).

**Errors on the way out** (`ServerChainProofs`), for error trees of any size, any number of hops, and
any codes, options, catalogs and mappings, in any order of the interceptors: `FailureStaysFailure`,
`IdentityTravels`, `FoundAsDefined`, `CauseStaysInside` and `LoggedIsAnswered`. The lemmas say of an
error in pre-order what its first node with a status is after a join, an annotation and a wrap
(`Concatenated`, `NodeOver`), and of a list of options which one wins (`GivenConcatenated`).
`OutcomeInv` then says that the claim made when an error was raised is what its first node with a
status says (`Classified`), with two exceptions on the way out: ErrorToStatus may have given a status
to an error that had none, and a typed nil may have become nil. `WordsInv` says that the words of
handlers are numbered as they are written, and that no text repeats a covered one; what ErrorToStatus
writes itself is no handler's word, and only ever replaces texts over which no such word is covered,
since those of covering errors have a status. `LogInv` says that an entry made right after
ErrorToStatus is what will be answered. Assumed (`ErrorsAssumption`): what programs give the library
has the shape its types ask for, an authorizer's error is one, default and mapped messages are not
copied from handlers' texts, and no definition is "no information".

**Data access** (`DataAccessProofs`): all three properties of `DataAccess` for any number of
contexts, words, constraints and policies. The invariant says who owns which slice: the decision of
context `i` for key `k` is in slot `(i, k)`, the registry's entries are in its own, readers have one
of theirs, and the decision in hand has a slot of its own if it passed, while a refused one may
still be the authorizer's; and that a decision that passed, in hand or kept, still says what was let
through (`Vouched`). Nothing is said of what a kept decision allows if it was not validated. A step
either derives a context, into slots that nobody has yet, or leaves all of these alone (`Frame`).

Model-checked only is liveness, which TLAPS cannot prove: `AbandonedLoopEnds`, `KeepsFetching`,
`Recovers`, `StartTakesEffectUncancelled`, and of `ImplementsLivePool` that every dial is answered
(its safety part is the theorem `Implementation`). The runs also stay the only place where the
specifications are seen to reach the cases the properties are about.

## Findings

1. `AuthorityLostStart`: `Start` returns nil and launches nothing while a loop whose parent context
   is cancelled has not yet cleaned up (`authz/authority.go:260`).
2. `AuthorityStaleStore`: a stopped loop may store an older token, or an expired one, over its
   successor's, which then sleeps past the refresh window (`authz/authority.go:343`). What does hold
   is `RefreshesAheadOfOwn`.
3. `RegistryRace`: concurrent calls of one service race on the blanks of the registry's DNS
   (`invocation/dns.go:193`). The race ends when the blanks are filled, and every outcome without a
   torn string is right (`ServicePath`).
4. `RequestChainLostUser`: as soon as a handler has put any header on its outgoing metadata, the
   client interceptor no longer looks at the incoming metadata (`authz/authority_metadata.go:94`),
   so that the user authority stops there, which `authz/README.md:68` says travels on. What does
   hold is `UserAuthorityTravels`.

Seen and not listed as a run, because it depends on how a product puts the parts together, or because
what the repository says of it leaves room:

- With the default options the first retry comes nine minutes after the token has expired
  (`authz/authority.go:405`: a window of one minute, a first retry after ten), although the comment
  at line 374 keeps an unexpired token so that a short network failure does not become an outage.
  The theorem `DefaultRetryComesTooLate` shows it; options within `TimingMargin` have no gap.
- Two services of different namespaces can have parts that join to one host; they then share a
  target and a connection.
- `Authorize` returns a refused decision beside its error, and `WithDataAccessDecision` keeps
  whatever decision it is given. Only what has passed is known to be sound
  (`KeptDecisionsAreSound`).
- In the chain that `middleware/grpc/README.md` recommends, the request scope is outside of
  `ErrorToStatus`: a plain error of an authorizer leaves the service as `Unknown`, although the same
  README (line 77) wants unclassified errors answered as `Internal`.
- Refusals of interceptors outside of the logger are never logged. With the scope interceptor
  between logger and `ErrorToStatus`, or the logger inside of it, log and answer may differ, which
  is why `LoggedIsAnswered` is about the recommended order. A logger outside of the service-context
  interceptor names the caller that the headers claim.
- A typed nil `*werror.Error` is answered with OK, also when it is joined with a real error and
  comes first. `FailureStaysFailure` names this exception.
- `werror.Wrap` appends to the option slice of its caller, which `Definition.Wrap` copies.
- The data-access registry trims method names, so that two spellings of one method are accepted and
  the order of iteration over the map decides which stays; the request-scope registry does not trim.

## Not modelled

Telemetry is a sequence of constructors of the OpenTelemetry SDK and of three shutdowns under one
deadline: no concurrency, and no state on which later calls of this code depend. Configuration is
option setters, decoding and I/O. Logging, host information, constants, the HTTP access log and the
configuration structs are formatting and I/O without state. What can go wrong in telemetry half-way
is listed as a hazard without a property.

Within the modelled parts: cryptography (a signature is its signer), reading PEM keys, durations,
times and JSON, the wire; the details of a structured error; `errors.Is` between two structured
errors, which nothing on the way out of a service asks; the fields of a log entry other than code,
reason, text and caller.

## Plan

Order of work, most important behaviour first:

1. done: token provider, connection pool, registry and the path through both, sign verification, call
   chains, request scope, service errors and the way out, data access with its registry, with their
   runs, and a theorem for every safety property
2. proofs: an abstract token cache that `ServiceAuthority` implements, as `ConnectionManager`
   implements the pool; of `ErrorTree`, that ErrorToStatus applied twice is ErrorToStatus applied
   once; of `RequestScope`, that a decision is never used for another call
