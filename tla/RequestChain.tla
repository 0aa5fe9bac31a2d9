----------------------------- MODULE RequestChain -----------------------------
(***************************************************************************)
(* A client's call and the calls that the services behind it make in turn: *)
(* what each hop sends on (invocation/invoker.go and                       *)
(* authz/authority_metadata.go) and what the next hop makes of it          *)
(* (ServiceContext).                                                       *)
(*                                                                         *)
(* The authz service in front of a hop is external: it may allow a call    *)
(* and attach its sign and the plain identity headers, or the call may     *)
(* pass it by and reach the service with what the caller sent.             *)
(*                                                                         *)
(* Services are records: what ServiceContext looks at, whether a           *)
(* ServiceAuthorityProvider is configured, and how calls go out: through   *)
(* the UnaryInvoker, through the client interceptor of authz, or through   *)
(* both of them.                                                           *)
(***************************************************************************)
EXTENDS ServiceContext

CONSTANTS
    Services, Methods,
    ClientHeaders,   \* metadata a client may send
    HandlerHeaders,  \* outgoing metadata a handler may have put on its context, or:
    NoOutgoing,      \* none was put there
    Options,         \* AuthzSignVerificationOptions of the services
    SigningKey,      \* what the authz service signs with
    SignTTL, TokenTTL, ClientTimeout, InvokeTimeout,
    MaxHops, MaxTime,
    NoContext, NotDialing

ASSUME InputAssumption ==
    /\ {SignTTL, TokenTTL, ClientTimeout, InvokeTimeout, MaxHops} \subseteq Nat \ {0}
    /\ MaxTime \in Nat
    /\ \A s \in Services : s.Outbound \in {"invoker", "interceptor", "both"}
    /\ "" \notin Methods

\* Signs come from the authz service alone, and a handler that makes outgoing metadata
\* does not speak for a user.
ASSUME HeaderAssumption ==
    /\ \A md \in ClientHeaders : "AuthzSign" \notin DOMAIN md
    /\ \A own \in HandlerHeaders \ {NoOutgoing} :
          DOMAIN own \cap {"AuthzSign", "UserAuthority"} = {}

\* The services leave the path they expect to the entry, as NewVerificationOptions does.
ASSUME OptionsAssumption == IsVerificationOptions(Options) /\ Options.TargetPath = ""

VARIABLES
    now,
    token,           \* expiry of the service token each provider has cached, 0: none
    hops,            \* the calls in progress, the client's first
    dialing          \* prepared metadata of the innermost hop's call, until it is sent

vars == <<now, token, hops, dialing>>

Phases == {"sent", "allowed", "serving"}

TypeOK ==
    /\ now \in 0..MaxTime
    /\ token \in [Services -> 0..MaxTime + TokenTTL]
    /\ Len(hops) <= MaxHops
    /\ \A i \in 1..Len(hops) :
         /\ hops[i].service \in Services /\ hops[i].method \in Methods
         /\ hops[i].phase \in Phases
         /\ i < Len(hops) => hops[i].phase = "serving"
         /\ hops[i].phase # "serving" => hops[i].context = NoContext
    /\ dialing # NotDialing => hops # <<>> /\ hops[Len(hops)].phase = "serving"

Init ==
    /\ now = 0
    /\ token = [s \in Services |-> 0]
    /\ hops = <<>>
    /\ dialing = NotDialing

Innermost == hops[Len(hops)]
SetInnermost(hop) == hops' = [hops EXCEPT ![Len(hops)] = hop]
Earlier(a, b) == IF a <= b THEN a ELSE b

\* own is history: whether the call was made from metadata of its handler's own.
Sent(s, m, md, deadline, own) ==
    [service |-> s, method |-> m, md |-> md, deadline |-> deadline, own |-> own,
     phase |-> "sent", context |-> NoContext]

-----------------------------------------------------------------------------
(* What goes out.                                                          *)

\* outgoingAuthorityMetadataAllowlist; Trace stands for the trace headers and the
\* client facts.
\* Mutants: the user's authority is not on it; the user id is.
AllowlistNoUser == {"AuthzSign", "Trace"}
AllowlistWithUserId == {"UserAuthority", "AuthzSign", "Trace", "UserId"}
Allowlist == {"UserAuthority", "AuthzSign", "Trace"}
Filter(md) == [k \in DOMAIN md \cap Allowlist |-> md[k]]

HasToken(s) == token[s] > now

\* PrepareOutgoingAuthorityMetadata; without a valid token the call fails.
\* Mutant: a service authority that is there already is kept.
PrepareKeepsAuthority(s, md) ==
    LET kept == [k \in DOMAIN md \cap (Allowlist \cup {"ServiceAuthority"}) |-> md[k]]
    IN  IF s.Provider /\ "ServiceAuthority" \notin DOMAIN md
        THEN Put(kept, "ServiceAuthority", [app |-> s.AppId, exp |-> token[s]])
        ELSE kept
\* Mutant: an expired token is handed out.
CanPrepareExpired(s) == s.Provider => token[s] > 0
CanPrepare(s) == s.Provider => HasToken(s)
Prepare(s, md) ==
    IF s.Provider
    THEN Put(Filter(md), "ServiceAuthority", [app |-> s.AppId, exp |-> token[s]])
    ELSE Filter(md)

MayCall == hops # <<>> /\ Len(hops) < MaxHops /\ Innermost.phase = "serving"

\* Invoke, up to Dial: a server always has incoming metadata, so whatever the handler
\* put on its context is not used.
Resolve ==
    /\ MayCall
    /\ dialing = NotDialing
    /\ Innermost.service.Outbound # "interceptor"
    /\ CanPrepare(Innermost.service)
    /\ dialing' = Prepare(Innermost.service, Innermost.md)
    /\ UNCHANGED <<now, token, hops>>

DialFails ==
    /\ dialing # NotDialing
    /\ dialing' = NotDialing
    /\ UNCHANGED <<now, token, hops>>

\* Mutant: the timeout replaces the deadline of the call being served.
FreshDeadline(parent) == now + InvokeTimeout
CallDeadline(parent) == Earlier(parent, now + InvokeTimeout)

\* Invoke, after Dial.  The interceptor on the connection prepares once more.
Invoke(s, m) ==
    /\ dialing # NotDialing
    /\ now < Innermost.deadline
    /\ LET from == Innermost.service
           again == from.Outbound = "both"
       IN  /\ again => CanPrepare(from)
           /\ hops' = Append(hops, Sent(s, m,
                IF again THEN Prepare(from, dialing) ELSE dialing,
                CallDeadline(Innermost.deadline), FALSE))
    /\ dialing' = NotDialing
    /\ UNCHANGED <<now, token>>

\* A call on a plain connection with the interceptor.  Outgoing metadata goes first, and
\* what came in is then not looked at, whatever the filter leaves of the other.
InterceptorCall(s, m, own) ==
    /\ MayCall
    /\ dialing = NotDialing
    /\ now < Innermost.deadline
    /\ Innermost.service.Outbound = "interceptor"
    /\ CanPrepare(Innermost.service)
    /\ LET md == IF own = NoOutgoing THEN Innermost.md ELSE own
       IN  hops' = Append(hops, Sent(s, m, Prepare(Innermost.service, md),
                                     Innermost.deadline, own # NoOutgoing))
    /\ UNCHANGED <<now, token, dialing>>

-----------------------------------------------------------------------------
(* What comes in.                                                          *)

ClientCall(s, m, md) ==
    /\ hops = <<>>
    /\ hops' = <<Sent(s, m, md, now + ClientTimeout, FALSE)>>
    /\ UNCHANGED <<now, token, dialing>>

\* The claims of the authz service for a call that it allows.
ClaimsFor(hop) ==
    LET user == Header(hop.md, "UserAuthority")
        caller == IF "ServiceAuthority" \in DOMAIN hop.md
                  THEN hop.md["ServiceAuthority"].app ELSE ""
        type == IF user # "" THEN "user" ELSE IF caller # "" THEN "service"
                ELSE "anonymous"
        invoke == IF type = "user" THEN "app" ELSE caller
    IN  [Issuer |-> "authz", SubjectId |-> IF invoke = "" THEN "anonymous" ELSE invoke,
         SubjectType |-> type,
         UserContext |-> UserOf(user, IF user = "" THEN "" ELSE "app"),
         InvokeAppId |-> invoke, InvokeServiceAppId |-> caller,
         TargetAppId |-> hop.service.AppId, TargetServiceAppId |-> hop.service.AppId,
         RouteMethod |-> GRPC, RoutePath |-> hop.method,
         TargetMethod |-> GRPC, TargetPath |-> hop.method,
         Decision |-> "allow", nbf |-> 0, exp |-> now + SignTTL]

\* It replaces the sign and every plain identity header.
Allow ==
    /\ hops # <<>> /\ Innermost.phase = "sent"
    /\ LET c == ClaimsFor(Innermost)
           identity == [UserId |-> Header(Innermost.md, "UserAuthority"),
                        AppId |-> IF c.SubjectType = "user" THEN "app" ELSE "",
                        SubjectType |-> c.SubjectType, InvokeAppId |-> c.InvokeAppId,
                        TargetAppId |-> c.TargetAppId,
                        AuthzSign |-> [alg |-> EdDSA, kid |-> "default",
                                       signer |-> SigningKey, claims |-> c]]
       IN  SetInnermost([Innermost EXCEPT !.phase = "allowed",
             !.md = [k \in DOMAIN Innermost.md \cup DOMAIN identity |->
                       IF k \in DOMAIN identity THEN identity[k] ELSE Innermost.md[k]]])
    /\ UNCHANGED <<now, token, dialing>>

\* The interceptor lets the call in, with the local identity on its metadata.
Deliver ==
    /\ hops # <<>> /\ Innermost.phase # "serving"
    /\ now < Innermost.deadline
    /\ LET hop == Innermost
       IN  /\ Enters(hop.md, hop.service, hop.method, Options, now)
           /\ SetInnermost([hop EXCEPT !.phase = "serving",
                !.md = WithLocalIdentity(hop.md, hop.service),
                !.context = EntryContext(hop.md, hop.service, hop.method)])
    /\ UNCHANGED <<now, token, dialing>>

\* Refused, answered, or given up by a caller whose deadline is over.
Ends ==
    /\ hops # <<>>
    /\ dialing = NotDialing
    /\ hops' = SubSeq(hops, 1, Len(hops) - 1)
    /\ UNCHANGED <<now, token, dialing>>

-----------------------------------------------------------------------------

\* The refresh loop of a provider stores a token (ServiceAuthority).
Refresh(s) ==
    /\ s.Provider
    /\ token' = [token EXCEPT ![s] = now + TokenTTL]
    /\ UNCHANGED <<now, hops, dialing>>

Tick ==
    /\ now < MaxTime
    /\ now' = now + 1
    /\ UNCHANGED <<token, hops, dialing>>

Next ==
    \/ \E s \in Services, m \in Methods :
         \/ \E md \in ClientHeaders : ClientCall(s, m, md)
         \/ Invoke(s, m)
         \/ \E own \in HandlerHeaders : InterceptorCall(s, m, own)
    \/ Resolve \/ DialFails
    \/ Allow \/ Deliver \/ Ends
    \/ \E s \in Services : Refresh(s)
    \/ Tick

Spec == Init /\ [][Next]_vars

-----------------------------------------------------------------------------
(* Properties.                                                             *)

Inner == 2..Len(hops)
User == Header(hops[1].md, "UserAuthority")

\* A service with a provider never passes the user's authority on without its own, and
\* nobody passes on the authority of the service that called it.
OwnAuthority ==
    \A i \in Inner :
        LET from == hops[i - 1].service
        IN  /\ from.Provider <=> "ServiceAuthority" \in DOMAIN hops[i].md
            /\ from.Provider => hops[i].md["ServiceAuthority"].app = from.AppId

\* Through the interceptor a token leaves that is good at that moment; the invoker
\* alone takes it before Dial.
FreshAuthority ==
    [][Len(hops') > Len(hops) /\ hops # <<>> /\
       Innermost.service.Provider /\ Innermost.service.Outbound # "invoker"
         => hops'[Len(hops')].md["ServiceAuthority"].exp > now]_vars

\* Hop i, or one before it, was called with a handler's own outgoing metadata.
FromOwnMetadata(i) == \E j \in 2..i : hops[j].own

\* The user's authority reaches every hop behind the client's call, up to the first that
\* was called with a handler's own outgoing metadata: the interceptor then looks at that
\* alone, and what was there is gone for the rest of the chain.
UserAuthorityTravels ==
    \A i \in Inner : Header(hops[i].md, "UserAuthority") =
        IF FromOwnMetadata(i) THEN "" ELSE User

\* What the rules of authz promise: a user authority that came in always travels on
\* (authz/README.md, outgoingAuthorityMetadataAllowlist).
UserAuthorityAlwaysTravels ==
    \A i \in Inner : Header(hops[i].md, "UserAuthority") = User

\* Every context behind the first hop, verified or not, is of the client's user or of
\* none; so is the first, if it is verified.
SameUserInContext ==
    \A i \in 1..Len(hops) :
        hops[i].phase = "serving" /\ (i > 1 \/ ~Skips(hops[i].service, hops[i].method))
            => hops[i].context.UserId \in {"", User}

\* Whoever verifies serves on a decision for itself and this method, also when the call
\* came with the sign of an earlier hop.
DecidedForThisHop ==
    \A i \in 1..Len(hops) :
        hops[i].phase = "serving" /\ ~Skips(hops[i].service, hops[i].method) =>
            LET c == hops[i].context.VerifiedAuthzSign
            IN  /\ c.TargetPath = hops[i].method
                /\ c.TargetAppId = hops[i].service.AppId
                /\ c.SubjectType = "user" <=> Header(hops[i].md, "UserAuthority") # ""

\* A call never outlives the call it is made for.
DeadlinesNest ==
    \A i \in Inner : hops[i].deadline <= hops[i - 1].deadline
=============================================================================
