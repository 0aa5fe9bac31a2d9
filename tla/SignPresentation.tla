--------------------------- MODULE SignPresentation ---------------------------
(***************************************************************************)
(* One authz sign, presented again and again: to several services and      *)
(* methods, beside whatever other headers, as time passes.  The clock of   *)
(* each service is off by at most ClockSkew from the clock of the authz    *)
(* service, which is "now" here.                                           *)
(***************************************************************************)
EXTENDS ServiceContext, FiniteSets

CONSTANTS
    Signs,           \* raw signs
    IssuedSigns,     \* those the authz service issues for a call it allows
    OptionSets,      \* AuthzSignVerificationOptions a service may run with
    Services,        \* [AppId, Verifies, AuthzSkipMethods]
    Methods,
    HeaderSets,      \* the other metadata of a call
    MaxTime,
    NoCall           \* no presentation yet, or no context from it

ASSUME OptionsAssumption ==
    \A o \in OptionSets : IsVerificationOptions(o) /\ o.ClockSkew \in Nat

\* exp and nbf are int64, and the sign is not among the other metadata of a call.
ASSUME InputAssumption ==
    /\ \A raw \in Signs \ {MissingSign, MalformedSign} :
          raw.claims.exp \in Int /\ raw.claims.nbf \in Int
    /\ \A md \in HeaderSets : "AuthzSign" \notin DOMAIN md
    /\ MaxTime \in Nat

\* An AppId names one service, and gRPC gives every method a name.
ASSUME EndpointAssumption ==
    /\ \A s, t \in Services : s.AppId = t.AppId => s = t
    /\ "" \notin Methods

\* The authz service's side: what it issues is a complete decision to allow a gRPC call,
\* made in the name that the services expect.
ASSUME IssuedAssumption ==
    \A raw \in IssuedSigns :
        /\ raw \in Signs \ {MissingSign, MalformedSign}
        /\ raw.alg = EdDSA /\ raw.signer # NoKey
        /\ \A o \in OptionSets : WellFormedClaims(raw.claims, o)
        /\ raw.claims.exp > 0
        /\ EqualFold(EffectiveTarget(raw.claims).method, GRPC)

VARIABLES
    sign, options,   \* the sign and the configuration of this behaviour
    offset,          \* each service's clock minus the authz clock
    now,
    call,            \* the last presentation: [service, method, md]
    context,         \* the service.Context it led to
    acceptedAt,      \* endpoints that verified the sign
    foundExpiredBy   \* services that have refused it as expired

vars == <<sign, options, offset, now, call, context, acceptedAt, foundExpiredBy>>

Endpoints == Services \X Methods

TypeOK ==
    /\ sign \in Signs /\ options \in OptionSets
    /\ offset \in [Services -> -options.ClockSkew..options.ClockSkew]
    /\ now \in 0..MaxTime
    /\ call = NoCall \/ call \in [service : Services, method : Methods, md : HeaderSets]
    /\ acceptedAt \subseteq Endpoints
    /\ foundExpiredBy \subseteq Services

Init ==
    /\ sign \in Signs /\ options \in OptionSets
    /\ offset \in [Services -> -options.ClockSkew..options.ClockSkew]
    /\ now = 0
    /\ call = NoCall
    /\ context = NoCall
    /\ acceptedAt = {}
    /\ foundExpiredBy = {}

Tick ==
    /\ now < MaxTime
    /\ now' = now + 1
    /\ call' = NoCall
    /\ context' = NoCall
    /\ UNCHANGED <<sign, options, offset, acceptedAt, foundExpiredBy>>

Signed(md) == IF sign = MissingSign THEN md ELSE Put(md, "AuthzSign", sign)

Enter(s, m, md) ==
    /\ Enters(Signed(md), s, m, options, now + offset[s])
    /\ call' = [service |-> s, method |-> m, md |-> md]
    /\ context' = EntryContext(Signed(md), s, m)
    /\ acceptedAt' = IF Skips(s, m) THEN acceptedAt ELSE acceptedAt \cup {<<s, m>>}
    /\ UNCHANGED <<sign, options, offset, now, foundExpiredBy>>

\* The interceptor answers Unauthenticated.
Refuse(s, m, md) ==
    /\ ~Enters(Signed(md), s, m, options, now + offset[s])
    /\ call' = [service |-> s, method |-> m, md |-> md]
    /\ context' = NoCall
    /\ LET outcome == VerifyAuthzSign(sign, Resolved(options, m), now + offset[s])
       IN  foundExpiredBy' = IF outcome = "ErrAuthzSignExpired"
                             THEN foundExpiredBy \cup {s} ELSE foundExpiredBy
    /\ UNCHANGED <<sign, options, offset, now, acceptedAt>>

Next ==
    \/ Tick
    \/ \E s \in Services, m \in Methods, md \in HeaderSets :
          Enter(s, m, md) \/ Refuse(s, m, md)

Spec == Init /\ [][Next]_vars

-----------------------------------------------------------------------------
(* Properties.                                                             *)

Verified == context # NoCall /\ context.VerifiedAuthzSign # NotVerified

\* A sign that one endpoint has accepted is of no use at any other, whatever form of
\* target it carries and however it got there.
BoundToOneEndpoint == Cardinality(acceptedAt) <= 1

\* The identity in the claims, and the service itself as their target.
SignedIdentity(c) ==
    [ServiceAppId |-> c.TargetAppId,
     UserId |-> IF c.UserContext = NoUser THEN "" ELSE c.UserContext.UserId,
     AppId |-> IF c.UserContext = NoUser THEN "" ELSE c.UserContext.AppId,
     SubjectType |-> c.SubjectType, InvokeAppId |-> c.InvokeAppId,
     TargetAppId |-> c.TargetAppId]

\* With the exception of AppLanguage, which is the client's own preference, what a
\* verified context says does not depend on the other headers of the call, and the
\* access log then tells the identity in the sign and no other.
IdentityFromSignOnly ==
    Verified => \A md \in HeaderSets :
        /\ EntryContext(Signed(md), call.service, call.method) =
             [context EXCEPT !.AppLanguage = Header(md, "AppLanguage")]
        /\ LoggedIdentity(Signed(md), TRUE, context) = SignedIdentity(sign.claims)

\* Only a sign under the key configured for its kid enters.
KeyIsTheKids ==
    acceptedAt # {} =>
        /\ sign.alg = EdDSA
        /\ \/ sign.kid \in DOMAIN options.PublicKeys /\
              sign.signer = options.PublicKeys[sign.kid]
           \/ DOMAIN options.PublicKeys = {} /\ sign.signer = options.PublicKey

\* No service lets a call in on a sign that is two clock skews past its end, and one
\* that has refused it as expired never accepts it again.
ExpiryIsFinal ==
    [][Verified' /\ call' # call =>
         /\ call'.service \notin foundExpiredBy
         /\ now < sign.claims.exp + 2 * options.ClockSkew]_vars

\* A sign as the authz service issues it is good at its endpoint for all of its life,
\* although the clocks differ, where the key it was signed with is configured.
IssuedIsGood ==
    call # NoCall /\ sign \in IssuedSigns /\
    PublicKeyFor(sign.kid, options) = sign.signer /\
    now \in sign.claims.nbf..sign.claims.exp - 1 /\
    call.service.AppId = sign.claims.TargetAppId /\
    call.method = EffectiveTarget(sign.claims).path =>
        Enters(Signed(call.md), call.service, call.method, options,
               now + offset[call.service])
=============================================================================
