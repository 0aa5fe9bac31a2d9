------------------------------ MODULE AuthzSign ------------------------------
(***************************************************************************)
(* What service/authz_context.go accepts as an x-firefly-authz-sign: the   *)
(* compact JWS that the authz service attaches to a call it allows, and    *)
(* that a business service verifies on its own (VerifyAuthzSign).          *)
(*                                                                         *)
(* A sign is a record of what the verification looks at.  Texts are        *)
(* strings, "" is the empty one.  A compact JWS is [alg, kid, signer,      *)
(* claims]: the signature verifies under key k exactly when k = signer.    *)
(* MissingSign and MalformedSign are the raw values that do not parse.     *)
(* Times are integers; exp and nbf are 0 when absent.                      *)
(***************************************************************************)
EXTENDS Integers, Sequences

CONSTANTS MissingSign, MalformedSign, NoUser, NoKey

EdDSA == "EdDSA"
GRPC == "GRPC"

\* strings.EqualFold on route and target methods.
Fold(method) == IF method = "grpc" THEN GRPC ELSE method
EqualFold(a, b) == Fold(a) = Fold(b)

\* The fields of AuthzSignVerificationOptions that the verification reads.
IsVerificationOptions(o) ==
    o = [PublicKeys |-> o.PublicKeys, PublicKey |-> o.PublicKey, Issuer |-> o.Issuer,
         RouteMethod |-> o.RouteMethod, RoutePath |-> o.RoutePath,
         TargetMethod |-> o.TargetMethod, TargetPath |-> o.TargetPath,
         ClockSkew |-> o.ClockSkew]

\* NewVerificationOptions (authz/verification.go): one key, read from a file, under one
\* kid.  In the configuration cfg, ClockSkew is <<>> when it is left out; the key is what
\* the file holds, or NoKey.
DefaultKid == "default"
DefaultIssuer == "authz"
DefaultClockSkew == 5
ValidVerification(cfg) ==
    /\ cfg.PublicKeyPath # "" /\ cfg.PublicKey # NoKey
    /\ \A i \in DOMAIN cfg.ClockSkew : cfg.ClockSkew[i] >= 0
NewVerificationOptions(cfg) ==
    LET kid == IF cfg.Kid = "" THEN DefaultKid ELSE cfg.Kid
    IN  [PublicKeys |-> [k \in {kid} |-> cfg.PublicKey], PublicKey |-> NoKey,
         Issuer |-> IF cfg.Issuer = "" THEN DefaultIssuer ELSE cfg.Issuer,
         RouteMethod |-> "", RoutePath |-> "", TargetMethod |-> "", TargetPath |-> "",
         ClockSkew |-> IF cfg.ClockSkew = <<>> THEN DefaultClockSkew
                       ELSE cfg.ClockSkew[1]]

\* resolveAuthzSignPublicKey: the key of that kid as soon as a set of keys is
\* configured, the single key otherwise.
\* Mutant: the single key stands in for an unknown kid.
PublicKeyWithFallback(kid, options) ==
    IF kid \in DOMAIN options.PublicKeys THEN options.PublicKeys[kid]
    ELSE options.PublicKey
PublicKeyFor(kid, options) ==
    IF DOMAIN options.PublicKeys = {} THEN options.PublicKey
    ELSE IF kid \in DOMAIN options.PublicKeys THEN options.PublicKeys[kid]
    ELSE NoKey

\* effectiveAuthzTarget: a sign without a target of its own is bound by its route,
\* if that is a gRPC route.
EffectiveTarget(c) ==
    IF c.TargetMethod # "" \/ c.TargetPath # ""
    THEN [method |-> c.TargetMethod, path |-> c.TargetPath]
    ELSE IF EqualFold(c.RouteMethod, GRPC)
    THEN [method |-> c.RouteMethod, path |-> c.RoutePath]
    ELSE [method |-> "", path |-> ""]

\* The least a sign must say: subject, target and route.
Complete(c) ==
    /\ c.SubjectId # "" /\ c.SubjectType # ""
    /\ c.TargetAppId # "" /\ c.TargetServiceAppId # ""
    /\ c.RouteMethod # "" /\ c.RoutePath # ""
    /\ c.SubjectType # "anonymous" => c.InvokeAppId # ""

\* Who calls is named twice, and the two must agree.
\* Mutant: a user's app is not compared with the invoking one.
ConsistentServiceOnly(c) ==
    /\ c.TargetAppId = c.TargetServiceAppId
    /\ c.SubjectType = "user" =>
         c.UserContext # NoUser /\ c.UserContext.UserId # "" /\ c.UserContext.AppId # ""
    /\ c.SubjectType = "service" =>
         c.InvokeServiceAppId # "" /\ c.InvokeAppId = c.InvokeServiceAppId
Consistent(c) ==
    /\ c.TargetAppId = c.TargetServiceAppId
    /\ c.SubjectType = "user" =>
         /\ c.UserContext # NoUser
         /\ c.UserContext.UserId # "" /\ c.UserContext.AppId # ""
         /\ c.InvokeAppId = c.UserContext.AppId
    /\ c.SubjectType = "service" =>
         c.InvokeServiceAppId # "" /\ c.InvokeAppId = c.InvokeServiceAppId

\* The claims that do not depend on the time.
WellFormedClaims(c, options) ==
    /\ options.Issuer # "" => c.Issuer = options.Issuer
    /\ Complete(c)
    /\ Consistent(c)
    /\ c.Decision = "allow"
    /\ (c.TargetMethod = "") = (c.TargetPath = "")

\* Mutants: the skew is allowed for on the wrong side; only a missing exp counts.
LiveForEver(c, options, now) == c.exp > 0
LiveSkewReversed(c, options, now) == c.exp > 0 /\ now + options.ClockSkew < c.exp
Live(c, options, now) == c.exp > 0 /\ now - options.ClockSkew < c.exp
Begun(c, options, now) == c.nbf > 0 => now + options.ClockSkew >= c.nbf

\* What the entry expects, where it expects anything.
RouteExpected(c, options) ==
    /\ options.RouteMethod # "" => EqualFold(c.RouteMethod, options.RouteMethod)
    /\ options.RoutePath # "" => c.RoutePath = options.RoutePath
TargetExpected(c, options) ==
    LET target == EffectiveTarget(c)
    IN  /\ options.TargetMethod # "" =>
             target.method # "" /\ EqualFold(target.method, options.TargetMethod)
        /\ options.TargetPath # "" =>
             target.path # "" /\ target.path = options.TargetPath

ValidateAuthzSignClaims(c, options, now) ==
    IF ~WellFormedClaims(c, options) THEN "ErrAuthzSignInvalidClaims"
    ELSE IF ~Live(c, options, now) THEN "ErrAuthzSignExpired"
    ELSE IF ~Begun(c, options, now) THEN "ErrAuthzSignNotYetValid"
    ELSE IF ~RouteExpected(c, options) \/ ~TargetExpected(c, options)
    THEN "ErrAuthzSignInvalidClaims"
    ELSE "ok"

VerifyAuthzSign(raw, options, now) ==
    IF raw = MissingSign THEN "ErrAuthzSignMissing"
    ELSE IF raw = MalformedSign THEN "ErrAuthzSignMalformed"
    ELSE IF raw.alg # EdDSA THEN "ErrAuthzSignUnsupportedAlg"
    ELSE LET key == PublicKeyFor(raw.kid, options)
         IN  IF key = NoKey THEN "ErrAuthzSignPublicKeyMissing"
             ELSE IF raw.signer # key THEN "ErrAuthzSignInvalidSignature"
             ELSE ValidateAuthzSignClaims(raw.claims, options, now)
=============================================================================
