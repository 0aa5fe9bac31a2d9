------------------------- MODULE ServiceContextProofs -------------------------
(***************************************************************************)
(* Lemmas about AuthzSign and ServiceContext: what a verification          *)
(* establishes, what the entry expects of a sign, and what it makes of it. *)
(***************************************************************************)
EXTENDS ServiceContext, TLAPS

\* A sign passes exactly when all the checks do.
LEMMA ValidClaims ==
    ASSUME NEW c, NEW o, NEW t
    PROVE  ValidateAuthzSignClaims(c, o, t) = "ok" <=>
             /\ WellFormedClaims(c, o)
             /\ Live(c, o, t) /\ Begun(c, o, t)
             /\ RouteExpected(c, o) /\ TargetExpected(c, o)
BY DEF ValidateAuthzSignClaims

\* The signature is checked under the key of the sign's kid.
LEMMA VerifiedSign ==
    ASSUME NEW raw, NEW o, NEW t
    PROVE  VerifyAuthzSign(raw, o, t) = "ok" <=>
             /\ raw # MissingSign /\ raw # MalformedSign
             /\ raw.alg = EdDSA
             /\ PublicKeyFor(raw.kid, o) # NoKey
             /\ raw.signer = PublicKeyFor(raw.kid, o)
             /\ ValidateAuthzSignClaims(raw.claims, o, t) = "ok"
BY DEF VerifyAuthzSign, ValidateAuthzSignClaims

\* Only a sign whose time is over is found expired.
LEMMA FoundExpired ==
    ASSUME NEW raw, NEW o, NEW t, VerifyAuthzSign(raw, o, t) = "ErrAuthzSignExpired"
    PROVE  /\ raw # MissingSign /\ raw # MalformedSign
           /\ ~Live(raw.claims, o, t)
BY DEF VerifyAuthzSign, ValidateAuthzSignClaims

\* The entry adds the call's own endpoint to what is expected, and nothing else.
LEMMA ResolvedFields ==
    ASSUME NEW o, IsVerificationOptions(o), NEW m
    PROVE  /\ Resolved(o, m).PublicKeys = o.PublicKeys
           /\ Resolved(o, m).PublicKey = o.PublicKey
           /\ Resolved(o, m).Issuer = o.Issuer
           /\ Resolved(o, m).RouteMethod = o.RouteMethod
           /\ Resolved(o, m).RoutePath = o.RoutePath
           /\ Resolved(o, m).ClockSkew = o.ClockSkew
           /\ Resolved(o, m).TargetMethod =
                IF o.TargetMethod = "" THEN GRPC ELSE o.TargetMethod
           /\ Resolved(o, m).TargetPath =
                IF o.TargetPath = "" THEN m ELSE o.TargetPath
BY DEF IsVerificationOptions, Resolved

\* The local identity is the one header the entry writes.
LEMMA LocalIdentityKeeps ==
    ASSUME NEW s, NEW md
    PROVE  /\ DOMAIN WithLocalIdentity(md, s) \ {"ServiceAppId"} =
                DOMAIN md \ {"ServiceAppId"}
           /\ \A k \in DOMAIN md \ {"ServiceAppId"} :
                WithLocalIdentity(md, s)[k] = md[k]
           /\ \A k : k # "ServiceAppId" =>
                Header(WithLocalIdentity(md, s), k) = Header(md, k)
           /\ SignHeader(WithLocalIdentity(md, s)) = SignHeader(md)
BY DEF WithLocalIdentity, Put, Header, SignHeader

\* What the entry has found out about the sign of a call that it lets in and does not
\* skip.
Established(raw, s, m, o, t) ==
    /\ raw # MissingSign /\ raw # MalformedSign
    /\ raw.alg = EdDSA
    /\ PublicKeyFor(raw.kid, o) # NoKey
    /\ raw.signer = PublicKeyFor(raw.kid, o)
    /\ raw.claims.TargetAppId = s.AppId
    /\ Live(raw.claims, o, t)
    /\ o.TargetPath = "" /\ m # "" => EffectiveTarget(raw.claims).path = m

LEMMA EntryVerifies ==
    ASSUME NEW md, NEW s, NEW m, NEW o, IsVerificationOptions(o), NEW t,
           ~Skips(s, m), Enters(md, s, m, o, t)
    PROVE  Established(SignHeader(md), s, m, o, t)
<1> DEFINE raw == SignHeader(md)
           here == Resolved(o, m)
<1>1. Admits(WithLocalIdentity(md, s), s, here, t)
  BY DEF Enters
<1>2. VerifyAuthzSign(raw, here, t) = "ok" /\ raw.claims.TargetAppId = s.AppId
  BY <1>1, LocalIdentityKeeps DEF Admits
<1>3. PublicKeyFor(raw.kid, here) = PublicKeyFor(raw.kid, o)
  BY ResolvedFields DEF PublicKeyFor
<1>4. Live(raw.claims, here, t) /\ TargetExpected(raw.claims, here)
  BY <1>2, VerifiedSign, ValidClaims
<1>5. Live(raw.claims, o, t)
  BY <1>4, ResolvedFields DEF Live
<1>6. o.TargetPath = "" /\ m # "" => EffectiveTarget(raw.claims).path = m
  BY <1>4, ResolvedFields DEF TargetExpected
<1> HIDE DEF raw, here
<1>7. /\ raw # MissingSign /\ raw # MalformedSign /\ raw.alg = EdDSA
      /\ PublicKeyFor(raw.kid, o) # NoKey /\ raw.signer = PublicKeyFor(raw.kid, o)
  BY <1>2, <1>3, VerifiedSign
<1>8. QED
  BY <1>2, <1>5, <1>6, <1>7 DEF Established, raw

\* What an entry makes of a sign is a matter of the claims, of its own AppId, and of
\* the language the client asks for.
ContextFromSign(s, c, language) ==
    [ServiceAppId |-> s.AppId,
     AppLanguage |-> language,
     UserId |-> IF c.UserContext = NoUser THEN "" ELSE c.UserContext.UserId,
     AppId |-> IF c.UserContext = NoUser THEN "" ELSE c.UserContext.AppId,
     SubjectType |-> c.SubjectType, InvokeAppId |-> c.InvokeAppId,
     TargetAppId |-> c.TargetAppId, UserContext |-> c.UserContext,
     InvokeServiceAppId |-> c.InvokeServiceAppId,
     TargetServiceAppId |-> c.TargetServiceAppId,
     VerifiedAuthzSign |-> c]

\* The language is a field of its own.
LEMMA OnlyTheLanguage ==
    ASSUME NEW s, NEW c, NEW l, NEW k
    PROVE  [ContextFromSign(s, c, l) EXCEPT !.AppLanguage = k] =
             ContextFromSign(s, c, k)
<1> DEFINE user == IF c.UserContext = NoUser THEN "" ELSE c.UserContext.UserId
           app == IF c.UserContext = NoUser THEN "" ELSE c.UserContext.AppId
<1>1. \A x : ContextFromSign(s, c, x) =
        [ServiceAppId |-> s.AppId, AppLanguage |-> x, UserId |-> user,
         AppId |-> app, SubjectType |-> c.SubjectType,
         InvokeAppId |-> c.InvokeAppId, TargetAppId |-> c.TargetAppId,
         UserContext |-> c.UserContext,
         InvokeServiceAppId |-> c.InvokeServiceAppId,
         TargetServiceAppId |-> c.TargetServiceAppId, VerifiedAuthzSign |-> c]
  BY Zenon DEF ContextFromSign
<1> HIDE DEF user, app
<1>2. QED
  BY <1>1, SMTT(30)

LEMMA VerifiedEntry ==
    ASSUME NEW md, NEW s, NEW m, ~Skips(s, m)
    PROVE  EntryContext(md, s, m) =
             ContextFromSign(s, SignHeader(md).claims, Header(md, "AppLanguage"))
<1>1. /\ SignHeader(WithLocalIdentity(md, s)) = SignHeader(md)
      /\ Header(WithLocalIdentity(md, s), "AppLanguage") = Header(md, "AppLanguage")
  BY LocalIdentityKeeps
<1>2. QED
  BY <1>1 DEF EntryContext, ApplyVerifiedAuthzSign, BuildContext, ContextFromSign

\* Where nothing is verified, the user is the one the caller names.
LEMMA SkippedEntry ==
    ASSUME NEW md, NEW s, NEW m, Skips(s, m)
    PROVE  /\ EntryContext(md, s, m).UserId = Header(md, "UserId")
           /\ EntryContext(md, s, m).VerifiedAuthzSign = NotVerified
BY LocalIdentityKeeps DEF EntryContext, BuildContext
=============================================================================
