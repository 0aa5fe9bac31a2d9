----------------------- MODULE SignPresentationProofs -----------------------
(***************************************************************************)
(* Theorems about SignPresentation: for every sign, configuration, clock   *)
(* and metadata.                                                           *)
(***************************************************************************)
EXTENDS SignPresentation, ServiceContextProofs, FiniteSetTheorems

\* The sign the entry looks at is the one presented, whatever is sent beside it.
LEMMA PresentedSign ==
    ASSUME NEW md \in HeaderSets
    PROVE  SignHeader(Signed(md)) = sign
BY InputAssumption DEF Signed, SignHeader, Put

\* What a service has found out when it lets in a call that it does not skip.
LEMMA Admitted ==
    ASSUME NEW s \in Services, NEW m \in Methods, NEW md \in HeaderSets, NEW t,
           options \in OptionSets, ~Skips(s, m), Enters(Signed(md), s, m, options, t)
    PROVE  /\ sign # MissingSign /\ sign # MalformedSign
           /\ sign.alg = EdDSA
           /\ PublicKeyFor(sign.kid, options) # NoKey
           /\ sign.signer = PublicKeyFor(sign.kid, options)
           /\ sign.claims.TargetAppId = s.AppId
           /\ Live(sign.claims, options, t)
           /\ options.TargetPath = "" => EffectiveTarget(sign.claims).path = m
<1>1. SignHeader(Signed(md)) = sign
  BY PresentedSign
<1>2. IsVerificationOptions(options) /\ m # ""
  BY OptionsAssumption, EndpointAssumption
<1>3. Established(SignHeader(Signed(md)), s, m, options, t)
  BY <1>2, EntryVerifies
<1>4. QED
  BY <1>1, <1>2, <1>3 DEF Established

-----------------------------------------------------------------------------
(* Types.                                                                  *)

LEMMA InitType == Init => TypeOK
BY InputAssumption DEF Init, TypeOK

LEMMA NextType == TypeOK /\ [Next]_vars => TypeOK'
<1> SUFFICES ASSUME TypeOK, [Next]_vars PROVE TypeOK'
  OBVIOUS
<1> USE DEF TypeOK
<1>1. CASE UNCHANGED vars
  BY <1>1 DEF vars
<1>2. CASE Tick
  BY <1>2, InputAssumption DEF Tick
<1>3. ASSUME NEW s \in Services, NEW m \in Methods, NEW md \in HeaderSets,
             Enter(s, m, md)
      PROVE  TypeOK'
  BY <1>3 DEF Enter, Endpoints
<1>4. ASSUME NEW s \in Services, NEW m \in Methods, NEW md \in HeaderSets,
             Refuse(s, m, md)
      PROVE  TypeOK'
  BY <1>4 DEF Refuse
<1>5. QED
  BY <1>1, <1>2, <1>3, <1>4 DEF Next

\* Every variable keeps its type, the clocks stay within their skew.
THEOREM TypeCorrect == Spec => []TypeOK
BY InitType, NextType, PTL DEF Spec

-----------------------------------------------------------------------------
(* What an acceptance, a context and a refusal leave behind.               *)

\* The key that let the sign in.
KeyFits ==
    /\ sign # MissingSign /\ sign # MalformedSign
    /\ sign.alg = EdDSA
    /\ PublicKeyFor(sign.kid, options) # NoKey
    /\ sign.signer = PublicKeyFor(sign.kid, options)

\* An endpoint that accepted is the one the claims name.
NamedEndpoint(e) ==
    /\ KeyFits
    /\ sign.claims.TargetAppId = e[1].AppId
    /\ options.TargetPath = "" => EffectiveTarget(sign.claims).path = e[2]

AcceptedInv == \A e \in acceptedAt : NamedEndpoint(e)

\* A context stems from the last call.
ContextInv ==
    context # NoCall =>
        \E s \in Services, m \in Methods, md \in HeaderSets :
            /\ call = [service |-> s, method |-> m, md |-> md]
            /\ context = EntryContext(Signed(md), s, m)
            /\ ~Skips(s, m) => <<s, m>> \in acceptedAt

\* Where the sign was found expired it still is.
ExpiredInv ==
    \A s \in foundExpiredBy :
        /\ sign # MissingSign /\ sign # MalformedSign
        /\ ~Live(sign.claims, options, now + offset[s])

PresentationInv == AcceptedInv /\ ContextInv /\ ExpiredInv

LEMMA EnterKeepsInv ==
    ASSUME TypeOK, PresentationInv, NEW s \in Services, NEW m \in Methods,
           NEW md \in HeaderSets, Enter(s, m, md)
    PROVE  PresentationInv'
<1>1. UNCHANGED <<sign, options, offset, now, foundExpiredBy>>
  BY DEF Enter
<1>2. options \in OptionSets
  BY DEF TypeOK
<1>3. ~Skips(s, m) => NamedEndpoint(<<s, m>>)
  BY <1>2, Admitted DEF Enter, KeyFits, NamedEndpoint
<1>4. AcceptedInv'
  BY <1>1, <1>3 DEF PresentationInv, AcceptedInv, Enter, NamedEndpoint, KeyFits
<1>5. ContextInv'
  <2>1. /\ call' = [service |-> s, method |-> m, md |-> md]
        /\ context' = EntryContext(Signed(md), s, m)
        /\ ~Skips(s, m) => <<s, m>> \in acceptedAt'
    BY DEF Enter
  <2>2. Signed(md)' = Signed(md)
    BY <1>1 DEF Signed
  <2>3. QED
    BY <2>1, <2>2 DEF ContextInv
<1>6. ExpiredInv'
  BY <1>1 DEF PresentationInv, ExpiredInv
<1>7. QED
  BY <1>4, <1>5, <1>6 DEF PresentationInv

LEMMA RefuseKeepsInv ==
    ASSUME TypeOK, PresentationInv, NEW s \in Services, NEW m \in Methods,
           NEW md \in HeaderSets, Refuse(s, m, md)
    PROVE  PresentationInv'
<1>1. UNCHANGED <<sign, options, offset, now, acceptedAt>> /\ context' = NoCall
  BY DEF Refuse
<1>2. \A r \in foundExpiredBy' \ foundExpiredBy :
        /\ sign # MissingSign /\ sign # MalformedSign
        /\ ~Live(sign.claims, options, now + offset[r])
  <2> SUFFICES ASSUME VerifyAuthzSign(sign, Resolved(options, m), now + offset[s])
                          = "ErrAuthzSignExpired"
               PROVE  /\ sign # MissingSign /\ sign # MalformedSign
                      /\ ~Live(sign.claims, options, now + offset[s])
    BY DEF Refuse
  <2>1. /\ sign # MissingSign /\ sign # MalformedSign
        /\ ~Live(sign.claims, Resolved(options, m), now + offset[s])
    BY FoundExpired
  <2>2. Resolved(options, m).ClockSkew = options.ClockSkew
    BY ResolvedFields, OptionsAssumption DEF TypeOK
  <2>3. QED
    BY <2>1, <2>2 DEF Live
<1>3. ExpiredInv'
  BY <1>1, <1>2 DEF PresentationInv, ExpiredInv
<1>4. AcceptedInv'
  BY <1>1 DEF PresentationInv, AcceptedInv, NamedEndpoint, KeyFits
<1>5. QED
  BY <1>1, <1>3, <1>4 DEF PresentationInv, ContextInv

\* What is over stays over: the clocks only move forward.
LEMMA TickKeepsInv ==
    ASSUME TypeOK, PresentationInv, Tick
    PROVE  PresentationInv'
<1>1. /\ UNCHANGED <<sign, options, offset, acceptedAt, foundExpiredBy>>
      /\ context' = NoCall /\ now' = now + 1
  BY DEF Tick
<1>2. ExpiredInv'
  <2> SUFFICES ASSUME NEW s \in foundExpiredBy
               PROVE  /\ sign # MissingSign /\ sign # MalformedSign
                      /\ ~Live(sign.claims, options, now + 1 + offset[s])
    BY <1>1 DEF ExpiredInv
  <2>1. /\ sign # MissingSign /\ sign # MalformedSign
        /\ ~Live(sign.claims, options, now + offset[s])
    BY DEF PresentationInv, ExpiredInv
  <2>2. /\ sign.claims.exp \in Int /\ options.ClockSkew \in Nat
        /\ now \in Int /\ offset[s] \in Int
    BY <2>1, InputAssumption, OptionsAssumption DEF TypeOK
  <2>3. QED
    BY <2>1, <2>2 DEF Live
<1>3. AcceptedInv'
  BY <1>1 DEF PresentationInv, AcceptedInv, NamedEndpoint, KeyFits
<1>4. QED
  BY <1>1, <1>2, <1>3 DEF PresentationInv, ContextInv

LEMMA NextInv == TypeOK /\ PresentationInv /\ [Next]_vars => PresentationInv'
<1> SUFFICES ASSUME TypeOK, PresentationInv, [Next]_vars PROVE PresentationInv'
  OBVIOUS
<1>1. CASE UNCHANGED vars
  BY <1>1 DEF vars, PresentationInv, AcceptedInv, ContextInv, ExpiredInv,
              NamedEndpoint, KeyFits, Signed
<1>2. CASE Next
  BY <1>2, EnterKeepsInv, RefuseKeepsInv, TickKeepsInv DEF Next
<1>3. QED
  BY <1>1, <1>2

LEMMA Presentation == Spec => []PresentationInv
<1>1. Init => PresentationInv
  BY DEF Init, PresentationInv, AcceptedInv, ContextInv, ExpiredInv
<1>2. QED
  BY <1>1, NextInv, TypeCorrect, PTL DEF Spec

-----------------------------------------------------------------------------
(* The properties.                                                         *)

\* Nothing but the key configured for the kid of a sign lets it in.
THEOREM OnlyTheKidsKey == Spec => []KeyIsTheKids
<1>1. PresentationInv => KeyIsTheKids
  BY DEF PresentationInv, AcceptedInv, NamedEndpoint, KeyFits, PublicKeyFor,
         KeyIsTheKids
<1>2. QED
  BY <1>1, Presentation, PTL

\* The services leave the path to the entry, as NewVerificationOptions does.
EntryBindsThePath == \A o \in OptionSets : o.TargetPath = ""

\* Then a sign is of use at one endpoint, whatever the number of services and methods.
THEOREM OneEndpoint == EntryBindsThePath /\ Spec => []BoundToOneEndpoint
<1>1. EntryBindsThePath /\ TypeOK /\ PresentationInv => BoundToOneEndpoint
  <2> SUFFICES ASSUME EntryBindsThePath, TypeOK, PresentationInv
               PROVE  BoundToOneEndpoint
    OBVIOUS
  <2>1. \A d, e \in acceptedAt : d = e
    <3> SUFFICES ASSUME NEW d \in acceptedAt, NEW e \in acceptedAt PROVE d = e
      OBVIOUS
    <3>1. /\ d = <<d[1], d[2]>> /\ d[1] \in Services
          /\ e = <<e[1], e[2]>> /\ e[1] \in Services
      BY DEF TypeOK, Endpoints
    <3>2. d[1].AppId = e[1].AppId /\ d[2] = e[2]
      <4>1. NamedEndpoint(d) /\ NamedEndpoint(e)
        BY DEF PresentationInv, AcceptedInv
      <4>2. options.TargetPath = ""
        BY DEF EntryBindsThePath, TypeOK
      <4>3. QED
        BY <4>1, <4>2 DEF NamedEndpoint
    <3>3. d[1] = e[1]
      BY <3>1, <3>2, EndpointAssumption
    <3>4. QED
      BY <3>1, <3>2, <3>3
  <2>2. CASE acceptedAt = {}
    BY <2>2, FS_EmptySet DEF BoundToOneEndpoint
  <2>3. CASE acceptedAt # {}
    <3>1. PICK e : acceptedAt = {e}
      BY <2>1, <2>3
    <3>2. Cardinality(acceptedAt) = 1
      BY <3>1, FS_Singleton, Zenon
    <3>3. QED
      BY <3>2 DEF BoundToOneEndpoint
  <2>4. QED
    BY <2>2, <2>3
<1>2. EntryBindsThePath => EntryBindsThePath'
  BY DEF EntryBindsThePath
<1>3. QED
  BY <1>1, <1>2, Presentation, TypeCorrect, PTL

\* What is logged of it is the identity in the claims.
LEMMA LoggedAsSigned ==
    ASSUME NEW s, NEW c, NEW l, NEW md, c.TargetAppId = s.AppId
    PROVE  LoggedIdentity(md, TRUE, ContextFromSign(s, c, l)) = SignedIdentity(c)
<1> DEFINE ctx == ContextFromSign(s, c, l)
           who == SignedIdentity(c)
<1>1. /\ ctx.ServiceAppId = who.ServiceAppId
      /\ ctx.UserId = who.UserId
      /\ ctx.AppId = who.AppId
      /\ ctx.SubjectType = who.SubjectType
      /\ ctx.InvokeAppId = who.InvokeAppId
      /\ ctx.TargetAppId = who.TargetAppId
  BY DEF ContextFromSign, SignedIdentity
<1>2. who = [f \in LogFields |-> who[f]]
  BY DEF SignedIdentity, LogFields
<1>3. \A f \in LogFields : ctx[f] = who[f]
  BY <1>1 DEF LogFields
<1>4. LoggedIdentity(md, TRUE, ctx) = [f \in LogFields |-> ctx[f]]
  BY DEF LoggedIdentity
<1>5. LoggedIdentity(md, TRUE, ctx) = who
  <2> HIDE DEF ctx, who
  <2>1. QED
    BY <1>2, <1>3, <1>4
<1>6. QED
  BY <1>5

\* But for the client's language, a verified context and the access log beside it say
\* what the sign says, whatever other headers come with the call.
THEOREM IdentityOfTheSign == Spec => []IdentityFromSignOnly
<1>1. TypeOK /\ PresentationInv => IdentityFromSignOnly
  <2> SUFFICES ASSUME TypeOK, PresentationInv, Verified, NEW other \in HeaderSets
               PROVE  /\ EntryContext(Signed(other), call.service, call.method) =
                           [context EXCEPT !.AppLanguage = Header(other, "AppLanguage")]
                      /\ LoggedIdentity(Signed(other), TRUE, context) =
                           SignedIdentity(sign.claims)
    BY DEF IdentityFromSignOnly
  <2>1. PICK s \in Services, m \in Methods, md \in HeaderSets :
            /\ call = [service |-> s, method |-> m, md |-> md]
            /\ context = EntryContext(Signed(md), s, m)
            /\ ~Skips(s, m) => <<s, m>> \in acceptedAt
    BY DEF PresentationInv, ContextInv, Verified
  <2>2. ~Skips(s, m)
    <3> SUFFICES ASSUME Skips(s, m) PROVE FALSE
      OBVIOUS
    <3>1. context.VerifiedAuthzSign = NotVerified
      BY <2>1, SkippedEntry
    <3>2. QED
      BY <3>1 DEF Verified
  <2>3. sign.claims.TargetAppId = s.AppId
    BY <2>1, <2>2 DEF PresentationInv, AcceptedInv, NamedEndpoint
  <2>4. context = ContextFromSign(s, sign.claims, Header(Signed(md), "AppLanguage"))
    BY <2>1, <2>2, PresentedSign, VerifiedEntry
  <2>5. LoggedIdentity(Signed(other), TRUE, context) = SignedIdentity(sign.claims)
    BY <2>3, <2>4, LoggedAsSigned
  <2>6. EntryContext(Signed(other), s, m) =
          [context EXCEPT !.AppLanguage = Header(other, "AppLanguage")]
    <3>1. EntryContext(Signed(other), s, m) =
            ContextFromSign(s, sign.claims, Header(Signed(other), "AppLanguage"))
      BY <2>2, PresentedSign, VerifiedEntry
    <3>2. Header(Signed(other), "AppLanguage") = Header(other, "AppLanguage")
      BY DEF Signed, Header, Put
    <3>3. QED
      BY <2>4, <3>1, <3>2, OnlyTheLanguage
  <2>7. QED
    BY <2>1, <2>5, <2>6
<1>2. QED
  BY <1>1, Presentation, TypeCorrect, PTL

\* No entry takes a sign for longer than two skews past its end, and none changes its
\* mind about an expired one.
THEOREM ExpiredForGood == Spec => ExpiryIsFinal
<1>1. TypeOK /\ PresentationInv /\ [Next]_vars =>
        [Verified' /\ call' # call =>
           /\ call'.service \notin foundExpiredBy
           /\ now < sign.claims.exp + 2 * options.ClockSkew]_vars
  <2> SUFFICES ASSUME TypeOK, PresentationInv, Next, Verified'
               PROVE  /\ call'.service \notin foundExpiredBy
                      /\ now < sign.claims.exp + 2 * options.ClockSkew
    OBVIOUS
  <2>1. PICK s \in Services, m \in Methods, md \in HeaderSets : Enter(s, m, md)
    BY DEF Next, Tick, Refuse, Verified
  <2>2. ~Skips(s, m)
    <3> SUFFICES ASSUME Skips(s, m) PROVE FALSE
      OBVIOUS
    <3>1. context'.VerifiedAuthzSign = NotVerified
      BY <2>1, SkippedEntry DEF Enter
    <3>2. QED
      BY <3>1 DEF Verified
  <2>3. /\ sign # MissingSign /\ sign # MalformedSign
        /\ Live(sign.claims, options, now + offset[s])
    BY <2>1, <2>2, Admitted DEF Enter, TypeOK
  <2>4. call'.service = s
    BY <2>1 DEF Enter
  <2>5. s \notin foundExpiredBy
    BY <2>3 DEF PresentationInv, ExpiredInv
  <2>6. /\ sign.claims.exp \in Int /\ options.ClockSkew \in Nat /\ now \in Int
        /\ offset[s] \in Int /\ offset[s] >= -options.ClockSkew
    BY <2>3, InputAssumption, OptionsAssumption DEF TypeOK
  <2>7. now < sign.claims.exp + 2 * options.ClockSkew
    BY <2>3, <2>6 DEF Live
  <2>8. QED
    BY <2>4, <2>5, <2>7
<1>2. QED
  BY <1>1, Presentation, TypeCorrect, PTL DEF Spec, ExpiryIsFinal

\* A service leaves everything it expects of a sign to the entry, as
\* NewVerificationOptions does.
EntryBindsTheEndpoint ==
    \A o \in OptionSets :
        /\ o.RouteMethod = "" /\ o.RoutePath = ""
        /\ o.TargetMethod = "" /\ o.TargetPath = ""

\* Then a sign the authz service issues is good at its endpoint while it lasts, for
\* every skew that both sides agree on.
THEOREM IssuedAccepted == EntryBindsTheEndpoint /\ Spec => []IssuedIsGood
<1>1. EntryBindsTheEndpoint /\ TypeOK => IssuedIsGood
  <2> SUFFICES ASSUME EntryBindsTheEndpoint, TypeOK, call # NoCall,
                      sign \in IssuedSigns,
                      PublicKeyFor(sign.kid, options) = sign.signer,
                      now \in sign.claims.nbf..sign.claims.exp - 1,
                      call.service.AppId = sign.claims.TargetAppId,
                      call.method = EffectiveTarget(sign.claims).path
               PROVE  Enters(Signed(call.md), call.service, call.method, options,
                             now + offset[call.service])
    BY DEF IssuedIsGood
  <2> DEFINE s == call.service
             m == call.method
             here == Resolved(options, m)
             t == now + offset[s]
  <2>1. /\ s \in Services /\ m \in Methods /\ call.md \in HeaderSets
        /\ options \in OptionSets /\ IsVerificationOptions(options)
    BY OptionsAssumption DEF TypeOK
  <2>2. /\ sign # MissingSign /\ sign # MalformedSign
        /\ sign.alg = EdDSA /\ sign.signer # NoKey
        /\ WellFormedClaims(sign.claims, options)
        /\ sign.claims.exp > 0
        /\ EqualFold(EffectiveTarget(sign.claims).method, GRPC)
    BY <2>1, IssuedAssumption
  <2>3. PublicKeyFor(sign.kid, here) = sign.signer
    BY <2>1, ResolvedFields DEF PublicKeyFor
  <2>4. WellFormedClaims(sign.claims, here)
    <3>1. here.Issuer = options.Issuer
      BY <2>1, ResolvedFields
    <3>2. QED
      BY <2>2, <3>1 DEF WellFormedClaims
  <2>5. Live(sign.claims, here, t) /\ Begun(sign.claims, here, t)
    <3>1. /\ sign.claims.exp \in Int /\ sign.claims.nbf \in Int
          /\ options.ClockSkew \in Nat /\ now \in Int
          /\ offset[s] \in -options.ClockSkew..options.ClockSkew
      BY <2>1, <2>2, InputAssumption, OptionsAssumption DEF TypeOK
    <3>2. here.ClockSkew = options.ClockSkew
      BY <2>1, ResolvedFields
    <3>3. QED
      BY <2>2, <3>1, <3>2 DEF Live, Begun
  <2>6. RouteExpected(sign.claims, here)
    BY <2>1, ResolvedFields DEF RouteExpected, EntryBindsTheEndpoint
  <2>7. TargetExpected(sign.claims, here)
    <3>1. here.TargetMethod = GRPC /\ here.TargetPath = m /\ m # ""
      BY <2>1, ResolvedFields, OptionsAssumption, EndpointAssumption DEF EntryBindsTheEndpoint
    <3>2. EffectiveTarget(sign.claims).method # ""
      BY <2>2 DEF EqualFold, Fold, GRPC
    <3>3. QED
      BY <2>2, <3>1, <3>2 DEF TargetExpected
  <2>8. VerifyAuthzSign(sign, here, t) = "ok"
    BY <2>2, <2>3, <2>4, <2>5, <2>6, <2>7, VerifiedSign, ValidClaims
  <2>9. s.AppId # "" /\ sign.claims.TargetAppId = s.AppId
    BY <2>2 DEF WellFormedClaims, Complete
  <2>10. QED
    <3>1. SignHeader(WithLocalIdentity(Signed(call.md), s)) = sign
      BY <2>1, PresentedSign, LocalIdentityKeeps
    <3>2. QED
      BY <2>8, <2>9, <3>1 DEF Enters, Admits
<1>2. EntryBindsTheEndpoint => EntryBindsTheEndpoint'
  BY DEF EntryBindsTheEndpoint
<1>3. QED
  BY <1>1, <1>2, TypeCorrect, PTL
=============================================================================
