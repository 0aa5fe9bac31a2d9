-------------------------- MODULE RequestChainProofs --------------------------
(***************************************************************************)
(* Theorems about RequestChain: chains of any length, through any services *)
(* and with any metadata of the client's.                                  *)
(***************************************************************************)
EXTENDS RequestChain, ServiceContextProofs, SequenceTheorems

-----------------------------------------------------------------------------
(* The chain as a sequence that grows, changes and shrinks at its end.     *)

IsSequence(s) == \E S : s \in Seq(S)

LEMMA NonEmptyLength ==
    ASSUME NEW s, IsSequence(s)
    PROVE  /\ Len(s) \in Nat
           /\ s # <<>> => Len(s) \in Nat \ {0}
BY EmptySeq DEF IsSequence

Grown(s, t, h) == t = Append(s, h)
Changed(s, t, h) == t = [s EXCEPT ![Len(s)] = h]
Shrunk(s, t) == t = SubSeq(s, 1, Len(s) - 1)

LEMMA GrowsByOne ==
    ASSUME NEW s, IsSequence(s), NEW h, NEW t, Grown(s, t, h)
    PROVE  /\ IsSequence(t)
           /\ Len(t) = Len(s) + 1
           /\ \A i \in 1..Len(s) : t[i] = s[i]
           /\ t[Len(s) + 1] = h
<1>1. PICK S : s \in Seq(S)
  BY DEF IsSequence
<1>2. s \in Seq(S \cup {h})
  BY <1>1, SeqDef
<1>3. QED
  BY <1>2, AppendProperties DEF IsSequence, Grown

LEMMA ChangesAtEnd ==
    ASSUME NEW s, IsSequence(s), Len(s) # 0, NEW h, NEW t, Changed(s, t, h)
    PROVE  /\ IsSequence(t)
           /\ Len(t) = Len(s)
           /\ \A i \in 1..Len(s) - 1 : t[i] = s[i]
           /\ t[Len(s)] = h
<1>1. PICK S : s \in Seq(S)
  BY DEF IsSequence
<1>2. s \in Seq(S \cup {h})
  BY <1>1, SeqDef
<1>3. Len(s) \in 1..Len(s)
  BY <1>1
<1>4. QED
  BY <1>2, <1>3, ExceptSeq DEF IsSequence, Changed

LEMMA ShrinksByOne ==
    ASSUME NEW s, IsSequence(s), Len(s) # 0, NEW t, Shrunk(s, t)
    PROVE  /\ IsSequence(t)
           /\ Len(t) = Len(s) - 1
           /\ \A i \in 1..Len(s) - 1 : t[i] = s[i]
<1>1. PICK S : s \in Seq(S)
  BY DEF IsSequence
<1>2. Len(s) \in Nat \ {0}
  BY <1>1
<1>3. \A i \in 1..Len(s) - 1 : s[i] \in S
  BY <1>1, <1>2
<1> DEFINE n == Len(s) - 1
<1>4. n \in Nat /\ \A i \in 1..n : s[i] \in S
  BY <1>2, <1>3
<1>5. t = SubSeq(s, 1, n)
  BY DEF Shrunk
<1> HIDE DEF n
<1>6. /\ t \in Seq(S)
      /\ Len(t) = IF 1 <= n THEN n - 1 + 1 ELSE 0
      /\ \A i \in 1..n - 1 + 1 : t[i] = s[1 + i - 1]
  BY <1>4, <1>5, SubSeqProperties
<1>7. Len(t) = n /\ \A i \in 1..n : t[i] = s[i]
  BY <1>4, <1>6
<1>8. QED
  BY <1>6, <1>7 DEF IsSequence, n

-----------------------------------------------------------------------------
(* Metadata.                                                               *)

\* A sign in the metadata was made for the user named beside it, whichever hop it was
\* made at: the sign and the user's authority always travel together.
SignOfItsUser(md) ==
    "AuthzSign" \in DOMAIN md =>
        LET c == md["AuthzSign"].claims
            user == Header(md, "UserAuthority")
        IN  /\ c.TargetMethod = GRPC
            /\ c.SubjectType = "user" <=> user # ""
            /\ c.UserContext = UserOf(user, IF user = "" THEN "" ELSE "app")

AuthorityOf(s, md) ==
    /\ s.Provider <=> "ServiceAuthority" \in DOMAIN md
    /\ s.Provider => md["ServiceAuthority"].app = s.AppId

\* The user named is the given one, or none is named.
OfUser(user, named) == named \in {"", user}

PlainUser(md) == OfUser(Header(md, "UserAuthority"), Header(md, "UserId"))

\* What Prepare lets through, and what it adds.
LEMMA Prepared ==
    ASSUME NEW s, NEW md, SignOfItsUser(md)
    PROVE  /\ SignOfItsUser(Prepare(s, md))
           /\ AuthorityOf(s, Prepare(s, md))
           /\ PlainUser(Prepare(s, md))
           /\ Header(Prepare(s, md), "UserAuthority") = Header(md, "UserAuthority")
<1> DEFINE out == Prepare(s, md)
<1>1. DOMAIN out = (DOMAIN md \cap Allowlist) \cup
                   (IF s.Provider THEN {"ServiceAuthority"} ELSE {})
  BY DEF Prepare, Put, Filter
<1>2. \A k \in DOMAIN md \cap Allowlist : out[k] = md[k]
  BY DEF Prepare, Put, Filter, Allowlist
<1>3. s.Provider => out["ServiceAuthority"].app = s.AppId
  BY DEF Prepare, Put
<1> HIDE DEF out
<1>4. /\ Header(out, "UserAuthority") = Header(md, "UserAuthority")
      /\ "UserId" \notin DOMAIN out
  BY <1>1, <1>2 DEF Header, Allowlist
<1>5. "AuthzSign" \in DOMAIN out =>
        "AuthzSign" \in DOMAIN md /\ out["AuthzSign"] = md["AuthzSign"]
  BY <1>1, <1>2 DEF Allowlist
<1>6. SignOfItsUser(out)
  BY <1>4, <1>5 DEF SignOfItsUser
<1>7. AuthorityOf(s, out)
  BY <1>1, <1>3 DEF AuthorityOf, Allowlist
<1>8. PlainUser(out)
  BY <1>4 DEF PlainUser, OfUser, Header
<1>9. QED
  BY <1>4, <1>6, <1>7, <1>8 DEF out

LEMMA IdentityKeepsMetadata ==
    ASSUME NEW s, NEW md
    PROVE  LET out == WithLocalIdentity(md, s) IN
           /\ Header(out, "UserAuthority") = Header(md, "UserAuthority")
           /\ \A t : AuthorityOf(t, md) => AuthorityOf(t, out)
           /\ PlainUser(md) => PlainUser(out)
           /\ SignOfItsUser(md) => SignOfItsUser(out)
<1> DEFINE out == WithLocalIdentity(md, s)
<1>1. /\ \A k : k # "ServiceAppId" => Header(out, k) = Header(md, k)
      /\ \A k : k # "ServiceAppId" =>
           (k \in DOMAIN out <=> k \in DOMAIN md) /\
           (k \in DOMAIN md => out[k] = md[k])
  BY DEF WithLocalIdentity, Put, Header
<1> HIDE DEF out
<1>2. /\ Header(out, "UserAuthority") = Header(md, "UserAuthority")
      /\ Header(out, "UserId") = Header(md, "UserId")
  BY <1>1
<1>3. \A t : AuthorityOf(t, md) => AuthorityOf(t, out)
  BY <1>1 DEF AuthorityOf
<1>4. SignOfItsUser(md) => SignOfItsUser(out)
  <2> SUFFICES ASSUME SignOfItsUser(md) PROVE SignOfItsUser(out)
    OBVIOUS
  <2>1. "AuthzSign" \in DOMAIN out =>
          "AuthzSign" \in DOMAIN md /\ out["AuthzSign"] = md["AuthzSign"]
    BY <1>1
  <2>2. QED
    BY <1>2, <2>1 DEF SignOfItsUser
<1>5. QED
  BY <1>2, <1>3, <1>4 DEF PlainUser, out

-----------------------------------------------------------------------------
(* One hop, and a hop with the one that called it.                         *)

\* Whoever verifies serves on a decision for itself, this method and its user.
Decided(h) ==
    LET c == h.context.VerifiedAuthzSign
    IN  /\ c.TargetPath = h.method
        /\ c.TargetAppId = h.service.AppId
        /\ c.SubjectType = "user" <=> Header(h.md, "UserAuthority") # ""

UserInContext(h) == OfUser(Header(h.md, "UserAuthority"), h.context.UserId)

\* A hop keeps its shape when its fields change.
IsHop(h) ==
    h = [service |-> h.service, method |-> h.method, md |-> h.md,
         deadline |-> h.deadline, own |-> h.own, phase |-> h.phase,
         context |-> h.context]

HopOK(h) ==
    /\ IsHop(h)
    /\ h.service \in Services /\ h.method \in Methods
    /\ h.phase \in Phases /\ h.deadline \in Nat
    /\ SignOfItsUser(h.md)
    /\ h.phase # "serving" => h.context = NoContext
    /\ h.phase = "serving" /\ ~Skips(h.service, h.method) =>
         Decided(h) /\ UserInContext(h)

Linked(g, h) ==
    /\ AuthorityOf(g.service, h.md)
    /\ h.deadline <= g.deadline
    /\ PlainUser(h.md)
    /\ h.phase = "serving" => UserInContext(h)

\* What later steps of a hop keep of it.
SameCall(h, k) ==
    /\ k.service = h.service /\ k.method = h.method /\ k.deadline = h.deadline
    /\ k.own = h.own
    /\ Header(k.md, "UserAuthority") = Header(h.md, "UserAuthority")
    /\ \A s \in Services : AuthorityOf(s, h.md) => AuthorityOf(s, k.md)

LEMMA HopWithMd ==
    ASSUME NEW h, IsHop(h), NEW phase, NEW md
    PROVE  [h EXCEPT !.phase = phase, !.md = md] =
             [service |-> h.service, method |-> h.method, md |-> md,
              deadline |-> h.deadline, own |-> h.own, phase |-> phase, context |-> h.context]
<1> DEFINE j == [h EXCEPT !.phase = phase]
<1>1. j = [service |-> h.service, method |-> h.method, md |-> h.md,
           deadline |-> h.deadline, own |-> h.own, phase |-> phase, context |-> h.context]
  BY DEF IsHop
<1>2. [j EXCEPT !.md = md] =
        [service |-> h.service, method |-> h.method, md |-> md,
         deadline |-> h.deadline, own |-> h.own, phase |-> phase, context |-> h.context]
  <2> HIDE DEF j
  <2>1. QED
    BY <1>1
<1>3. QED
  BY <1>2

LEMMA HopWithContext ==
    ASSUME NEW h, IsHop(h), NEW phase, NEW md, NEW context
    PROVE  [h EXCEPT !.phase = phase, !.md = md, !.context = context] =
             [service |-> h.service, method |-> h.method, md |-> md,
              deadline |-> h.deadline, own |-> h.own, phase |-> phase, context |-> context]
<1> DEFINE j == [h EXCEPT !.phase = phase, !.md = md]
<1>1. j = [service |-> h.service, method |-> h.method, md |-> md,
           deadline |-> h.deadline, own |-> h.own, phase |-> phase, context |-> h.context]
  BY HopWithMd
<1>2. [j EXCEPT !.context = context] =
        [service |-> h.service, method |-> h.method, md |-> md,
         deadline |-> h.deadline, own |-> h.own, phase |-> phase, context |-> context]
  <2> HIDE DEF j
  <2>1. QED
    BY <1>1
<1>3. QED
  BY <1>2

LEMMA SentHop ==
    ASSUME NEW s \in Services, NEW m \in Methods, NEW md, NEW deadline \in Nat,
           NEW own, SignOfItsUser(md)
    PROVE  LET h == Sent(s, m, md, deadline, own) IN
           /\ HopOK(h)
           /\ h.service = s /\ h.method = m /\ h.md = md /\ h.own = own
           /\ h.deadline = deadline /\ h.phase = "sent"
BY DEF Sent, HopOK, IsHop, Phases

AllowedMd(h) ==
    LET c == ClaimsFor(h)
        identity == [UserId |-> Header(h.md, "UserAuthority"),
                     AppId |-> IF c.SubjectType = "user" THEN "app" ELSE "",
                     SubjectType |-> c.SubjectType, InvokeAppId |-> c.InvokeAppId,
                     TargetAppId |-> c.TargetAppId,
                     AuthzSign |-> [alg |-> EdDSA, kid |-> "default",
                                    signer |-> SigningKey, claims |-> c]]
    IN  [k \in DOMAIN h.md \cup DOMAIN identity |->
           IF k \in DOMAIN identity THEN identity[k] ELSE h.md[k]]

LEMMA AllowedMetadata ==
    ASSUME NEW h
    PROVE  LET md == AllowedMd(h) IN
           /\ Header(md, "UserAuthority") = Header(h.md, "UserAuthority")
           /\ \A s : AuthorityOf(s, h.md) => AuthorityOf(s, md)
           /\ PlainUser(md)
           /\ SignOfItsUser(md)
<1> DEFINE md == AllowedMd(h)
           keys == {"UserId", "AppId", "SubjectType", "InvokeAppId", "TargetAppId",
                    "AuthzSign"}
           user == Header(h.md, "UserAuthority")
<1>1. /\ DOMAIN md = DOMAIN h.md \cup keys
      /\ \A k \in DOMAIN h.md \ keys : md[k] = h.md[k]
      /\ md["UserId"] = user
      /\ md["AuthzSign"].claims = ClaimsFor(h)
  BY DEF AllowedMd
<1>2. /\ ClaimsFor(h).TargetMethod = GRPC
      /\ ClaimsFor(h).SubjectType = "user" <=> user # ""
      /\ ClaimsFor(h).UserContext = UserOf(user, IF user = "" THEN "" ELSE "app")
  BY DEF ClaimsFor
<1> HIDE DEF md
<1>3. /\ Header(md, "UserAuthority") = user
      /\ Header(md, "UserId") = user
  BY <1>1 DEF Header
<1>4. \A s : AuthorityOf(s, h.md) => AuthorityOf(s, md)
  BY <1>1 DEF AuthorityOf
<1> HIDE DEF user
<1>5. SignOfItsUser(md)
  BY <1>1, <1>2, <1>3 DEF SignOfItsUser
<1>6. QED
  BY <1>3, <1>4, <1>5 DEF PlainUser, OfUser, md, user

\* The decision of the authz service.
LEMMA AllowedHop ==
    ASSUME NEW h, HopOK(h), h.phase = "sent"
    PROVE  LET k == [h EXCEPT !.phase = "allowed", !.md = AllowedMd(h)] IN
           /\ HopOK(k) /\ SameCall(h, k) /\ PlainUser(k.md)
           /\ k.phase # "serving"
<1> DEFINE k == [h EXCEPT !.phase = "allowed", !.md = AllowedMd(h)]
<1>1. k = [service |-> h.service, method |-> h.method, md |-> AllowedMd(h),
           deadline |-> h.deadline, own |-> h.own, phase |-> "allowed", context |-> h.context]
  BY HopWithMd DEF HopOK
<1> HIDE DEF k
<1>2. /\ k.service = h.service /\ k.method = h.method /\ k.md = AllowedMd(h)
      /\ k.deadline = h.deadline /\ k.own = h.own
      /\ k.phase = "allowed" /\ k.context = h.context
      /\ IsHop(k)
  BY <1>1 DEF IsHop
<1>3. HopOK(k)
  BY <1>2, AllowedMetadata DEF HopOK, Phases
<1>4. SameCall(h, k) /\ PlainUser(k.md)
  BY <1>2, AllowedMetadata DEF SameCall
<1>5. QED
  BY <1>2, <1>3, <1>4 DEF k

\* What a verified entry makes of a sign that belongs to the user beside it.
LEMMA VerifiedHop ==
    ASSUME NEW h, HopOK(h), ~Skips(h.service, h.method),
           Enters(h.md, h.service, h.method, Options, now)
    PROVE  LET ctx == EntryContext(h.md, h.service, h.method)
               c == ctx.VerifiedAuthzSign
           IN  /\ c.TargetPath = h.method
               /\ c.TargetAppId = h.service.AppId
               /\ c.SubjectType = "user" <=> Header(h.md, "UserAuthority") # ""
               /\ OfUser(Header(h.md, "UserAuthority"), ctx.UserId)
<1> DEFINE raw == SignHeader(h.md)
           user == Header(h.md, "UserAuthority")
           ctx == ContextFromSign(h.service, raw.claims, Header(h.md, "AppLanguage"))
<1>1. h.method \in Methods /\ h.method # "" /\ SignOfItsUser(h.md)
  BY InputAssumption DEF HopOK
<1>2. /\ raw # MissingSign
      /\ raw.claims.TargetAppId = h.service.AppId
      /\ EffectiveTarget(raw.claims).path = h.method
  <2>1. IsVerificationOptions(Options) /\ Options.TargetPath = ""
    BY OptionsAssumption
  <2>2. Established(raw, h.service, h.method, Options, now)
    BY <2>1, EntryVerifies
  <2>3. QED
    BY <1>1, <2>1, <2>2 DEF Established
<1>3. "AuthzSign" \in DOMAIN h.md /\ raw = h.md["AuthzSign"]
  BY <1>2 DEF SignHeader
<1>4. EntryContext(h.md, h.service, h.method) = ctx
  BY VerifiedEntry
<1> HIDE DEF raw, user, ctx
<1>5. /\ raw.claims.TargetMethod = GRPC
      /\ raw.claims.SubjectType = "user" <=> user # ""
      /\ raw.claims.UserContext = UserOf(user, IF user = "" THEN "" ELSE "app")
  BY <1>1, <1>3 DEF SignOfItsUser, user
<1>6. raw.claims.TargetPath = h.method
  BY <1>2, <1>5 DEF EffectiveTarget, GRPC
<1>7. ctx.VerifiedAuthzSign = raw.claims
  BY DEF ctx, ContextFromSign
<1>8. OfUser(user, ctx.UserId)
  <2>1. CASE raw.claims.UserContext = NoUser
    BY <2>1 DEF ctx, ContextFromSign, OfUser
  <2>2. CASE raw.claims.UserContext # NoUser
    <3> DEFINE app == IF user = "" THEN "" ELSE "app"
    <3> HIDE DEF app
    <3>1. raw.claims.UserContext = UserOf(user, app)
      BY <1>5 DEF app
    <3>2. raw.claims.UserContext = [UserId |-> user, AppId |-> app]
      BY <2>2, <3>1 DEF UserOf
    <3>3. raw.claims.UserContext.UserId = user
      BY <3>2
    <3>4. QED
      BY <2>2, <3>3 DEF ctx, ContextFromSign, OfUser
  <2>3. QED
    BY <2>1, <2>2
<1>9. QED
  BY <1>2, <1>4, <1>5, <1>6, <1>7, <1>8 DEF user

\* The entry of the service.
LEMMA DeliveredHop ==
    ASSUME NEW h, HopOK(h), h.phase # "serving",
           Enters(h.md, h.service, h.method, Options, now)
    PROVE  LET k == [h EXCEPT !.phase = "serving",
                       !.md = WithLocalIdentity(h.md, h.service),
                       !.context = EntryContext(h.md, h.service, h.method)] IN
           /\ HopOK(k) /\ SameCall(h, k)
           /\ PlainUser(h.md) => PlainUser(k.md) /\ UserInContext(k)
<1> DEFINE out == WithLocalIdentity(h.md, h.service)
           ctx == EntryContext(h.md, h.service, h.method)
           k == [h EXCEPT !.phase = "serving", !.md = out, !.context = ctx]
<1>1. k = [service |-> h.service, method |-> h.method, md |-> out,
           deadline |-> h.deadline, own |-> h.own, phase |-> "serving", context |-> ctx]
  <2> HIDE DEF out, ctx
  <2>1. QED
    BY HopWithContext DEF HopOK
<1>2. /\ Header(out, "UserAuthority") = Header(h.md, "UserAuthority")
      /\ \A t : AuthorityOf(t, h.md) => AuthorityOf(t, out)
      /\ PlainUser(h.md) => PlainUser(out)
      /\ SignOfItsUser(out)
  BY IdentityKeepsMetadata DEF HopOK
<1>3. ~Skips(h.service, h.method) =>
        LET c == ctx.VerifiedAuthzSign
        IN  /\ c.TargetPath = h.method
            /\ c.TargetAppId = h.service.AppId
            /\ c.SubjectType = "user" <=> Header(h.md, "UserAuthority") # ""
            /\ OfUser(Header(h.md, "UserAuthority"), ctx.UserId)
  BY VerifiedHop
<1>4. Skips(h.service, h.method) => ctx.UserId = Header(h.md, "UserId")
  BY SkippedEntry
<1> HIDE DEF k, out, ctx
<1>5. /\ k.service = h.service /\ k.method = h.method /\ k.md = out
      /\ k.deadline = h.deadline /\ k.own = h.own
      /\ k.phase = "serving" /\ k.context = ctx
      /\ IsHop(k)
  BY <1>1 DEF IsHop
<1>6. HopOK(k)
  BY <1>2, <1>3, <1>5 DEF HopOK, Phases, Decided, UserInContext
<1>7. SameCall(h, k)
  BY <1>2, <1>5 DEF SameCall
<1>8. PlainUser(h.md) => PlainUser(k.md) /\ UserInContext(k)
  BY <1>2, <1>3, <1>4, <1>5 DEF PlainUser, UserInContext
<1>9. QED
  BY <1>6, <1>7, <1>8 DEF k, out, ctx

-----------------------------------------------------------------------------
(* The chain.                                                              *)

UserAt(i) == Header(hops[i].md, "UserAuthority")

\* What a prepared call carries until it is sent, and from whom.
DialingInv ==
    dialing # NotDialing =>
        /\ Len(hops) # 0 /\ Len(hops) < MaxHops
        /\ Innermost.phase = "serving"
        /\ Innermost.service.Outbound # "interceptor"
        /\ SignOfItsUser(dialing) /\ PlainUser(dialing)
        /\ AuthorityOf(Innermost.service, dialing)
        /\ Header(dialing, "UserAuthority") = Header(Innermost.md, "UserAuthority")

ChainType ==
    /\ now \in 0..MaxTime
    /\ token \in [Services -> 0..MaxTime + TokenTTL]
    /\ IsSequence(hops)
    /\ Len(hops) <= MaxHops
    /\ \A i \in 1..Len(hops) - 1 : hops[i].phase = "serving"

ChainInv ==
    /\ ChainType
    /\ \A i \in 1..Len(hops) : HopOK(hops[i])
    /\ \A i \in 2..Len(hops) : Linked(hops[i - 1], hops[i])
    /\ \A i \in 2..Len(hops) : OfUser(UserAt(1), UserAt(i))
    /\ UserAuthorityTravels
    /\ DialingInv

LEMMA ConstantTypes ==
    /\ SignTTL \in Nat /\ TokenTTL \in Nat /\ ClientTimeout \in Nat
    /\ InvokeTimeout \in Nat /\ MaxHops \in Nat \ {0} /\ MaxTime \in Nat
BY InputAssumption

-----------------------------------------------------------------------------
(* How far the user's authority gets, in a sequence of calls.              *)

UserOn(s, i) == Header(s[i].md, "UserAuthority")
OwnUpTo(s, i) == \E j \in 2..i : s[j].own

TravelsTo(s, i) ==
    /\ OwnUpTo(s, i) => UserOn(s, i) = ""
    /\ ~OwnUpTo(s, i) => UserOn(s, i) = UserOn(s, 1)

Travels(s, n) == \A i \in 2..n : TravelsTo(s, i)

LEMMA TravelsInChain ==
    /\ UserAuthorityTravels <=> Travels(hops, Len(hops))
    /\ UserAuthorityTravels' <=> Travels(hops', Len(hops'))
<1>1. ASSUME NEW a, NEW b, NEW c, NEW own
      PROVE  a = (IF own THEN b ELSE c) <=> (own => a = b) /\ (~own => a = c)
  OBVIOUS
<1>2. \A i : FromOwnMetadata(i) <=> OwnUpTo(hops, i)
  BY DEF FromOwnMetadata, OwnUpTo
<1>3. \A i : FromOwnMetadata(i)' <=> OwnUpTo(hops', i)
  BY DEF FromOwnMetadata, OwnUpTo
<1>4. UserAuthorityTravels <=> Travels(hops, Len(hops))
  BY <1>1, <1>2, Zenon DEF UserAuthorityTravels, Travels, TravelsTo, UserOn, Inner, User
<1>5. UserAuthorityTravels' <=> Travels(hops', Len(hops'))
  BY <1>1, <1>3, Zenon DEF UserAuthorityTravels, Travels, TravelsTo, UserOn, Inner, User
<1>6. QED
  BY <1>4, <1>5

LEMMA TravelsInPart ==
    ASSUME NEW s, NEW t, NEW n \in Nat, NEW m \in 0..n, Travels(s, n),
           \A i \in 1..m : UserOn(t, i) = UserOn(s, i) /\ t[i].own = s[i].own
    PROVE  Travels(t, m)
<1> SUFFICES ASSUME NEW i \in 2..m PROVE TravelsTo(t, i)
  BY DEF Travels
<1>1. i \in 2..n /\ i \in 1..m /\ 1 \in 1..m /\ \A j \in 2..i : j \in 1..m
  OBVIOUS
<1>2. OwnUpTo(t, i) <=> OwnUpTo(s, i)
  BY <1>1, Zenon DEF OwnUpTo
<1>3. TravelsTo(s, i)
  BY <1>1 DEF Travels
<1>4. UserOn(t, i) = UserOn(s, i) /\ UserOn(t, 1) = UserOn(s, 1)
  BY <1>1
<1>5. QED
  BY <1>2, <1>3, <1>4, Zenon DEF TravelsTo

LEMMA Behind ==
    ASSUME NEW n \in Nat \ {0}
    PROVE  /\ 2..n + 1 = 2..n \cup {n + 1}
           /\ n = 1 => 2..n = {}
           /\ n # 1 => n \in 2..n
OBVIOUS

LEMMA TravelsOn ==
    ASSUME NEW s, NEW n \in Nat \ {0}, Travels(s, n),
           s[n + 1].own => UserOn(s, n + 1) = "",
           ~s[n + 1].own => UserOn(s, n + 1) = UserOn(s, n)
    PROVE  Travels(s, n + 1)
<1>1. 2..n + 1 = 2..n \cup {n + 1}
  BY Behind, Zenon
<1>2. OwnUpTo(s, n + 1) <=> OwnUpTo(s, n) \/ s[n + 1].own
  BY <1>1, Zenon DEF OwnUpTo
<1>3. TravelsTo(s, n)
  <2>1. CASE n = 1
    <3>1. ~OwnUpTo(s, n)
      BY <2>1, Behind, Zenon DEF OwnUpTo
    <3>2. QED
      BY <2>1, <3>1, Zenon DEF TravelsTo
  <2>2. CASE n # 1
    <3>1. n \in 2..n
      BY <2>2, Behind, Zenon
    <3>2. QED
      BY <3>1, Zenon DEF Travels
  <2>3. QED
    BY <2>1, <2>2
<1>4. TravelsTo(s, n + 1)
  <2>1. CASE s[n + 1].own
    BY <1>2, <2>1, Zenon DEF TravelsTo
  <2>2. CASE ~s[n + 1].own
    BY <1>2, <1>3, <2>2, Zenon DEF TravelsTo
  <2>3. QED
    BY <2>1, <2>2, Zenon
<1>5. QED
  BY <1>1, <1>4, Zenon DEF Travels

-----------------------------------------------------------------------------
\* A step that leaves the chain alone.
LEMMA ChainFrame ==
    ASSUME ChainInv, hops' = hops, ChainType', DialingInv'
    PROVE  ChainInv'
<1>1. UserAuthorityTravels'
  BY TravelsInChain DEF ChainInv
<1>2. QED
  BY <1>1 DEF ChainInv, UserAt

\* A step that changes the innermost hop, before it serves.
Settles(k) ==
    /\ HopOK(k) /\ SameCall(Innermost, k)
    /\ PlainUser(Innermost.md) => PlainUser(k.md)
    /\ PlainUser(Innermost.md) /\ k.phase = "serving" => UserInContext(k)

LEMMA ChainSettles ==
    ASSUME ChainInv, hops # <<>>, Innermost.phase # "serving",
           NEW k, Settles(k), SetInnermost(k), UNCHANGED <<now, token, dialing>>
    PROVE  ChainInv'
<1>1. PICK n \in Nat \ {0} : n = Len(hops)
  BY NonEmptyLength DEF ChainInv, ChainType
<1>2. /\ IsSequence(hops') /\ Len(hops') = n
      /\ \A i \in 1..n - 1 : hops'[i] = hops[i]
      /\ hops'[n] = k
  <2>1. IsSequence(hops) /\ Len(hops) # 0
    BY <1>1 DEF ChainInv, ChainType
  <2>2. Changed(hops, hops', k)
    BY DEF SetInnermost, Changed
  <2>3. QED
    BY <1>1, <2>1, <2>2, ChangesAtEnd
<1>3. Innermost = hops[n]
  BY <1>1 DEF Innermost
<1>4. ChainType'
  BY <1>1, <1>2 DEF ChainInv, ChainType
<1>5. /\ \A i \in 1..n : HopOK(hops[i])
      /\ \A i \in 2..n : Linked(hops[i - 1], hops[i])
      /\ \A i \in 2..n : OfUser(UserAt(1), UserAt(i))
  BY <1>1 DEF ChainInv
<1>6. \A i \in 1..n : HopOK(hops'[i])
  <2> SUFFICES ASSUME NEW i \in 1..n PROVE HopOK(hops'[i])
    OBVIOUS
  <2>1. CASE i = n
    BY <1>2, <2>1 DEF Settles
  <2>2. CASE i # n
    <3>1. hops'[i] = hops[i] /\ HopOK(hops[i])
      BY <1>1, <1>2, <1>5, <2>2
    <3>2. QED
      BY <3>1
  <2>3. QED
    BY <2>1, <2>2
<1>7. \A i \in 2..n : Linked(hops'[i - 1], hops'[i])
  <2> SUFFICES ASSUME NEW i \in 2..n PROVE Linked(hops'[i - 1], hops'[i])
    OBVIOUS
  <2>1. hops'[i - 1] = hops[i - 1] /\ Linked(hops[i - 1], hops[i])
    BY <1>1, <1>2, <1>5
  <2>2. CASE i = n
    <3>1. HopOK(hops[n - 1]) /\ Linked(hops[n - 1], hops[n]) /\ hops'[n] = k
      BY <1>1, <1>2, <1>5, <2>2
    <3>2. Linked(hops[n - 1], k)
      BY <1>3, <3>1 DEF Settles, Linked, SameCall, HopOK
    <3>3. QED
      BY <2>1, <2>2, <3>1, <3>2
  <2>3. CASE i # n
    <3>1. hops'[i] = hops[i]
      BY <1>1, <1>2, <2>3
    <3>2. QED
      BY <2>1, <3>1
  <2>4. QED
    BY <2>2, <2>3
<1>8. \A i \in 1..n : /\ Header(hops'[i].md, "UserAuthority") = UserAt(i)
                      /\ hops'[i].own = hops[i].own
  BY <1>1, <1>2, <1>3 DEF Settles, SameCall, UserAt
<1>9. \A i \in 2..n : OfUser(Header(hops'[1].md, "UserAuthority"),
                            Header(hops'[i].md, "UserAuthority"))
  BY <1>1, <1>5, <1>8
<1>10. UserAuthorityTravels'
  <2>1. \A i \in 1..n : UserOn(hops', i) = UserOn(hops, i) /\ hops'[i].own = hops[i].own
    BY <1>8 DEF UserOn, UserAt
  <2>2. Travels(hops, n)
    BY <1>1, TravelsInChain DEF ChainInv
  <2>3. QED
    BY <1>2, <2>1, <2>2, TravelsInPart, TravelsInChain
<1>11. DialingInv'
  BY DEF ChainInv, DialingInv
<1>12. QED
  BY <1>2, <1>4, <1>6, <1>7, <1>9, <1>10, <1>11 DEF ChainInv, UserAt

\* Whom a call from the innermost hop speaks for: the same user, or nobody where the
\* handler made the outgoing metadata itself.
PassesUser(h) ==
    /\ h.own => Header(h.md, "UserAuthority") = ""
    /\ ~h.own => Header(h.md, "UserAuthority") = Header(Innermost.md, "UserAuthority")

LEMMA OfUserIsTransitive ==
    ASSUME NEW a, NEW b, NEW c, OfUser(a, b), c \in {"", b}
    PROVE  OfUser(a, c)
BY DEF OfUser

LEMMA SameUser == \A a : OfUser(a, a)
BY DEF OfUser

\* A step that sends a call on.
LEMMA ChainGrows ==
    ASSUME ChainInv, hops # <<>>, Innermost.phase = "serving", Len(hops) < MaxHops,
           NEW h, HopOK(h), Linked(Innermost, h), PassesUser(h),
           Grown(hops, hops', h), dialing' = NotDialing, UNCHANGED <<now, token>>
    PROVE  ChainInv'
<1>1. PICK n \in Nat \ {0} : n = Len(hops)
  BY NonEmptyLength DEF ChainInv, ChainType
<1>2. /\ IsSequence(hops') /\ Len(hops') = n + 1
      /\ \A i \in 1..n : hops'[i] = hops[i]
      /\ hops'[n + 1] = h
  <2>1. IsSequence(hops)
    BY DEF ChainInv, ChainType
  <2>2. QED
    BY <1>1, <2>1, GrowsByOne
<1>3. Innermost = hops[n]
  BY <1>1 DEF Innermost
<1>4. ChainType'
  <2>1. n < MaxHops /\ n + 1 <= MaxHops
    BY <1>1, ConstantTypes
  <2>2. \A i \in 1..n : hops'[i].phase = "serving"
    <3> SUFFICES ASSUME NEW i \in 1..n PROVE hops[i].phase = "serving"
      BY <1>2
    <3>1. CASE i = n
      BY <1>3, <3>1
    <3>2. CASE i # n
      BY <1>1, <3>2 DEF ChainInv, ChainType
    <3>3. QED
      BY <3>1, <3>2
  <2>3. QED
    BY <1>1, <1>2, <2>1, <2>2 DEF ChainInv, ChainType
<1>5. /\ \A i \in 1..n : HopOK(hops[i])
      /\ \A i \in 2..n : Linked(hops[i - 1], hops[i])
      /\ \A i \in 2..n : OfUser(UserAt(1), UserAt(i))
  BY <1>1 DEF ChainInv
<1>6. \A i \in 1..n + 1 : HopOK(hops'[i])
  <2> SUFFICES ASSUME NEW i \in 1..n + 1 PROVE HopOK(hops'[i])
    OBVIOUS
  <2>1. CASE i = n + 1
    BY <1>2, <2>1
  <2>2. CASE i # n + 1
    BY <1>1, <1>2, <1>5, <2>2
  <2>3. QED
    BY <2>1, <2>2
<1>7. \A i \in 2..n + 1 : Linked(hops'[i - 1], hops'[i])
  <2> SUFFICES ASSUME NEW i \in 2..n + 1 PROVE Linked(hops'[i - 1], hops'[i])
    OBVIOUS
  <2>1. CASE i = n + 1
    <3>1. hops'[i - 1] = Innermost /\ hops'[i] = h
      BY <1>1, <1>2, <1>3, <2>1
    <3>2. QED
      BY <3>1
  <2>2. CASE i # n + 1
    BY <1>1, <1>2, <1>5, <2>2
  <2>3. QED
    BY <2>1, <2>2
<1>8. /\ \A i \in 1..n : Header(hops'[i].md, "UserAuthority") = UserAt(i)
      /\ \A i \in 1..n : hops'[i].own = hops[i].own
  BY <1>2 DEF UserAt
<1>9. OfUser(UserAt(1), Header(h.md, "UserAuthority"))
  <2>1. OfUser(UserAt(1), UserAt(n))
    BY <1>1, <1>5, SameUser
  <2>2. Header(h.md, "UserAuthority") \in {"", UserAt(n)}
    BY <1>3 DEF PassesUser, UserAt
  <2>3. QED
    BY <2>1, <2>2, OfUserIsTransitive
<1>10. \A i \in 2..n + 1 : OfUser(Header(hops'[1].md, "UserAuthority"),
                                 Header(hops'[i].md, "UserAuthority"))
  <2> SUFFICES ASSUME NEW i \in 2..n + 1
               PROVE  OfUser(UserAt(1), Header(hops'[i].md, "UserAuthority"))
    BY <1>1, <1>8
  <2>1. CASE i = n + 1
    BY <1>2, <1>9, <2>1
  <2>2. CASE i # n + 1
    BY <1>1, <1>5, <1>8, <2>2
  <2>3. QED
    BY <2>1, <2>2
<1>11. UserAuthorityTravels'
  <2>1. \A i \in 1..n : UserOn(hops', i) = UserOn(hops, i) /\ hops'[i].own = hops[i].own
    BY <1>8 DEF UserOn, UserAt
  <2>2. Travels(hops, n)
    BY <1>1, TravelsInChain DEF ChainInv
  <2>3. Travels(hops', n)
    BY <2>1, <2>2, TravelsInPart
  <2>4. /\ hops'[n + 1].own => UserOn(hops', n + 1) = ""
        /\ ~hops'[n + 1].own => UserOn(hops', n + 1) = UserOn(hops', n)
    <3>1. UserOn(hops', n) = Header(Innermost.md, "UserAuthority")
      BY <1>2, <1>3 DEF UserOn
    <3>2. hops'[n + 1] = h
      BY <1>2
    <3>3. QED
      BY <3>1, <3>2, Zenon DEF PassesUser, UserOn
  <2>5. Travels(hops', n + 1)
    BY <2>3, <2>4, TravelsOn
  <2>6. QED
    BY <1>2, <2>5, TravelsInChain
<1>12. DialingInv'
  BY DEF DialingInv
<1>13. QED
  BY <1>2, <1>4, <1>6, <1>7, <1>10, <1>11, <1>12 DEF ChainInv, UserAt

\* A step that ends the innermost call.
LEMMA ChainShrinks ==
    ASSUME ChainInv, hops # <<>>, dialing = NotDialing, Shrunk(hops, hops'),
           UNCHANGED <<now, token, dialing>>
    PROVE  ChainInv'
<1>1. PICK n \in Nat \ {0} : n = Len(hops)
  BY NonEmptyLength DEF ChainInv, ChainType
<1>2. /\ IsSequence(hops') /\ Len(hops') = n - 1
      /\ \A i \in 1..n - 1 : hops'[i] = hops[i]
  <2>1. IsSequence(hops) /\ Len(hops) # 0
    BY <1>1 DEF ChainInv, ChainType
  <2>2. QED
    BY <1>1, <2>1, ShrinksByOne
<1>3. ChainType'
  <2>1. n <= MaxHops /\ \A i \in 1..n - 1 : hops[i].phase = "serving"
    BY <1>1 DEF ChainInv, ChainType
  <2>2. n - 1 <= MaxHops
    BY <2>1, ConstantTypes
  <2>3. \A i \in 1..(n - 1) - 1 : hops'[i].phase = "serving"
    BY <1>2, <2>1
  <2>4. QED
    BY <1>2, <2>2, <2>3 DEF ChainInv, ChainType
<1>4. /\ \A i \in 1..n - 1 : HopOK(hops'[i])
      /\ \A i \in 2..n - 1 : Linked(hops'[i - 1], hops'[i])
      /\ \A i \in 2..n - 1 : OfUser(UserAt(1), UserAt(i))
  BY <1>1, <1>2 DEF ChainInv
<1>5. /\ \A i \in 1..n - 1 : Header(hops'[i].md, "UserAuthority") = UserAt(i)
      /\ \A i \in 1..n - 1 : hops'[i].own = hops[i].own
  BY <1>2 DEF UserAt
<1>6. \A i \in 2..n - 1 : OfUser(Header(hops'[1].md, "UserAuthority"),
                                Header(hops'[i].md, "UserAuthority"))
  BY <1>1, <1>4, <1>5
<1>7. UserAuthorityTravels'
  <2>1. \A i \in 1..n - 1 :
          UserOn(hops', i) = UserOn(hops, i) /\ hops'[i].own = hops[i].own
    BY <1>5 DEF UserOn, UserAt
  <2>2. Travels(hops, n)
    BY <1>1, TravelsInChain DEF ChainInv
  <2>3. n - 1 \in 0..n
    BY <1>1
  <2>4. QED
    BY <1>2, <2>1, <2>2, <2>3, TravelsInPart, TravelsInChain
<1>8. DialingInv'
  BY DEF DialingInv
<1>9. QED
  BY <1>2, <1>3, <1>4, <1>6, <1>7, <1>8 DEF ChainInv, UserAt

-----------------------------------------------------------------------------
(* The steps.                                                              *)

LEMMA InnermostOK ==
    ASSUME ChainInv, hops # <<>>
    PROVE  HopOK(Innermost) /\ Len(hops) # 0
<1>1. Len(hops) \in Nat \ {0}
  BY NonEmptyLength DEF ChainInv, ChainType
<1>2. QED
  BY <1>1 DEF ChainInv, Innermost

LEMMA ClientCallInv ==
    ASSUME ChainInv, NEW s \in Services, NEW m \in Methods, NEW md \in ClientHeaders,
           ClientCall(s, m, md)
    PROVE  ChainInv'
<1> DEFINE h == Sent(s, m, md, now + ClientTimeout, FALSE)
<1>1. hops' = <<h>> /\ UNCHANGED <<now, token, dialing>> /\ hops = <<>>
  BY DEF ClientCall
<1>2. SignOfItsUser(md)
  BY HeaderAssumption DEF SignOfItsUser
<1>3. now + ClientTimeout \in Nat
  BY ConstantTypes DEF ChainInv, ChainType
<1> HIDE DEF h
<1>4. HopOK(h)
  BY <1>2, <1>3, SentHop DEF h
<1>5. <<h>> \in Seq({h}) /\ Len(<<h>>) = 1 /\ <<h>>[1] = h
  OBVIOUS
<1>6. IsSequence(hops') /\ Len(hops') = 1 /\ hops'[1] = h
  BY <1>1, <1>5 DEF IsSequence
<1>7. ChainType'
  BY <1>1, <1>6, ConstantTypes DEF ChainInv, ChainType
<1>8. dialing = NotDialing
  BY <1>1 DEF ChainInv, DialingInv
<1>9. DialingInv'
  BY <1>1, <1>8 DEF DialingInv
<1>10. UserAuthorityTravels'
  <2>1. Travels(hops', 1)
    BY DEF Travels
  <2>2. QED
    BY <1>6, <2>1, TravelsInChain
<1>11. QED
  BY <1>4, <1>6, <1>7, <1>9, <1>10 DEF ChainInv

LEMMA ResolveInv == ASSUME ChainInv, Resolve PROVE ChainInv'
<1>1. /\ UNCHANGED <<now, token, hops>> /\ hops # <<>>
      /\ Innermost.phase = "serving" /\ Len(hops) < MaxHops
  BY DEF Resolve, MayCall
<1>2. HopOK(Innermost) /\ Len(hops) # 0
  BY <1>1, InnermostOK
<1>3. dialing' = Prepare(Innermost.service, Innermost.md)
      /\ Innermost.service.Outbound # "interceptor"
  BY DEF Resolve
<1>4. SignOfItsUser(Innermost.md)
  BY <1>2 DEF HopOK
<1>5. Innermost' = Innermost
  BY <1>1 DEF Innermost
<1>6. DialingInv'
  BY <1>1, <1>2, <1>3, <1>4, <1>5, Prepared DEF DialingInv
<1>7. ChainType'
  BY <1>1 DEF ChainInv, ChainType
<1>8. QED
  BY <1>1, <1>6, <1>7, ChainFrame

LEMMA DialFailsInv == ASSUME ChainInv, DialFails PROVE ChainInv'
<1>1. UNCHANGED <<now, token, hops>> /\ dialing' = NotDialing
  BY DEF DialFails
<1>2. ChainType' /\ DialingInv'
  BY <1>1 DEF ChainInv, ChainType, DialingInv
<1>3. QED
  BY <1>1, <1>2, ChainFrame

\* What leaves the innermost hop is linked to it.
LEMMA OutgoingHop ==
    ASSUME HopOK(Innermost), NEW s \in Services, NEW m \in Methods, NEW md,
           NEW deadline \in Nat, deadline <= Innermost.deadline, NEW own,
           SignOfItsUser(md), PlainUser(md), AuthorityOf(Innermost.service, md)
    PROVE  /\ HopOK(Sent(s, m, md, deadline, own))
           /\ Linked(Innermost, Sent(s, m, md, deadline, own))
<1> DEFINE h == Sent(s, m, md, deadline, own)
<1>1. /\ HopOK(h) /\ h.md = md /\ h.deadline = deadline /\ h.phase = "sent"
  BY SentHop
<1> HIDE DEF h
<1>2. Linked(Innermost, h)
  BY <1>1 DEF Linked
<1>3. QED
  BY <1>1, <1>2 DEF h

LEMMA InvokeInv ==
    ASSUME ChainInv, NEW s \in Services, NEW m \in Methods, Invoke(s, m)
    PROVE  ChainInv'
<1> DEFINE md == IF Innermost.service.Outbound = "both"
                 THEN Prepare(Innermost.service, dialing) ELSE dialing
           deadline == CallDeadline(Innermost.deadline)
           h == Sent(s, m, md, deadline, FALSE)
<1>1. /\ dialing # NotDialing /\ dialing' = NotDialing /\ UNCHANGED <<now, token>>
      /\ hops' = Append(hops, h)
  BY DEF Invoke
<1>2. /\ Len(hops) # 0 /\ Len(hops) < MaxHops /\ Innermost.phase = "serving"
      /\ SignOfItsUser(dialing) /\ PlainUser(dialing)
      /\ AuthorityOf(Innermost.service, dialing)
      /\ Header(dialing, "UserAuthority") = Header(Innermost.md, "UserAuthority")
  BY <1>1 DEF ChainInv, DialingInv
<1>3. hops # <<>>
  BY <1>2
<1>4. HopOK(Innermost) /\ Innermost.deadline \in Nat
  BY <1>3, InnermostOK DEF HopOK
<1>5. /\ SignOfItsUser(md) /\ PlainUser(md) /\ AuthorityOf(Innermost.service, md)
      /\ Header(md, "UserAuthority") = Header(Innermost.md, "UserAuthority")
  BY <1>2, Prepared
<1>6. deadline \in Nat /\ deadline <= Innermost.deadline
  BY <1>4, ConstantTypes DEF CallDeadline, Earlier, ChainInv, ChainType
<1> HIDE DEF md, deadline
<1>7. HopOK(h) /\ Linked(Innermost, h) /\ h.md = md /\ ~h.own
  <2>1. HopOK(h) /\ Linked(Innermost, h)
    BY <1>4, <1>5, <1>6, OutgoingHop
  <2>2. h.md = md /\ h.own = FALSE
    BY DEF Sent
  <2>3. QED
    BY <2>1, <2>2, Zenon
<1> HIDE DEF h
<1>8. PassesUser(h)
  BY <1>5, <1>7 DEF PassesUser
<1>9. Grown(hops, hops', h)
  BY <1>1 DEF Grown
<1>10. QED
  BY <1>1, <1>2, <1>3, <1>7, <1>8, <1>9, ChainGrows

LEMMA InterceptorCallInv ==
    ASSUME ChainInv, NEW s \in Services, NEW m \in Methods,
           NEW own \in HandlerHeaders, InterceptorCall(s, m, own)
    PROVE  ChainInv'
<1> DEFINE md == IF own = NoOutgoing THEN Innermost.md ELSE own
           out == Prepare(Innermost.service, md)
           deadline == Innermost.deadline
           h == Sent(s, m, out, deadline, own # NoOutgoing)
<1>1. /\ dialing = NotDialing /\ dialing' = NotDialing /\ UNCHANGED <<now, token>>
      /\ hops' = Append(hops, h)
      /\ hops # <<>> /\ Len(hops) < MaxHops /\ Innermost.phase = "serving"
      /\ Innermost.service.Outbound = "interceptor"
  BY DEF InterceptorCall, MayCall
<1>2. HopOK(Innermost)
  BY <1>1, InnermostOK
<1>3. own # NoOutgoing => SignOfItsUser(own) /\ Header(own, "UserAuthority") = ""
  BY HeaderAssumption DEF SignOfItsUser, Header
<1>4. SignOfItsUser(md)
  BY <1>2, <1>3 DEF HopOK
<1>5. /\ SignOfItsUser(out) /\ PlainUser(out) /\ AuthorityOf(Innermost.service, out)
      /\ Header(out, "UserAuthority") = Header(md, "UserAuthority")
  BY <1>4, Prepared
<1>6. deadline \in Nat /\ deadline <= Innermost.deadline
  BY <1>2 DEF HopOK
<1> HIDE DEF out
<1>7. /\ HopOK(h) /\ Linked(Innermost, h) /\ h.md = out
      /\ h.own = (own # NoOutgoing)
  BY <1>2, <1>5, <1>6, OutgoingHop, SentHop
<1> HIDE DEF h
<1>8. PassesUser(h)
  BY <1>3, <1>5, <1>7 DEF PassesUser
<1>9. Grown(hops, hops', h)
  BY <1>1 DEF Grown
<1>10. QED
  BY <1>1, <1>7, <1>8, <1>9, ChainGrows

LEMMA AllowInv == ASSUME ChainInv, Allow PROVE ChainInv'
<1> DEFINE k == [Innermost EXCEPT !.phase = "allowed", !.md = AllowedMd(Innermost)]
<1>1. /\ hops # <<>> /\ Innermost.phase = "sent"
      /\ UNCHANGED <<now, token, dialing>>
      /\ SetInnermost(k)
  BY DEF Allow, AllowedMd
<1>2. HopOK(Innermost)
  BY <1>1, InnermostOK
<1>3. HopOK(k) /\ SameCall(Innermost, k) /\ PlainUser(k.md) /\ k.phase # "serving"
  BY <1>1, <1>2, AllowedHop
<1> HIDE DEF k
<1>4. Settles(k)
  BY <1>3 DEF Settles
<1>5. QED
  BY <1>1, <1>4, ChainSettles

LEMMA DeliverInv == ASSUME ChainInv, Deliver PROVE ChainInv'
<1> DEFINE g == Innermost
           k == [g EXCEPT !.phase = "serving", !.md = WithLocalIdentity(g.md, g.service),
                          !.context = EntryContext(g.md, g.service, g.method)]
<1>1. /\ hops # <<>> /\ g.phase # "serving"
      /\ UNCHANGED <<now, token, dialing>>
      /\ Enters(g.md, g.service, g.method, Options, now)
      /\ SetInnermost(k)
  BY DEF Deliver
<1>2. HopOK(g)
  BY <1>1, InnermostOK
<1>3. /\ HopOK(k) /\ SameCall(g, k)
      /\ PlainUser(g.md) => PlainUser(k.md) /\ UserInContext(k)
  BY <1>1, <1>2, DeliveredHop
<1> HIDE DEF k
<1>4. Settles(k)
  BY <1>3 DEF Settles
<1>5. QED
  BY <1>1, <1>4, ChainSettles

LEMMA EndsInv == ASSUME ChainInv, Ends PROVE ChainInv'
<1>1. /\ hops # <<>> /\ dialing = NotDialing /\ UNCHANGED <<now, token, dialing>>
      /\ Shrunk(hops, hops')
  BY DEF Ends, Shrunk
<1>2. QED
  BY <1>1, ChainShrinks

LEMMA TimePassesInv ==
    ASSUME ChainInv, Tick \/ \E s \in Services : Refresh(s)
    PROVE  ChainInv'
<1>1. hops' = hops /\ dialing' = dialing
  BY DEF Tick, Refresh
<1>2. now' \in 0..MaxTime /\ token' \in [Services -> 0..MaxTime + TokenTTL]
  BY ConstantTypes DEF Tick, Refresh, ChainInv, ChainType
<1>3. ChainType'
  BY <1>1, <1>2 DEF ChainInv, ChainType
<1>4. DialingInv'
  BY <1>1 DEF ChainInv, DialingInv, Innermost
<1>5. QED
  BY <1>1, <1>3, <1>4, ChainFrame

LEMMA NextInv == ChainInv /\ [Next]_vars => ChainInv'
<1> SUFFICES ASSUME ChainInv, [Next]_vars PROVE ChainInv'
  OBVIOUS
<1>1. CASE UNCHANGED vars
  <2>1. ChainType' /\ DialingInv' /\ hops' = hops
    BY <1>1 DEF vars, ChainInv, ChainType, DialingInv, Innermost
  <2>2. QED
    BY <2>1, ChainFrame
<1>2. CASE Next
  BY <1>2, ClientCallInv, InvokeInv, InterceptorCallInv, ResolveInv, DialFailsInv,
     AllowInv, DeliverInv, EndsInv, TimePassesInv DEF Next
<1>3. QED
  BY <1>1, <1>2

LEMMA InitInv == Init => ChainInv
<1> SUFFICES ASSUME Init PROVE ChainInv
  OBVIOUS
<1>1. IsSequence(hops) /\ Len(hops) = 0
  BY EmptySeq DEF Init, IsSequence
<1>2. ChainType
  BY <1>1, ConstantTypes DEF Init, ChainType
<1>3. QED
  BY <1>1, <1>2 DEF Init, ChainInv, UserAuthorityTravels, Inner, DialingInv

LEMMA Chain == Spec => []ChainInv
BY InitInv, NextInv, PTL DEF Spec

-----------------------------------------------------------------------------
(* The properties.                                                         *)

\* Every variable keeps its type; only the innermost call can be one that does not
\* serve yet.
THEOREM TypeCorrect == Spec => []TypeOK
<1>1. ChainInv => TypeOK
  <2> SUFFICES ASSUME ChainInv PROVE TypeOK
    OBVIOUS
  <2>1. \A i \in 1..Len(hops) : HopOK(hops[i])
    BY DEF ChainInv
  <2>2. Len(hops) \in Nat
    BY NonEmptyLength DEF ChainInv, ChainType
  <2>3. \A i \in 1..Len(hops) : i < Len(hops) => hops[i].phase = "serving"
    BY <2>2 DEF ChainInv, ChainType
  <2>4. dialing # NotDialing => hops # <<>> /\ hops[Len(hops)].phase = "serving"
    <3>1. hops = <<>> => Len(hops) = 0
      BY EmptySeq
    <3>2. QED
      BY <3>1 DEF ChainInv, DialingInv, Innermost
  <2>5. QED
    BY <2>1, <2>3, <2>4 DEF ChainInv, ChainType, TypeOK, HopOK
<1>2. QED
  BY <1>1, Chain, PTL

\* A service with a provider calls on in its own name, one without in nobody's.
THEOREM CallsInOwnName == Spec => []OwnAuthority
<1>1. ChainInv => OwnAuthority
  BY DEF ChainInv, Linked, AuthorityOf, OwnAuthority, Inner
<1>2. QED
  BY <1>1, Chain, PTL

\* No call outlives the one it is made for, however deep the chain is.
THEOREM NestedDeadlines == Spec => []DeadlinesNest
<1>1. ChainInv => DeadlinesNest
  BY DEF ChainInv, Linked, DeadlinesNest, Inner
<1>2. QED
  BY <1>1, Chain, PTL

\* The user's authority gets lost only where a handler made its own metadata.
THEOREM UserAuthorityKept == Spec => []UserAuthorityTravels
BY Chain, PTL DEF ChainInv

\* Whoever verifies serves on a decision for this very hop and its user.
THEOREM DecidedHere == Spec => []DecidedForThisHop
<1>1. ChainInv => DecidedForThisHop
  <2> SUFFICES ASSUME \A i \in 1..Len(hops) : HopOK(hops[i])
               PROVE  DecidedForThisHop
    BY DEF ChainInv
  <2>1. QED
    BY DEF HopOK, Decided, DecidedForThisHop
<1>2. QED
  BY <1>1, Chain, PTL

\* No context along the chain is of anyone but the client's user.
THEOREM OneUser == Spec => []SameUserInContext
<1>1. ASSUME ChainInv, NEW i \in 1..Len(hops), hops[i].phase = "serving",
             i > 1 \/ ~Skips(hops[i].service, hops[i].method)
      PROVE  OfUser(UserAt(1), hops[i].context.UserId)
  <2>1. Len(hops) \in Nat
    BY <1>1, NonEmptyLength DEF ChainInv, ChainType
  <2>2. OfUser(UserAt(i), hops[i].context.UserId)
    <3>1. HopOK(hops[i]) /\ (i > 1 => Linked(hops[i - 1], hops[i]))
      BY <1>1, <2>1 DEF ChainInv
    <3>2. UserInContext(hops[i])
      BY <1>1, <3>1 DEF HopOK, Linked
    <3>3. QED
      BY <3>2 DEF UserInContext, UserAt
  <2>3. OfUser(UserAt(1), UserAt(i))
    <3>1. CASE i = 1
      BY <3>1, SameUser
    <3>2. CASE i # 1
      BY <1>1, <2>1, <3>2 DEF ChainInv
    <3>3. QED
      BY <3>1, <3>2
  <2>4. QED
    BY <2>2, <2>3 DEF OfUser
<1>2. ChainInv => SameUserInContext
  BY <1>1 DEF SameUserInContext, OfUser, UserAt, User
<1>3. QED
  BY <1>2, Chain, PTL

LEMMA PreparedToken ==
    ASSUME NEW s, NEW md, CanPrepare(s), s.Provider
    PROVE  Prepare(s, md)["ServiceAuthority"].exp > now
BY DEF Prepare, Put, CanPrepare, HasToken

\* A call that the interceptor sends carries a service token that is good when it goes.
THEOREM FreshWhenSent == Spec => FreshAuthority
<1> DEFINE Fresh ==
             Len(hops') > Len(hops) /\ hops # <<>> /\
             Innermost.service.Provider /\ Innermost.service.Outbound # "invoker"
               => hops'[Len(hops')].md["ServiceAuthority"].exp > now
<1>1. ChainInv /\ [Next]_vars => [Fresh]_vars
  <2> SUFFICES ASSUME ChainInv, Next, Len(hops') > Len(hops), hops # <<>>,
                      Innermost.service.Provider,
                      Innermost.service.Outbound # "invoker"
               PROVE  hops'[Len(hops')].md["ServiceAuthority"].exp > now
    OBVIOUS
  <2>1. IsSequence(hops) /\ Len(hops) \in Nat \ {0}
    BY NonEmptyLength DEF ChainInv, ChainType
  <2>2. ~UNCHANGED hops
    BY <2>1
  <2>3. HopOK(Innermost)
    BY InnermostOK
  <2>4. ~Ends
    <3> SUFFICES ASSUME Ends PROVE FALSE
      OBVIOUS
    <3>1. Shrunk(hops, hops') /\ Len(hops) # 0
      BY <2>1 DEF Ends, Shrunk
    <3>2. Len(hops') = Len(hops) - 1
      BY <2>1, <3>1, ShrinksByOne
    <3>3. QED
      BY <2>1, <3>2
  <2>5. ~\E k : SetInnermost(k)
    <3> SUFFICES ASSUME NEW k, SetInnermost(k) PROVE FALSE
      OBVIOUS
    <3>1. Changed(hops, hops', k) /\ Len(hops) # 0
      BY <2>1 DEF SetInnermost, Changed
    <3>2. Len(hops') = Len(hops)
      BY <2>1, <3>1, ChangesAtEnd
    <3>3. QED
      BY <2>1, <3>2
  <2>6. PICK s \in Services, m \in Methods :
             Invoke(s, m) \/ \E own \in HandlerHeaders : InterceptorCall(s, m, own)
    BY <2>2, <2>4, <2>5
    DEF Next, ClientCall, Resolve, DialFails, Allow, Deliver, Refresh, Tick
  <2>7. PICK md, deadline, own :
             /\ CanPrepare(Innermost.service)
             /\ hops' = Append(hops, Sent(s, m, Prepare(Innermost.service, md), deadline, own))
    <3>1. CASE Invoke(s, m)
      <4>1. Innermost.service.Outbound # "interceptor"
        BY <3>1 DEF Invoke, ChainInv, DialingInv
      <4>2. Innermost.service.Outbound = "both"
        BY <2>3, <4>1, InputAssumption DEF HopOK
      <4>3. QED
        BY <3>1, <4>2 DEF Invoke
    <3>2. CASE \E own \in HandlerHeaders : InterceptorCall(s, m, own)
      BY <3>2 DEF InterceptorCall
    <3>3. QED
      BY <2>6, <3>1, <3>2
  <2> DEFINE h == Sent(s, m, Prepare(Innermost.service, md), deadline, own)
  <2>8. h.md = Prepare(Innermost.service, md)
    BY DEF Sent
  <2> HIDE DEF h
  <2>9. Grown(hops, hops', h)
    BY <2>7 DEF Grown, h
  <2>10. hops'[Len(hops')] = h
    BY <2>1, <2>9, GrowsByOne
  <2>11. QED
    BY <2>7, <2>8, <2>10, PreparedToken
<1>2. QED
  BY <1>1, Chain, PTL DEF Spec, FreshAuthority
=============================================================================
