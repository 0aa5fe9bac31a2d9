-------------------------- MODULE MCSignPresentation --------------------------
(***************************************************************************)
(* Signs for TLC: the ones the authz service issues, and each of them with *)
(* one claim changed.                                                      *)
(***************************************************************************)
EXTENDS SignPresentation, TLC

CONSTANTS key1, key2

Alice == [UserId |-> "alice", AppId |-> "app"]

UserClaims ==
    [Issuer |-> "authz", SubjectId |-> "app", SubjectType |-> "user",
     UserContext |-> Alice, InvokeAppId |-> "app", InvokeServiceAppId |-> "",
     TargetAppId |-> "a", TargetServiceAppId |-> "a",
     RouteMethod |-> "POST", RoutePath |-> "/route",
     TargetMethod |-> "GRPC", TargetPath |-> "m1",
     Decision |-> "allow", nbf |-> 0, exp |-> 2]
ServiceClaims ==
    [UserClaims EXCEPT !.SubjectType = "service", !.UserContext = NoUser,
                       !.InvokeServiceAppId = "app", !.nbf = 1]
AnonymousClaims ==
    [UserClaims EXCEPT !.SubjectType = "anonymous", !.UserContext = NoUser,
                       !.SubjectId = "anonymous", !.InvokeAppId = ""]
\* Without a target of its own.
RouteClaims ==
    [UserClaims EXCEPT !.RouteMethod = "grpc", !.RoutePath = "m1",
                       !.TargetMethod = "", !.TargetPath = ""]

Issued == {UserClaims, AnonymousClaims, RouteClaims, ServiceClaims}

Changed(c) ==
    {[c EXCEPT !.Issuer = "other"], [c EXCEPT !.SubjectId = ""],
     [c EXCEPT !.SubjectType = ""], [c EXCEPT !.SubjectType = "user"],
     [c EXCEPT !.InvokeAppId = "other"], [c EXCEPT !.InvokeAppId = ""],
     [c EXCEPT !.InvokeServiceAppId = "other"],
     [c EXCEPT !.UserContext = NoUser], [c EXCEPT !.UserContext.UserId = ""],
     [c EXCEPT !.TargetAppId = "b"], [c EXCEPT !.TargetServiceAppId = "b"],
     [c EXCEPT !.RouteMethod = "POST"], [c EXCEPT !.RoutePath = "m2"],
     [c EXCEPT !.TargetMethod = ""], [c EXCEPT !.TargetPath = "m2"],
     [c EXCEPT !.Decision = "deny"], [c EXCEPT !.exp = 0], [c EXCEPT !.nbf = 2]}

Jws(kid, signer, c) == [alg |-> EdDSA, kid |-> kid, signer |-> signer, claims |-> c]

AuthzIssued == {Jws("default", key1, c) : c \in Issued}
AllSigns ==
    {Jws("default", key1, c) :
        c \in Issued \cup Changed(UserClaims) \cup Changed(RouteClaims)
              \cup {[ServiceClaims EXCEPT !.InvokeServiceAppId = "other"],
                    [ServiceClaims EXCEPT !.InvokeServiceAppId = ""]}}
    \cup {[Jws("default", key1, UserClaims) EXCEPT !.alg = "HS256"],
          Jws("old", key1, UserClaims), Jws("old", key2, UserClaims),
          Jws("default", key2, UserClaims), MissingSign, MalformedSign}

Options(keys, key, skew) ==
    [PublicKeys |-> keys, PublicKey |-> key, Issuer |-> "authz", RouteMethod |-> "",
     RoutePath |-> "", TargetMethod |-> "", TargetPath |-> "", ClockSkew |-> skew]
\* As a service puts them together itself, and as NewVerificationOptions does.
Config(kid, path, key, skew) ==
    [Kid |-> kid, Issuer |-> "", PublicKeyPath |-> path, PublicKey |-> key,
     ClockSkew |-> skew]
Configs ==
    {Config("", "authz.pem", key1, <<1>>), Config("old", "authz.pem", key2, <<0>>),
     Config("", "", NoKey, <<>>), Config("", "lost.pem", NoKey, <<>>),
     Config("", "authz.pem", key1, <<-1>>)}
SomeOptionSets ==
    {Options("default" :> key1, key2, 1), Options(<<>>, key1, 0),
     Options("default" :> key1 @@ "old" :> key2, NoKey, 0)} \cup
    {NewVerificationOptions(cfg) : cfg \in {c \in Configs : ValidVerification(c)}}

AB == {[AppId |-> "a", Verifies |-> TRUE, AuthzSkipMethods |-> {}],
       [AppId |-> "b", Verifies |-> TRUE, AuthzSkipMethods |-> {"m2"}]}
TwoMethods == {"m1", "m2"}
Beside == {<<>>, "UserId" :> "bob" @@ "AppId" :> "app2" @@ "SubjectType" :> "service" @@
                 "InvokeAppId" :> "app2" @@ "TargetAppId" :> "b" @@
                 "AppLanguage" :> "fr"}
=============================================================================
