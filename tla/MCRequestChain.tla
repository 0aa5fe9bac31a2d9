---------------------------- MODULE MCRequestChain ----------------------------
(***************************************************************************)
(* Three services for TLC, one for each way out; the last one verifies     *)
(* nothing and has no provider.                                            *)
(***************************************************************************)
EXTENDS RequestChain, TLC

CONSTANTS key1

Service(app, verifies, provider, outbound) ==
    [AppId |-> app, Verifies |-> verifies, AuthzSkipMethods |-> {"health"},
     Provider |-> provider, Outbound |-> outbound]

Party ==
    {Service("a", TRUE, TRUE, "both"), Service("b", TRUE, TRUE, "interceptor"),
     Service("c", FALSE, FALSE, "invoker")}

OneMethodAndHealth == {"m1", "health"}

\* A user's call and one without a user, both with identity headers of the client's
\* own making.
Clients ==
    {"UserAuthority" :> "alice" @@ "UserId" :> "bob" @@ "Trace" :> "t" @@ "other" :> "x",
     "UserId" :> "bob" @@ "ServiceAppId" :> "z"}

\* A handler that leaves its context alone, one that adds a trace header to it, and one
\* that adds a header which does not leave the service.
OwnHeader == {NoOutgoing, "Trace" :> "own", "other" :> "own"}

VerifyOptions ==
    [PublicKeys |-> "default" :> key1, PublicKey |-> NoKey, Issuer |-> "authz",
     RouteMethod |-> "", RoutePath |-> "", TargetMethod |-> "", TargetPath |-> "",
     ClockSkew |-> 0]
=============================================================================
