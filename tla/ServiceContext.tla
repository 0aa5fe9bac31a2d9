---------------------------- MODULE ServiceContext ----------------------------
(***************************************************************************)
(* The entry of a business service: the interceptor of                     *)
(* middleware/grpc/service_context.go and the service.Context it builds    *)
(* (service/context.go).                                                   *)
(*                                                                         *)
(* Metadata is a function from the keys that are present to their first    *)
(* value.  Of the user fields and the decision fields, which are each      *)
(* treated alike, the model keeps the ones that other fields are derived   *)
(* from; beside them it keeps the one header that no sign speaks for, the  *)
(* client's AppLanguage.                                                   *)
(***************************************************************************)
EXTENDS AuthzSign

CONSTANT NotVerified      \* a context nothing was verified for

\* ParseMetaKey.
Header(md, key) == IF key \in DOMAIN md THEN md[key] ELSE ""
SignHeader(md) == IF "AuthzSign" \in DOMAIN md THEN md["AuthzSign"] ELSE MissingSign

\* md.Set on a copy.
Put(md, key, value) ==
    [k \in DOMAIN md \cup {key} |-> IF k = key THEN value ELSE md[k]]

\* appendLocalServiceIdentityToIncomingContext.
WithLocalIdentity(md, service) ==
    IF service.AppId = "" THEN md ELSE Put(md, "ServiceAppId", service.AppId)

UserOf(userId, appId) ==
    IF userId = "" /\ appId = "" THEN NoUser ELSE [UserId |-> userId, AppId |-> appId]

\* BuildContext: every field as the caller's metadata has it.
BuildContext(md, service) ==
    [ServiceAppId |-> service.AppId,
     AppLanguage |-> Header(md, "AppLanguage"),
     UserId |-> Header(md, "UserId"), AppId |-> Header(md, "AppId"),
     SubjectType |-> Header(md, "SubjectType"),
     InvokeAppId |-> Header(md, "InvokeAppId"),
     TargetAppId |-> Header(md, "TargetAppId"),
     UserContext |-> UserOf(Header(md, "UserId"), Header(md, "AppId")),
     InvokeServiceAppId |-> IF Header(md, "SubjectType") = "service"
                            THEN Header(md, "InvokeAppId") ELSE "",
     TargetServiceAppId |-> Header(md, "TargetAppId"),
     VerifiedAuthzSign |-> NotVerified]

\* applyVerifiedAuthzSign, after normalizeVerifiedAuthzSign.  AppLanguage stays.
\* Mutant: a sign without a user leaves the metadata's user in place.
KeepUnsignedUser(ctx, c) ==
    LET user == IF c.UserContext = NoUser THEN ctx.UserContext ELSE c.UserContext
    IN  [ctx EXCEPT !.UserId = IF user = NoUser THEN "" ELSE user.UserId,
                    !.AppId = IF user = NoUser THEN "" ELSE user.AppId,
                    !.SubjectType = c.SubjectType, !.InvokeAppId = c.InvokeAppId,
                    !.TargetAppId = c.TargetAppId, !.UserContext = user,
                    !.InvokeServiceAppId = c.InvokeServiceAppId,
                    !.TargetServiceAppId = c.TargetServiceAppId,
                    !.VerifiedAuthzSign = c]
ApplyVerifiedAuthzSign(ctx, c) ==
    LET user == c.UserContext
    IN  [ctx EXCEPT !.UserId = IF user = NoUser THEN "" ELSE user.UserId,
                    !.AppId = IF user = NoUser THEN "" ELSE user.AppId,
                    !.SubjectType = c.SubjectType, !.InvokeAppId = c.InvokeAppId,
                    !.TargetAppId = c.TargetAppId, !.UserContext = user,
                    !.InvokeServiceAppId = c.InvokeServiceAppId,
                    !.TargetServiceAppId = c.TargetServiceAppId,
                    !.VerifiedAuthzSign = c]

\* Whether BuildVerifiedContext hands out a context, and which.
Admits(md, service, options, now) ==
    /\ VerifyAuthzSign(SignHeader(md), options, now) = "ok"
    /\ service.AppId # ""
    /\ SignHeader(md).claims.TargetAppId = service.AppId

\* buildServiceContext: what this call must be bound to, unless configured.
\* Mutant: the method of the call is not expected of the sign.
ResolvedAnyPath(options, method) ==
    [options EXCEPT !.TargetMethod = IF @ = "" THEN GRPC ELSE @]
Resolved(options, method) ==
    [options EXCEPT !.TargetMethod = IF @ = "" THEN GRPC ELSE @,
                    !.TargetPath = IF @ = "" THEN method ELSE @]

\* No verification is configured, or not for this method.
Skips(service, method) ==
    ~service.Verifies \/ method \in service.AuthzSkipMethods

Enters(md, service, method, options, now) ==
    \/ Skips(service, method)
    \/ Admits(WithLocalIdentity(md, service), service, Resolved(options, method), now)

EntryContext(md, service, method) ==
    LET local == WithLocalIdentity(md, service)
        ctx == BuildContext(local, service)
    IN  IF Skips(service, method) THEN ctx
        ELSE ApplyVerifiedAuthzSign(ctx, SignHeader(local).claims)

\* NewAccessLogger: who a call is logged for.  With a service.Context in place it alone
\* is asked, and what is empty there is left out; otherwise the headers are.
\* Mutant: a header stands in for what is empty in the context.
LogFields ==
    {"ServiceAppId", "UserId", "AppId", "SubjectType", "InvokeAppId", "TargetAppId"}
LoggedWithHeaders(md, hasContext, ctx) ==
    [f \in LogFields |->
        IF hasContext /\ ctx[f] # "" THEN ctx[f] ELSE Header(md, f)]
LoggedIdentity(md, hasContext, ctx) ==
    [f \in LogFields |-> IF hasContext THEN ctx[f] ELSE Header(md, f)]
=============================================================================
