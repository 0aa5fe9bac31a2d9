----------------------------- MODULE RequestScope -----------------------------
(***************************************************************************)
(* The request scope of an RPC: which application and tenant the caller    *)
(* asks to work on, and whether the product's authorizer lets it           *)
(* (service/request_scope.go and middleware/grpc/request_scope.go).        *)
(*                                                                         *)
(* A request message has the two top-level fields as a protobuf descriptor *)
(* shows them: absent, of another type than string, empty, or a value.     *)
(*                                                                         *)
(* A call meets one of several services, each with a registry and perhaps  *)
(* an authorizer.  What happens after the handler has begun, and to a      *)
(* refusal, is in ServerChain.                                             *)
(***************************************************************************)
EXTENDS ErrorTree

CONSTANTS
    Methods,
    Registries,      \* tables a registry may be built from: method -> policy
    Messages,        \* [proto, valid, app_id, tenant_id]
    Decisions,       \* what the authorizer may answer
    AuthorizerErrors,
    Dims,            \* the dimensions: "app_id" and "tenant_id"
    MaxTime,
    NoService, NoCall, NoPolicy, NoScope, NoDecision

Modes == {"CREATE_OWNER", "QUERY_RANGE", "UPDATE_OWNER", "TRANSFER_OWNER"}

\* RequestScopePolicy.Validate.
ValidPolicy(policy) ==
    \/ policy.mode = "NONE"
    \/ policy.mode \in Modes /\ policy.allowed # {}

\* NewRequestScopePolicyRegistry: every entry is valid, or there is no registry.
ValidTable(table) ==
    \A m \in DOMAIN table : m # "" /\ ValidPolicy(table[m])

VARIABLES
    service,         \* [table, authorizer] of the call's service
    now,             \* since the call began
    phase,           \* "idle", "asking", "serving", "failed"; the rest in ServerChain
    call,            \* [method, message]
    scope,           \* RequestScopeContext of the handler's context, or NoScope
    requested,       \* while the authorizer is asked
    err              \* what the call has come to

scopeVars == <<service, now, phase, call, scope, requested, err>>

\* RequestScopeContext.
Values == {""} \cup UNION {{message[d] : d \in Dims} : message \in Messages}
Policies == UNION {{table[m] : m \in DOMAIN table} : table \in Registries}
ScopeContexts == [method : Methods, policy : Policies, requested : [Dims -> Values],
                  decision : Decisions \cup {NoDecision}]

\* Policies know the two dimensions and no other.
ASSUME ScopeAssumption ==
    /\ \A policy \in Policies : policy.allowed \subseteq Dims
    /\ NoScope \notin ScopeContexts
    /\ NoDecision \notin Decisions
    /\ \A decision \in Decisions : decision.expiresAt \in Nat

Services == [table : {t \in Registries : ValidTable(t)}, authorizer : BOOLEAN]

\* What the fields hold: [d \in Dims |-> value], "" for not present.
NothingRequested == [d \in Dims |-> ""]
Explicit(r) == r # NothingRequested
Present(r) == {d \in Dims : r[d] # ""}

ScopeInit ==
    /\ service = NoService
    /\ now = 0
    /\ phase = "idle"
    /\ call = NoCall
    /\ scope = NoScope
    /\ requested = NothingRequested
    /\ err = Nil

Policy(s, m) == IF m \in DOMAIN s.table THEN s.table[m] ELSE NoPolicy
Scoped(s, m) == Policy(s, m) # NoPolicy /\ Policy(s, m).mode # "NONE"

\* readRequestScopeString, for the dimensions of the policy only.
Extract(message, policy) ==
    [d \in Dims |-> IF d \notin policy.allowed \/ message[d] = "absent" THEN ""
                    ELSE message[d]]
WrongType(message, policy) == \E d \in policy.allowed : message[d] = "wrong type"

Fail(e) == phase' = "failed" /\ err' = e
Refuse(code) == Fail(Status(code, NoInfo, {}))

Begin(s, m, message) ==
    /\ phase = "idle"
    /\ service' = s
    /\ call' = [method |-> m, message |-> message]
    /\ UNCHANGED now

\* Not registered, or registered as NONE: the fields are the business's own.
PassThrough(s, m, message) ==
    /\ Begin(s, m, message)
    /\ ~Scoped(s, m)
    /\ phase' = "serving"
    /\ UNCHANGED <<scope, requested, err>>

NotReadable(s, m, message) ==
    /\ Begin(s, m, message)
    /\ Scoped(s, m)
    /\ \/ ~message.proto /\ Refuse("Internal")
       \/ message.proto /\ (~message.valid \/ WrongType(message, Policy(s, m)))
            /\ Refuse("InvalidArgument")
    /\ UNCHANGED <<scope, requested>>

Readable(s, m, message) ==
    /\ Scoped(s, m)
    /\ message.proto
    /\ message.valid
    /\ ~WrongType(message, Policy(s, m))

ServeDefault(s, m, message) ==
    /\ Begin(s, m, message)
    /\ Readable(s, m, message)
    /\ ~Explicit(Extract(message, Policy(s, m)))
    /\ phase' = "serving"
    /\ scope' = [method |-> m, policy |-> Policy(s, m), requested |-> NothingRequested,
                 decision |-> NoDecision]
    /\ UNCHANGED <<requested, err>>

Ask(s, m, message) ==
    /\ Begin(s, m, message)
    /\ Readable(s, m, message)
    /\ Explicit(Extract(message, Policy(s, m)))
    /\ IF s.authorizer
       THEN /\ phase' = "asking"
            /\ requested' = Extract(message, Policy(s, m))
            /\ UNCHANGED err
       ELSE Refuse("FailedPrecondition") /\ UNCHANGED requested
    /\ UNCHANGED scope

\* The authorizer takes its time.
Tick ==
    /\ phase = "asking"
    /\ now < MaxTime
    /\ now' = now + 1
    /\ UNCHANGED <<service, phase, call, scope, requested, err>>

\* Mutant: one dimension in the decision is enough.
CoversSome(decision, r) ==
    \E d \in Present(r) : decision.all[d] \/ r[d] \in decision.ids[d]
\* RequestScopeDecision.Validate.
Covers(decision, r) == \A d \in Present(r) : decision.all[d] \/ r[d] \in decision.ids[d]
InTime(decision) == decision.expiresAt = 0 \/ decision.expiresAt > now

Answer(decision) ==
    /\ phase = "asking"
    /\ IF ~decision.allowed THEN Refuse("PermissionDenied") /\ UNCHANGED scope
       ELSE IF ~InTime(decision) \/ ~Covers(decision, requested)
       THEN Refuse("Internal") /\ UNCHANGED scope
       ELSE /\ phase' = "serving"
            /\ scope' = [method |-> call.method, policy |-> Policy(service, call.method),
                         requested |-> requested, decision |-> decision]
            /\ UNCHANGED err
    /\ requested' = NothingRequested
    /\ UNCHANGED <<service, now, call>>

\* The authorizer's error goes to the caller as it is.
\* Mutant: the handler runs on the default scope.
AnswerFailsOpen(e) ==
    /\ phase = "asking"
    /\ phase' = "serving"
    /\ scope' = [method |-> call.method, policy |-> Policy(service, call.method),
                 requested |-> NothingRequested, decision |-> NoDecision]
    /\ requested' = NothingRequested
    /\ UNCHANGED <<service, now, call, err>>
AnswerFails(e) ==
    /\ phase = "asking"
    /\ Fail(e)
    /\ requested' = NothingRequested
    /\ UNCHANGED <<service, now, call, scope>>

ScopeNext ==
    \/ \E s \in Services, m \in Methods, message \in Messages :
         \/ PassThrough(s, m, message) \/ NotReadable(s, m, message)
         \/ ServeDefault(s, m, message) \/ Ask(s, m, message)
    \/ Tick
    \/ \E decision \in Decisions : Answer(decision)
    \/ \E e \in AuthorizerErrors : AnswerFails(e)

-----------------------------------------------------------------------------
(* Properties.                                                             *)

\* A handler that starts on an explicit scope has a decision that covers all of it and
\* is still good, however long the authorizer took.
StartsAuthorized ==
    [][phase # "serving" /\ phase' = "serving" /\ scope' # NoScope
         /\ Explicit(scope'.requested) =>
         /\ scope'.decision # NoDecision
         /\ scope'.decision.allowed
         /\ scope'.decision.expiresAt # 0 => now < scope'.decision.expiresAt
         /\ \A d \in Dims : scope'.requested[d] # "" =>
              scope'.decision.all[d] \/ scope'.requested[d] \in scope'.decision.ids[d]]_scopeVars

\* What a caller names in an allowed dimension is what the handler works on: it is never
\* dropped in favour of the default, whatever the authorizer does.
NeverFallsBack ==
    phase = "serving" /\ Scoped(service, call.method) =>
        \A d \in Policy(service, call.method).allowed :
            call.message[d] \notin {"absent", ""} =>
                scope # NoScope /\ scope.requested[d] = call.message[d]
=============================================================================
