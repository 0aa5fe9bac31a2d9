------------------------------ MODULE ErrorTree ------------------------------
(***************************************************************************)
(* Errors as a service passes them around: the structured errors of        *)
(* werror, what errors.Join and fmt.Errorf make of errors, and what a      *)
(* server's exit and gRPC itself read out of the result                    *)
(* (werror/error.go, werror/definition.go, middleware/grpc/error.go).      *)
(*                                                                         *)
(* errors.Is and errors.As look at a tree of errors in pre-order only, so  *)
(* an error is the sequence of its nodes in that order: the head is the    *)
(* error itself, what follows is what it wraps, and nil is <<>>.  A text   *)
(* is the set of the words that somebody wrote into it.                    *)
(***************************************************************************)
EXTENDS Integers, Sequences

CONSTANTS
    Sentinels,       \* errors a product compares with errors.Is
    NoInfo           \* no google.rpc.ErrorInfo

\* Lists of any kind: errors, options, mappings.
IsList(s) == s \in Seq({s[i] : i \in DOMAIN s})

Nil == <<>>
Node(type, code, info, text) ==
    [type |-> type, code |-> code, info |-> info, text |-> text]
Text(e) == IF e = Nil THEN {} ELSE e[1].text

First(e, types) ==
    LET at == {i \in DOMAIN e : e[i].type \in types}
    IN  CHOOSE i \in at : \A j \in at : i <= j
Holds(e, types) == \E i \in DOMAIN e : e[i].type \in types

-----------------------------------------------------------------------------
(* The standard library and gRPC.                                          *)

\* Errors without a status: "plain", "canceled", "deadline", "validation", a sentinel.
Leaf(type, text) == <<Node(type, "none", NoInfo, text)>>
Wrapped(w, e) == <<Node("wrap", "none", NoInfo, {w} \cup Text(e))>> \o e
Joined(a, b) == <<Node("join", "none", NoInfo, Text(a) \cup Text(b))>> \o a \o b

\* status.Error and Status.Err: OK is no error.
Status(code, info, text) ==
    IF code = "OK" THEN Nil ELSE <<Node("status", code, info, text)>>

\* status.FromError: the first node with a GRPCStatus decides, the text is that of all.
StatusTypes == {"werror", "nil werror", "status"}
HasStatus(e) == Holds(e, StatusTypes)
StatusNode(e) == e[First(e, StatusTypes)]

\* What the gRPC server answers for the error that leaves the interceptors.
OnWire(e) ==
    LET answer(code, info) == [code |-> code, info |-> info, text |-> Text(e)]
    IN  IF e = Nil THEN answer("OK", NoInfo)
        ELSE IF HasStatus(e) THEN answer(StatusNode(e).code, StatusNode(e).info)
        ELSE IF Holds(e, {"deadline"}) THEN answer("DeadlineExceeded", NoInfo)
        ELSE IF Holds(e, {"canceled"}) THEN answer("Canceled", NoInfo)
        ELSE answer("Unknown", NoInfo)

-----------------------------------------------------------------------------
(* werror.                                                                 *)

NormalizeCode(code) == IF code = "OK" THEN "Unknown" ELSE code

\* Options are applied in order: the last one of a field wins.
Option(field, value) == [field |-> field, value |-> value]
Given(options, field, default) ==
    LET at == {i \in DOMAIN options : options[i].field = field}
    IN  IF at = {} THEN default
        ELSE options[CHOOSE i \in at : \A j \in at : j <= i].value

\* Error.Message; the text of a code holds no words.
\* Mutant: the cause is always appended.
MessageWithCause(message, cause) == message \cup Text(cause)
Message(message, cause) == IF message # {} THEN message ELSE Text(cause)

\* Error.ErrorInfo: there is one if there is a reason.
InfoFrom(options) ==
    IF Given(options, "reason", "") = "" THEN NoInfo
    ELSE [domain |-> Given(options, "domain", ""), reason |-> Given(options, "reason", "")]

New(code, message, options) ==
    LET cause == Given(options, "cause", Nil)
    IN  <<Node("werror", NormalizeCode(code), InfoFrom(options), Message(message, cause))>>
            \o cause

\* A typed nil: its GRPCStatus is OK.
NilError == <<Node("nil werror", "OK", NoInfo, {})>>

Wrap(code, cause, message, options) ==
    IF cause = Nil THEN New(code, message, options)
    ELSE New(code, message, Append(options, Option("cause", cause)))

\* Definition.New and Definition.Wrap.
\* Mutant: the caller's options come last.
DefinitionWrapOptionsLast(d, cause, message, options) ==
    New(d.code, message,
        <<Option("domain", d.domain), Option("reason", d.reason), Option("cause", cause)>>
            \o options)
DefinitionWrap(d, cause, message, options) ==
    New(d.code, message,
        options \o (IF cause = Nil THEN <<>> ELSE <<Option("cause", cause)>>)
            \o <<Option("domain", d.domain), Option("reason", d.reason)>>)

\* Definition.Validate and NewCatalog: "" stands for blank, "a b" for a text that has
\* white space or is not UPPER_SNAKE_CASE.
ValidDefinition(d) ==
    /\ {d.domain, d.reason} \cap {"", "a b"} = {}
    /\ d.code # "OK"
    /\ d.message # ""
SameKey(c, d) == c.domain = d.domain /\ c.reason = d.reason
\* Mutant: a pair of domain and reason may be defined twice.
ValidCatalogTwice(list) == \A i \in DOMAIN list : ValidDefinition(list[i])
ValidCatalog(list) ==
    /\ \A i \in DOMAIN list : ValidDefinition(list[i])
    /\ \A i, j \in DOMAIN list : i # j => ~SameKey(list[i], list[j])

\* Catalog.Find: the index is keyed by domain and reason.
Found(list, info) ==
    {list[i] : i \in {i \in DOMAIN list : info # NoInfo /\ SameKey(list[i], info)}}

\* CodeOf and StatusErrorOf.
CodeOf(e) ==
    IF e = Nil THEN "OK" ELSE IF HasStatus(e) THEN StatusNode(e).code ELSE "Unknown"
StatusErrorOf(e) ==
    IF e = Nil THEN Nil
    ELSE Status(CodeOf(e), IF HasStatus(e) THEN StatusNode(e).info ELSE NoInfo, Text(e))

\* ErrorInfoOf: the first structured error, else the status.
\* Mutant: structured errors only.
Structured == {"werror", "nil werror"}
StructuredInfo(e) ==
    IF Holds(e, Structured) THEN e[First(e, Structured)].info ELSE NoInfo
ErrorInfoOf(e) ==
    IF StructuredInfo(e) # NoInfo THEN StructuredInfo(e)
    ELSE IF HasStatus(e) THEN StatusNode(e).info ELSE NoInfo

-----------------------------------------------------------------------------
(* ErrorToStatus.                                                          *)

\* normalizeErrorStatusCode.  Mutant: OK is let through.
KeepStatusCode(code, fallback) == code
NormalizeStatusCode(code, fallback) == IF code = "OK" THEN fallback ELSE code

\* buildErrorToStatusOptions, over options as they were given.
BuildOptions(o) ==
    [o EXCEPT !.validationCode = NormalizeStatusCode(@, "InvalidArgument"),
              !.defaultCode = NormalizeStatusCode(@, "Internal")]

Matching(e, mappings) == {i \in DOMAIN mappings : Holds(e, {mappings[i].target})}
FirstMatch(e, mappings) ==
    mappings[CHOOSE i \in Matching(e, mappings) :
               \A j \in Matching(e, mappings) : i <= j]
MappedStatus(e, mapping) ==
    Status(NormalizeStatusCode(mapping.code, "Internal"), NoInfo,
           IF mapping.message = {} THEN Text(e) ELSE mapping.message)
DefaultStatus(e, o) ==
    Status(o.defaultCode, NoInfo,
           IF o.defaultMessage = {} /\ o.expose THEN Text(e) ELSE o.defaultMessage)

\* normalizeErrorToStatus: a status first, then what the standard library and
\* protovalidate know, then the product's own mappings.
\* Mutant: the mappings come first.
NormalizeMappingsFirst(e, o) ==
    IF Matching(e, o.mappings) # {} THEN MappedStatus(e, FirstMatch(e, o.mappings))
    ELSE IF HasStatus(e) THEN StatusErrorOf(e) ELSE DefaultStatus(e, o)
NormalizeErrorToStatus(e, o) ==
    IF e = Nil THEN Nil
    ELSE IF HasStatus(e) THEN StatusErrorOf(e)
    ELSE IF Holds(e, {"validation"}) THEN Status(o.validationCode, NoInfo, Text(e))
    ELSE IF Holds(e, {"canceled"}) THEN Status("Canceled", NoInfo, Text(e))
    ELSE IF Holds(e, {"deadline"}) THEN Status("DeadlineExceeded", NoInfo, Text(e))
    ELSE IF Matching(e, o.mappings) # {} THEN MappedStatus(e, FirstMatch(e, o.mappings))
    ELSE DefaultStatus(e, o)
=============================================================================
