----------------------------- MODULE MCServerChain -----------------------------
(***************************************************************************)
(* Methods, messages and errors for TLC.                                   *)
(***************************************************************************)
EXTENDS ServerChain, TLC

SomeMethods == {"query", "health"}
BothDims == {"app_id", "tenant_id"}

P(mode, allowed) == [mode |-> mode, allowed |-> allowed]
Tables ==
    {"query" :> p @@ "health" :> P("NONE", {}) :
        p \in {P("QUERY_RANGE", BothDims), P("CREATE_OWNER", {"app_id"}),
               P("UPDATE_OWNER", {}), P("unknown", {"tenant_id"})}}

SmallMessages ==
    [proto : {TRUE}, valid : BOOLEAN,
     app_id : {"absent", "wrong type", "", "x"}, tenant_id : {"", "y", "wrong type"}]
    \cup [proto : {FALSE}, valid : {TRUE}, app_id : {"x"}, tenant_id : {"y"}]

SmallDecisions ==
    [allowed : BOOLEAN, all : [BothDims -> BOOLEAN],
     ids : [BothDims -> {{}, {"x"}, {"x", "y"}}], expiresAt : {0, 1, 2}]

Key(domain, reason) == [domain |-> domain, reason |-> reason]
SomeAuthorizerErrors ==
    {Leaf("plain", {}), Leaf("deadline", {}), Status("Unavailable", NoInfo, {}),
     New("PermissionDenied", {}, <<Option("reason", "DENIED")>>)}

\* The README's; the logger inside; the scope inside; no ErrorToStatus.
SomeOrders ==
    {<<"exit", "log", "scope">>, <<"log", "exit", "scope">>, <<"scope", "exit", "log">>,
     <<"log", "scope">>}

Mapping(target, code, message) == [target |-> target, code |-> code, message |-> message]
SomeExitOptions ==
    {[validationCode |-> "OK", mappings |-> <<>>, defaultCode |-> "Internal",
      defaultMessage |-> {0}, expose |-> FALSE],
     [validationCode |-> "InvalidArgument", defaultCode |-> "OK", defaultMessage |-> {},
      mappings |-> <<Mapping("expired", "OK", {}), Mapping("canceled", "Aborted", {0})>>,
      expose |-> TRUE]}

Defined(code, domain, reason) ==
    [code |-> code, domain |-> domain, reason |-> reason, message |-> "m"]
SomeCatalogs ==
    {<<Defined("NotFound", "user", "MISSING"), Defined("Aborted", "order", "MISSING")>>,
     <<Defined("NotFound", "user", "MISSING"), Defined("Aborted", "user", "MISSING")>>,
     <<Defined("OK", "user", "DONE")>>}

SomeCodes == {"OK", "Unavailable"}
SomeInfos == {NoInfo, Key("other", "BUSY")}
SomeOptionLists == {<<>>, <<Option("domain", "user"), Option("reason", "BUSY")>>}
=============================================================================
