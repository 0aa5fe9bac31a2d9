---------------------------- MODULE MCServicePath ----------------------------
(***************************************************************************)
(* Registries of one or two items for TLC.                                 *)
(***************************************************************************)
EXTENDS ServicePath, TLC

CONSTANTS p1, p2, x1, conn1, conn2

TwoCallers == {p1, p2}
OneCloser == {x1}
TwoConns == {conn1, conn2}
PlatformConfig == [f \in FieldNames |->
    IF f \in {"Namespace", "Port"} THEN "platform" ELSE "blank"]

Item(service, namespace, type, domain, port) ==
    [Service |-> service, Namespace |-> namespace, ServiceType |-> type,
     ClusterDomain |-> domain, Port |-> port]

\* Two services; two spellings of one, the later of which counts; a nameless item; two
\* services whose parts join to one host.
SomeLists ==
    {<<Item("auth", "blank", "custom", "custom", "custom"),
       Item("user", "custom", "custom", "custom", "blank")>>,
     <<Item("auth", "padded", "custom", "custom", "custom"),
       Item("padded auth", "blank", "custom", "blank", "custom")>>,
     <<Item("padded auth", "padded", "blank", "custom", "blank"),
       Item("blank", "custom", "blank", "blank", "blank")>>,
     <<Item("auth", "custom", "custom", "dotted", "custom"),
       Item("auth.custom", "custom", "custom", "custom", "custom")>>}

Symmetric == Permutations(TwoCallers) \cup Permutations(TwoConns)
=============================================================================
