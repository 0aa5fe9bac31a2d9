---------------------------- MODULE MCDnsRegistry ----------------------------
(***************************************************************************)
(* A registry as a service builds it, for TLC.                             *)
(***************************************************************************)
EXTENDS DnsRegistry

CONSTANTS p1, p2

TwoCallers == {p1, p2}
PlatformConfig == [f \in FieldNames |->
    IF f \in {"Namespace", "Port"} THEN "platform" ELSE "blank"]

Item(service, namespace, domain, port) ==
    [Service |-> service, Namespace |-> namespace, ServiceType |-> "blank",
     ClusterDomain |-> domain, Port |-> port]

\* A name, and the rest left to the defaults.
BareList == {<<Item("auth", "blank", "blank", "blank")>>}
=============================================================================
