----------------------------- MODULE DnsRegistry -----------------------------
(***************************************************************************)
(* The service registry of invocation/service.go and the resolution of a   *)
(* registered DNS description to a target (invocation/dns.go).             *)
(*                                                                         *)
(* The registry keeps one DNS per trimmed service name.  Invoke resolves   *)
(* through the kept pointer, and DNSManager.Normalize fills the blanks of  *)
(* whatever it is given in place, one field after another, without a lock. *)
(* Caller works on a copy, which is filled the same way by those who share *)
(* it.                                                                     *)
(*                                                                         *)
(* Spec takes the assignment of a field as atomic.  RacySpec does not: a   *)
(* string is two machine words, and while one goroutine fills a blank,     *)
(* another that reads the field may see a length without its bytes.  That  *)
(* behaviour ends there (crashed).                                         *)
(***************************************************************************)
EXTENDS Integers, Sequences

CONSTANTS
    Callers,         \* goroutines that invoke, one derived caller each
    ItemLists,       \* service lists a registry may be built from
    Config,          \* what DNSConfig holds for each field before normalisation
    NoTarget, NotFound, Invalid  \* no result yet, and the two ways to fail

\* A text field is blank (empty or white space), a word, two words with a dot between
\* them, or a word with white space around it; a port is blank when it is zero.
Trim(t) == IF t = "padded" THEN "custom" ELSE t
Blank(t) == Trim(t) = "blank"
TrimName(s) == IF s = "padded auth" THEN "auth" ELSE s

\* The fields Normalize fills, in its order.
Fields == <<"Namespace", "ServiceType", "ClusterDomain", "Port">>
FieldNames == {Fields[i] : i \in 1..Len(Fields)}
Texts == {"blank", "platform", "default", "custom", "dotted", "padded"}
DNS == [Service : {"blank", "auth", "padded auth", "user", "auth.custom"},
        Namespace : Texts, ServiceType : Texts, ClusterDomain : Texts,
        Port : Texts \ {"dotted", "padded"}]

ASSUME InputAssumption ==
    /\ ItemLists \subseteq Seq(DNS)
    /\ Config \in [FieldNames -> {"blank", "platform"}]

\* DNSConfig.normalize: the platform's value, or the built-in default.
DefaultOf(f) == IF Blank(Config[f]) THEN "default" ELSE Config[f]

Names == {"auth", "user", "auth.custom"}

\* A pointer is that of a name or that of a copy.
ASSUME CallersAssumption == Names \cap Callers = {}

\* NewRemoteServiceManaged: items without a name are skipped, and a later item
\* replaces an earlier one of the same trimmed name.
Spelled(list, n) == {i \in 1..Len(list) : TrimName(list[i].Service) = n}
\* Mutant: the first item stays.
FirstOf(is) == CHOOSE i \in is : \A j \in is : i <= j
Last(is) == CHOOSE i \in is : \A j \in is : j <= i
Registered(list) ==
    [n \in {n \in Names : Spelled(list, n) # {}} |-> list[Last(Spelled(list, n))]]

VARIABLES
    items,           \* the list the registry was built from
    entry,           \* the DNS behind each pointer: names, and callers with a copy
    pc,              \* of each caller: "idle", "normalize", "write", "built"
    slot,            \* the pointer a call works on
    field,           \* index of the field Normalize is at
    target,          \* what Build returned
    crashed

callVars == <<pc, slot, field, target>>
vars == <<items, entry, callVars, crashed>>

Slots == Names \cup Callers

TypeOK ==
    /\ items \in ItemLists
    /\ DOMAIN entry \subseteq Slots
    /\ \A s \in DOMAIN entry : entry[s] \in DNS
    /\ pc \in [Callers -> {"idle", "normalize", "write", "built"}]
    /\ slot \in [Callers -> Slots]
    /\ field \in [Callers -> 1..Len(Fields) + 1]
    /\ DOMAIN target = Callers
    /\ crashed \in BOOLEAN

Init ==
    /\ items \in ItemLists
    /\ entry = Registered(items)
    /\ pc = [p \in Callers |-> "idle"]
    /\ slot = [p \in Callers |-> p]
    /\ field = [p \in Callers |-> 1]
    /\ target = [p \in Callers |-> NoTarget]
    /\ crashed = FALSE

-----------------------------------------------------------------------------
(* Steps of the callers.                                                   *)

FieldAt(p) == Fields[field[p]]
Normalizing(p) == pc[p] = "normalize" /\ field[p] <= Len(Fields)
Value(p) == entry[slot[p]][FieldAt(p)]

\* Caller: the RemoteServiceCaller gets a copy of the registered DNS.
TakeCopy(p, n) ==
    /\ pc[p] = "idle"
    /\ p \notin DOMAIN entry
    /\ n \in DOMAIN entry
    /\ entry' = [s \in DOMAIN entry \cup {p} |->
                   IF s = p THEN entry[n] ELSE entry[s]]
    /\ UNCHANGED <<items, callVars, crashed>>

\* Invoke on a registered name, or through some caller's copy.
Invoke(p, s) ==
    /\ pc[p] = "idle"
    /\ s \in DOMAIN entry
    /\ pc' = [pc EXCEPT ![p] = "normalize"]
    /\ slot' = [slot EXCEPT ![p] = s]
    /\ field' = [field EXCEPT ![p] = 1]
    /\ UNCHANGED <<items, entry, target, crashed>>

InvokeUnknown(p, n) ==
    /\ pc[p] = "idle"
    /\ n \notin DOMAIN entry
    /\ pc' = [pc EXCEPT ![p] = "built"]
    /\ slot' = [slot EXCEPT ![p] = n]
    /\ target' = [target EXCEPT ![p] = NotFound]
    /\ UNCHANGED <<items, entry, field, crashed>>

FieldIsSet(p) ==
    /\ Normalizing(p)
    /\ ~Blank(Value(p))
    /\ field' = [field EXCEPT ![p] = field[p] + 1]
    /\ UNCHANGED <<items, entry, pc, slot, target, crashed>>

\* Mutant: whatever is there is replaced by the default.
FieldIsReplaced(p) ==
    /\ Normalizing(p)
    /\ pc' = [pc EXCEPT ![p] = "write"]
    /\ UNCHANGED <<items, entry, slot, field, target, crashed>>
FieldIsBlank(p) ==
    /\ Normalizing(p)
    /\ Blank(Value(p))
    /\ pc' = [pc EXCEPT ![p] = "write"]
    /\ UNCHANGED <<items, entry, slot, field, target, crashed>>

\* The assignment of the default is complete.
FillField(p) ==
    /\ pc[p] = "write"
    /\ entry' = [entry EXCEPT ![slot[p]][FieldAt(p)] = DefaultOf(FieldAt(p))]
    /\ pc' = [pc EXCEPT ![p] = "normalize"]
    /\ field' = [field EXCEPT ![p] = field[p] + 1]
    /\ UNCHANGED <<items, slot, target, crashed>>

\* The parts of a host between its dots.
Labels(t) ==
    IF t = "dotted" THEN <<"custom", "custom">>
    ELSE IF t = "auth.custom" THEN <<"auth", "custom">> ELSE <<t>>

\* validateDNS, effectivePort and the joining of the trimmed parts by dots.
TargetOf(d) ==
    IF Blank(d.Service) \/ Blank(d.Namespace) THEN Invalid
    ELSE [host |-> Labels(TrimName(d.Service)) \o Labels(Trim(d.Namespace)) \o
                   Labels(Trim(d.ServiceType)) \o Labels(Trim(d.ClusterDomain)),
          port |-> IF Blank(d.Port) THEN DefaultOf("Port") ELSE d.Port]

Build(p) ==
    /\ pc[p] = "normalize"
    /\ field[p] > Len(Fields)
    /\ target' = [target EXCEPT ![p] = TargetOf(entry[slot[p]])]
    /\ pc' = [pc EXCEPT ![p] = "built"]
    /\ UNCHANGED <<items, entry, slot, field, crashed>>

\* The call goes on to Dial; the goroutine may invoke again.
CallEnds(p) ==
    /\ pc[p] = "built"
    /\ pc' = [pc EXCEPT ![p] = "idle"]
    /\ target' = [target EXCEPT ![p] = NoTarget]
    /\ slot' = [slot EXCEPT ![p] = p]
    /\ field' = [field EXCEPT ![p] = 1]
    /\ UNCHANGED <<items, entry, crashed>>

\* p reads a string that another goroutine is assigning.
TornRead(p) ==
    /\ Normalizing(p)
    /\ FieldAt(p) # "Port"
    /\ \E q \in Callers \ {p} :
         pc[q] = "write" /\ slot[q] = slot[p] /\ field[q] = field[p]
    /\ crashed' = TRUE
    /\ UNCHANGED <<items, entry, callVars>>

Next ==
    \E p \in Callers :
        \/ \E n \in Names : TakeCopy(p, n) \/ InvokeUnknown(p, n)
        \/ \E s \in Slots : Invoke(p, s)
        \/ FieldIsSet(p)
        \/ FieldIsBlank(p)
        \/ FillField(p)
        \/ Build(p)
        \/ CallEnds(p)

RacyNext == ~crashed /\ (Next \/ \E p \in Callers : TornRead(p))

Spec == Init /\ [][Next]_vars
RacySpec == Init /\ [][RacyNext]_vars

-----------------------------------------------------------------------------
(* Properties.                                                             *)

\* The target the owner of the list means by a name: its last item of that name, as
\* spelled or padded, with every blank replaced by the default in force.
Intended(n) ==
    {TargetOf([f \in DOMAIN items[i] |->
                 IF f \in FieldNames /\ Blank(items[i][f]) THEN DefaultOf(f)
                 ELSE items[i][f]]) :
        i \in {i \in 1..Len(items) :
                /\ TrimName(items[i].Service) = n
                /\ \A j \in i + 1..Len(items) : TrimName(items[j].Service) # n}}

\* Whoever resolves a name, alone or while others fill the same blanks, gets the
\* target its registration intends; through a copy, that of one of the names.
ResolvesAsRegistered ==
    \A p \in Callers : pc[p] = "built" =>
        \/ slot[p] \in Names /\ target[p] \in Intended(slot[p])
        \/ slot[p] \in Names /\ Intended(slot[p]) = {} /\ target[p] = NotFound
        \/ slot[p] \in Callers /\ \E n \in Names : target[p] \in Intended(n)

\* A field that is set never changes again, and a blank one only to its default:
\* a name resolves to one target for ever, so the pool keys it by one address.
FieldsSettleOnce ==
    [][\A s \in DOMAIN entry, f \in FieldNames :
         \/ entry'[s][f] = entry[s][f]
         \/ Blank(entry[s][f]) /\ entry'[s][f] = DefaultOf(f)]_vars

\* No goroutine reads a string that another one is assigning.
NoTornRead == ~crashed
=============================================================================
