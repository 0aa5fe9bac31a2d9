-------------------------- MODULE ServicePathProofs --------------------------
(***************************************************************************)
(* Theorems about ServicePath: for any registry, any number of goroutines  *)
(* and any Close, a name leads to the target and to the one connection     *)
(* that its registration means.  What the connection manager does for its  *)
(* callers is taken from ConnectionManagerProofs, whose Spec the path      *)
(* implements.                                                             *)
(***************************************************************************)
EXTENDS ServicePath, WellFoundedInduction, TLAPS

-----------------------------------------------------------------------------
(* The item that counts.                                                   *)

\* An item as Normalize leaves it, and the item a name is registered with.
Filled(d) ==
    [f \in DOMAIN d |-> IF f \in FieldNames /\ Blank(d[f]) THEN DefaultOf(f) ELSE d[f]]
Item(n) == items[Last(Spelled(items, n))]

\* A set of numbers has a least one, and so the items of a name have a last one.
LEMMA LeastNumber ==
    ASSUME NEW T, T \subseteq Nat, T # {}
    PROVE  \E b \in T : \A c \in T : b <= c
<1>1. PICK b \in T : \A c \in T : ~(<<c, b>> \in OpToRel(<, Nat))
  BY WFMin, NatLessThanWellFounded, Zenon
<1>2. \A c \in T : ~(c < b)
  BY <1>1, Zenon DEF OpToRel
<1>3. QED
  BY <1>2

LEMMA LastSpelled ==
    ASSUME NEW list \in Seq(DNS), NEW n, Spelled(list, n) # {}
    PROVE  /\ Last(Spelled(list, n)) \in Spelled(list, n)
           /\ \A j \in Spelled(list, n) : j <= Last(Spelled(list, n))
<1> DEFINE S == Spelled(list, n)
           back == {Len(list) - i : i \in S}
<1>1. S \subseteq 1..Len(list) /\ Len(list) \in Nat
  BY DEF Spelled
<1>2. back \in SUBSET Nat /\ back # {}
  BY <1>1
<1>3. PICK b \in back : \A c \in back : b <= c
  BY <1>2, LeastNumber
<1>4. PICK m \in S : b = Len(list) - m
  BY <1>3
<1>5. \A j \in S : j <= m
  <2> TAKE j \in S
  <2>1. Len(list) - m <= Len(list) - j
    BY <1>3, <1>4
  <2>2. m \in 1..Len(list) /\ j \in 1..Len(list)
    BY <1>1
  <2>3. QED
    BY <1>1, <2>1, <2>2
<1>6. QED
  BY <1>4, <1>5 DEF Last

LEMMA ItemType ==
    ASSUME items \in ItemLists, NEW n, Spelled(items, n) # {}
    PROVE  Item(n) \in DNS /\ TrimName(Item(n).Service) = n
<1> DEFINE m == Last(Spelled(items, n))
<1>1. items \in Seq(DNS)
  BY InputAssumption
<1>2. m \in Spelled(items, n)
  BY <1>1, LastSpelled
<1>3. m \in 1..Len(items) /\ TrimName(items[m].Service) = n
  BY <1>2 DEF Spelled
<1>4. QED
  BY <1>1, <1>3 DEF Item

\* The last item of a name is the one its owner means, ...
LEMMA ItemIsIntended ==
    ASSUME items \in ItemLists, NEW n, Spelled(items, n) # {}
    PROVE  TargetOf(Filled(Item(n))) \in Intended(n)
<1> DEFINE m == Last(Spelled(items, n))
<1>1. items \in Seq(DNS) /\ Len(items) \in Nat
  BY InputAssumption
<1>2. m \in Spelled(items, n) /\ \A j \in Spelled(items, n) : j <= m
  BY <1>1, LastSpelled
<1> HIDE DEF m
<1>3. m \in 1..Len(items) /\ TrimName(items[m].Service) = n
  BY <1>2 DEF Spelled
<1>4. \A j \in m + 1..Len(items) : TrimName(items[j].Service) # n
  BY <1>1, <1>2, <1>3 DEF Spelled
<1>5. QED
  BY <1>3, <1>4 DEF Intended, Filled, Item, m

\* ... and the only one.
LEMMA IntendedIsOne ==
    ASSUME items \in ItemLists, NEW n, NEW t \in Intended(n)
    PROVE  Spelled(items, n) # {} /\ t = TargetOf(Filled(Item(n)))
<1> DEFINE m == Last(Spelled(items, n))
<1>1. items \in Seq(DNS) /\ Len(items) \in Nat
  BY InputAssumption
<1>2. PICK i \in 1..Len(items) :
        /\ TrimName(items[i].Service) = n
        /\ \A j \in i + 1..Len(items) : TrimName(items[j].Service) # n
        /\ t = TargetOf(Filled(items[i]))
  BY DEF Intended, Filled
<1>3. i \in Spelled(items, n)
  BY <1>2 DEF Spelled
<1>4. m \in Spelled(items, n) /\ i <= m
  BY <1>1, <1>3, LastSpelled
<1>5. m \in 1..Len(items) /\ TrimName(items[m].Service) = n
  BY <1>4 DEF Spelled
<1>6. m = i
  BY <1>1, <1>2, <1>4, <1>5
<1>7. QED
  BY <1>2, <1>3, <1>6 DEF Item

-----------------------------------------------------------------------------
(* Filling the blanks.                                                     *)

LEMMA TheFields ==
    /\ Len(Fields) = 4
    /\ FieldNames = {"Namespace", "ServiceType", "ClusterDomain", "Port"}
    /\ \A i \in 1..4 : Fields[i] \in FieldNames
    /\ \A f \in FieldNames : \E i \in 1..4 : f = Fields[i]
<1>1. Len(Fields) = 4
  BY DEF Fields
<1>2. /\ Fields[1] = "Namespace" /\ Fields[2] = "ServiceType"
      /\ Fields[3] = "ClusterDomain" /\ Fields[4] = "Port"
  BY DEF Fields
<1>3. 1..4 = {1, 2, 3, 4}
  OBVIOUS
<1>4. FieldNames = {Fields[i] : i \in {1, 2, 3, 4}}
  BY <1>1, <1>3 DEF FieldNames
<1>5. QED
  BY <1>1, <1>2, <1>3, <1>4

LEMMA DefaultIsSet ==
    ASSUME NEW f \in FieldNames
    PROVE  DefaultOf(f) \in {"default", "platform"} /\ ~Blank(DefaultOf(f))
<1>1. Config[f] \in {"blank", "platform"}
  BY InputAssumption
<1>2. QED
  BY <1>1 DEF DefaultOf, Blank, Trim

\* What an item may have become: some of its blanks are filled.
Settled(e, d) ==
    /\ e \in DNS
    /\ e.Service = d.Service
    /\ \A f \in FieldNames : e[f] = d[f] \/ (Blank(d[f]) /\ e[f] = DefaultOf(f))

LEMMA SettledFields ==
    ASSUME NEW e, NEW d \in DNS, Settled(e, d), NEW f \in FieldNames
    PROVE  /\ Blank(e[f]) => e[f] = d[f]
           /\ ~Blank(e[f]) => e[f] = Filled(d)[f]
<1>1. f \in DOMAIN d
  BY TheFields DEF DNS
<1>2. Filled(d)[f] = IF Blank(d[f]) THEN DefaultOf(f) ELSE d[f]
  BY <1>1 DEF Filled
<1>3. QED
  BY <1>2, DefaultIsSet DEF Settled

LEMMA FilledUp ==
    ASSUME NEW e, NEW d \in DNS, Settled(e, d), \A f \in FieldNames : ~Blank(e[f])
    PROVE  e = Filled(d)
<1>1. \A f \in FieldNames : e[f] = Filled(d)[f]
  BY SettledFields
<1>2. /\ DOMAIN d = {"Service"} \cup FieldNames
      /\ DOMAIN e = {"Service"} \cup FieldNames
  BY TheFields DEF DNS, Settled
<1>3. Filled(d).Service = d.Service
  BY <1>2, TheFields DEF Filled
<1>4. DOMAIN Filled(d) = DOMAIN d
  BY DEF Filled
<1>5. e = [f \in DOMAIN e |-> e[f]]
  BY DEF Settled, DNS
<1>6. Filled(d) = [f \in DOMAIN Filled(d) |-> Filled(d)[f]]
  BY DEF Filled
<1>7. \A f \in {"Service"} \cup FieldNames : e[f] = Filled(d)[f]
  BY <1>1, <1>3 DEF Settled
<1>8. QED
  BY <1>2, <1>4, <1>5, <1>6, <1>7

LEMMA FillKeepsSettled ==
    ASSUME NEW e, NEW d \in DNS, Settled(e, d), NEW f \in FieldNames,
           Blank(e[f]) \/ e[f] = DefaultOf(f)
    PROVE  /\ Settled([e EXCEPT ![f] = DefaultOf(f)], d)
           /\ \A g \in FieldNames :
                [e EXCEPT ![f] = DefaultOf(f)][g] = IF g = f THEN DefaultOf(f) ELSE e[g]
           /\ [e EXCEPT ![f] = DefaultOf(f)].Service = e.Service
<1> DEFINE h == [e EXCEPT ![f] = DefaultOf(f)]
<1>1. e \in DNS /\ DefaultOf(f) \in Texts \ {"dotted", "padded"} /\ f \in DOMAIN e /\ f # "Service"
  BY DefaultIsSet, TheFields DEF Settled, DNS, Texts
<1>2. h \in DNS
  BY <1>1, TheFields DEF DNS
<1>3. /\ h.Service = e.Service
      /\ \A g \in FieldNames : h[g] = IF g = f THEN DefaultOf(f) ELSE e[g]
  BY <1>1, TheFields DEF DNS
<1> HIDE DEF h
<1>4. Blank(d[f]) \/ (e[f] = d[f] /\ e[f] = DefaultOf(f))
  BY SettledFields DEF Settled
<1>5. Settled(h, d)
  BY <1>2, <1>3, <1>4 DEF Settled
<1>6. QED
  BY <1>3, <1>5 DEF h

-----------------------------------------------------------------------------
(* The registry and its callers: the inductive invariant.                  *)

\* Every pointer, a name's or a copy's, leads to what some name was registered with, with
\* some of the blanks filled, and a name's to its own.
PointersInv ==
    /\ items \in ItemLists
    /\ DOMAIN entry \subseteq Slots
    /\ \A n \in Names : Spelled(items, n) # {} => n \in DOMAIN entry
    /\ \A s \in DOMAIN entry :
         LET n == TrimName(entry[s].Service)
         IN  /\ n \in Names
             /\ s \in Names => s = n
             /\ Spelled(items, n) # {}
             /\ Settled(entry[s], Item(n))

\* A caller that normalises has left no blank behind it, and one about to write has
\* nothing to overwrite but the default.
FillingInv ==
    \A p \in Callers :
        /\ pc[p] \in {"normalize", "write"} =>
             /\ slot[p] \in DOMAIN entry
             /\ \A i \in 1..4 : i < field[p] => ~Blank(entry[slot[p]][Fields[i]])
        /\ pc[p] = "write" =>
             field[p] <= 4 /\ (Blank(Value(p)) \/ Value(p) = DefaultOf(FieldAt(p)))

\* What was built is what the owner of the registry means by the name in the entry.
BuiltInv ==
    \A p \in Callers : pc[p] = "built" =>
        \/ slot[p] \in Names \ DOMAIN entry /\ target[p] = NotFound
        \/ slot[p] \in DOMAIN entry /\ target[p] \in Intended(NameBehind(p))

RegistryInv == TypeOK /\ PointersInv /\ FillingInv /\ BuiltInv

LEMMA RegistryInit == Init => RegistryInv
<1> SUFFICES ASSUME Init PROVE RegistryInv
  OBVIOUS
<1>1. items \in ItemLists /\ items \in Seq(DNS)
  BY InputAssumption DEF Init
<1>2. ASSUME NEW s \in DOMAIN entry
      PROVE  /\ s \in Names /\ Spelled(items, s) # {} /\ entry[s] = Item(s)
             /\ entry[s] \in DNS /\ TrimName(entry[s].Service) = s
  <2>1. s \in Names /\ Spelled(items, s) # {} /\ entry[s] = Item(s)
    BY <1>2 DEF Init, Registered, Item
  <2>2. QED
    BY <1>1, <2>1, ItemType
<1>3. TypeOK
  <2>1. field \in [Callers -> 1..Len(Fields) + 1]
    BY TheFields DEF Init
  <2>2. QED
    BY <1>1, <1>2, <2>1 DEF Init, TypeOK, Slots
<1>4. PointersInv
  <2>1. \A n \in Names : Spelled(items, n) # {} => n \in DOMAIN entry
    BY DEF Init, Registered
  <2>2. \A d \in DNS : Settled(d, d)
    BY DEF Settled
  <2>3. ASSUME NEW s \in DOMAIN entry PROVE Settled(entry[s], Item(s))
    BY <1>2, <2>2, <2>3
  <2>4. QED
    BY <1>1, <1>2, <2>1, <2>3 DEF PointersInv, Slots
<1>5. FillingInv /\ BuiltInv
  BY DEF Init, FillingInv, BuiltInv
<1>6. QED
  BY <1>3, <1>4, <1>5 DEF RegistryInv

-----------------------------------------------------------------------------
(* The registry and its callers: the steps.                                *)

\* What a pointer leads to, once its blanks are filled, is what is meant.
LEMMA BuildsTheIntended ==
    ASSUME PointersInv, NEW s \in DOMAIN entry, \A f \in FieldNames : ~Blank(entry[s][f])
    PROVE  TargetOf(entry[s]) \in Intended(TrimName(entry[s].Service))
<1> DEFINE n == TrimName(entry[s].Service)
<1>1. items \in ItemLists /\ Spelled(items, n) # {} /\ Settled(entry[s], Item(n))
  BY DEF PointersInv
<1> HIDE DEF n
<1>2. Item(n) \in DNS
  BY <1>1, ItemType
<1>3. entry[s] = Filled(Item(n))
  BY <1>1, <1>2, FilledUp
<1>4. QED
  BY <1>1, <1>3, ItemIsIntended DEF n

LEMMA TakeCopyInv ==
    ASSUME RegistryInv, NEW p \in Callers, NEW n \in Names, TakeCopy(p, n)
    PROVE  RegistryInv' /\ \A s \in DOMAIN entry : entry'[s] = entry[s]
<1> USE DEF RegistryInv
<1>1. /\ p \notin DOMAIN entry /\ p \in Slots /\ p \notin Names /\ n \in DOMAIN entry
      /\ UNCHANGED <<items, pc, slot, field, target, crashed>>
  BY CallersAssumption DEF TakeCopy, Slots, callVars
<1>2. /\ DOMAIN entry' = DOMAIN entry \cup {p}
      /\ entry'[p] = entry[n]
      /\ \A s \in DOMAIN entry : entry'[s] = entry[s]
  BY <1>1 DEF TakeCopy
<1>3. TypeOK'
  BY <1>1, <1>2 DEF TypeOK
<1>4. PointersInv'
  BY <1>1, <1>2 DEF PointersInv, Item
<1>5. FillingInv'
  BY <1>1, <1>2 DEF FillingInv, Value, FieldAt
<1>6. BuiltInv'
  BY <1>1, <1>2 DEF BuiltInv, NameBehind, Intended
<1>7. QED
  BY <1>2, <1>3, <1>4, <1>5, <1>6

\* While the pointers stay as they are, a step of one caller is no concern of the others.
LEMMA CallerStepInv ==
    ASSUME RegistryInv, NEW p \in Callers, UNCHANGED <<items, entry, crashed>>,
           NEW nextPc \in {"idle", "normalize", "write", "built"}, NEW nextSlot \in Slots,
           NEW nextField \in 1..5,
           pc' = [pc EXCEPT ![p] = nextPc], slot' = [slot EXCEPT ![p] = nextSlot],
           field' = [field EXCEPT ![p] = nextField],
           DOMAIN target' = Callers, \A q \in Callers \ {p} : target'[q] = target[q],
           nextPc \in {"normalize", "write"} =>
             /\ nextSlot \in DOMAIN entry
             /\ \A i \in 1..4 : i < nextField => ~Blank(entry[nextSlot][Fields[i]]),
           nextPc = "write" => nextField <= 4 /\ Blank(entry[nextSlot][Fields[nextField]]),
           nextPc = "built" =>
             \/ nextSlot \in Names \ DOMAIN entry /\ target'[p] = NotFound
             \/ /\ nextSlot \in DOMAIN entry
                /\ target'[p] \in Intended(TrimName(entry[nextSlot].Service))
    PROVE  RegistryInv'
<1> USE DEF RegistryInv
<1>1. TypeOK'
  BY TheFields DEF TypeOK
<1>2. PointersInv'
  BY DEF PointersInv, Item
<1>3. /\ pc'[p] = nextPc /\ slot'[p] = nextSlot /\ field'[p] = nextField
      /\ \A q \in Callers \ {p} :
           pc'[q] = pc[q] /\ slot'[q] = slot[q] /\ field'[q] = field[q]
  BY DEF TypeOK
<1>4. FillingInv'
  BY <1>3 DEF FillingInv, Value, FieldAt
<1>5. BuiltInv'
  BY <1>3 DEF BuiltInv, NameBehind, Intended
<1>6. QED
  BY <1>1, <1>2, <1>4, <1>5

LEMMA SameField ==
    ASSUME TypeOK, NEW p \in Callers
    PROVE  /\ field[p] \in 1..5 /\ slot[p] \in Slots
           /\ field = [field EXCEPT ![p] = field[p]] /\ slot = [slot EXCEPT ![p] = slot[p]]
           /\ DOMAIN target = Callers
BY TheFields DEF TypeOK

LEMMA InvokeInv ==
    ASSUME RegistryInv, NEW p \in Callers, NEW s \in Slots, Invoke(p, s)
    PROVE  RegistryInv'
<1>1. s \in DOMAIN entry /\ (\A i \in 1..4 : ~(i < 1)) /\ 1 \in 1..5 /\ DOMAIN target = Callers
  BY SameField DEF Invoke, RegistryInv
<1>2. /\ UNCHANGED <<items, entry, crashed>>
      /\ pc' = [pc EXCEPT ![p] = "normalize"] /\ slot' = [slot EXCEPT ![p] = s]
      /\ field' = [field EXCEPT ![p] = 1] /\ target' = target
  BY DEF Invoke
<1>3. QED
  BY <1>1, <1>2, CallerStepInv

LEMMA InvokeUnknownInv ==
    ASSUME RegistryInv, NEW p \in Callers, NEW n \in Names, InvokeUnknown(p, n)
    PROVE  RegistryInv'
<1>1. n \in Slots /\ n \in Names \ DOMAIN entry
  BY DEF InvokeUnknown, Slots
<1>2. QED
  BY <1>1, SameField, CallerStepInv DEF InvokeUnknown, RegistryInv

LEMMA CallEndsInv ==
    ASSUME RegistryInv, NEW p \in Callers, CallEnds(p)
    PROVE  RegistryInv'
<1>1. p \in Slots /\ 1 \in 1..5 /\ DOMAIN target = Callers
  BY SameField DEF Slots, RegistryInv
<1>2. /\ UNCHANGED <<items, entry, crashed>>
      /\ pc' = [pc EXCEPT ![p] = "idle"] /\ slot' = [slot EXCEPT ![p] = p]
      /\ field' = [field EXCEPT ![p] = 1] /\ target' = [target EXCEPT ![p] = NoTarget]
  BY DEF CallEnds
<1>3. QED
  BY <1>1, <1>2, CallerStepInv

LEMMA NextField ==
    ASSUME RegistryInv, NEW p \in Callers, pc[p] \in {"normalize", "write"}, field[p] <= 4
    PROVE  /\ slot[p] \in DOMAIN entry
           /\ field[p] \in 1..4 /\ field[p] + 1 \in 1..5 /\ FieldAt(p) \in FieldNames
           /\ \A i \in 1..4 : i < field[p] + 1 => i < field[p] \/ i = field[p]
<1>1. field[p] \in 1..4
  BY SameField DEF RegistryInv
<1>2. QED
  BY <1>1, TheFields DEF RegistryInv, FillingInv, FieldAt

LEMMA FieldIsSetInv ==
    ASSUME RegistryInv, NEW p \in Callers, FieldIsSet(p)
    PROVE  RegistryInv'
<1>1. pc[p] = "normalize" /\ field[p] <= 4 /\ ~Blank(Value(p))
  BY TheFields DEF FieldIsSet, Normalizing
<1>2. \A i \in 1..4 : i < field[p] + 1 => ~Blank(entry[slot[p]][Fields[i]])
  BY <1>1, NextField DEF RegistryInv, FillingInv, Value, FieldAt
<1>3. pc = [pc EXCEPT ![p] = "normalize"]
  BY <1>1 DEF RegistryInv, TypeOK
<1>4. QED
  BY <1>1, <1>2, <1>3, NextField, SameField, CallerStepInv DEF FieldIsSet, RegistryInv

LEMMA FieldIsBlankInv ==
    ASSUME RegistryInv, NEW p \in Callers, FieldIsBlank(p)
    PROVE  RegistryInv'
<1>1. pc[p] = "normalize" /\ field[p] <= 4 /\ Blank(entry[slot[p]][Fields[field[p]]])
  BY TheFields DEF FieldIsBlank, Normalizing, Value, FieldAt
<1>2. \A i \in 1..4 : i < field[p] => ~Blank(entry[slot[p]][Fields[i]])
  BY <1>1 DEF RegistryInv, FillingInv
<1>3. QED
  BY <1>1, <1>2, NextField, SameField, CallerStepInv DEF FieldIsBlank, RegistryInv

LEMMA BuildInv ==
    ASSUME RegistryInv, NEW p \in Callers, Build(p)
    PROVE  RegistryInv'
<1>1. pc[p] = "normalize" /\ field[p] = 5 /\ slot[p] \in DOMAIN entry
  BY TheFields, SameField DEF Build, RegistryInv, FillingInv
<1>2. \A f \in FieldNames : ~Blank(entry[slot[p]][f])
  <2> TAKE f \in FieldNames
  <2>1. PICK i \in 1..4 : f = Fields[i]
    BY TheFields
  <2>2. i < field[p]
    BY <1>1
  <2>3. QED
    BY <1>1, <2>1, <2>2 DEF RegistryInv, FillingInv
<1>3. TargetOf(entry[slot[p]]) \in Intended(TrimName(entry[slot[p]].Service))
  BY <1>1, <1>2, BuildsTheIntended DEF RegistryInv
<1>4. QED
  BY <1>1, <1>3, SameField, CallerStepInv DEF Build, RegistryInv

\* The write goes where a blank was when it was looked at: by now it may be filled, with
\* the same default.
LEMMA FillFieldStep ==
    ASSUME RegistryInv, NEW p \in Callers, FillField(p)
    PROVE  /\ DOMAIN entry' = DOMAIN entry
           /\ \A s \in DOMAIN entry :
                /\ entry'[s].Service = entry[s].Service
                /\ Settled(entry'[s], Item(TrimName(entry[s].Service)))
                /\ \A f \in FieldNames :
                     \/ entry'[s][f] = entry[s][f]
                     \/ Blank(entry[s][f]) /\ entry'[s][f] = DefaultOf(f)
<1> DEFINE s == slot[p]
           f == FieldAt(p)
           n == TrimName(entry[s].Service)
<1>1. pc[p] = "write" /\ field[p] <= 4 /\ (Blank(entry[s][f]) \/ entry[s][f] = DefaultOf(f))
  BY DEF FillField, RegistryInv, FillingInv, Value
<1>2. s \in DOMAIN entry /\ f \in FieldNames
  BY <1>1, NextField
<1>3. Settled(entry[s], Item(n)) /\ Item(n) \in DNS
  BY <1>2, ItemType DEF RegistryInv, PointersInv
<1>4. entry' = [entry EXCEPT ![s] = [entry[s] EXCEPT ![f] = DefaultOf(f)]]
  BY DEF FillField
<1>5. /\ DOMAIN entry' = DOMAIN entry
      /\ entry'[s] = [entry[s] EXCEPT ![f] = DefaultOf(f)]
      /\ \A r \in DOMAIN entry \ {s} : entry'[r] = entry[r]
  BY <1>2, <1>4
<1> HIDE DEF s, f, n
<1>6. /\ Settled(entry'[s], Item(n))
      /\ \A g \in FieldNames : entry'[s][g] = IF g = f THEN DefaultOf(f) ELSE entry[s][g]
      /\ entry'[s].Service = entry[s].Service
  <2> DEFINE e == entry[s]
             h == [e EXCEPT ![f] = DefaultOf(f)]
             d == Item(n)
  <2>1. d \in DNS /\ Settled(e, d) /\ f \in FieldNames /\ (Blank(e[f]) \/ e[f] = DefaultOf(f))
    BY <1>1, <1>2, <1>3
  <2> HIDE DEF e, d
  <2>2. /\ Settled(h, d)
        /\ \A g \in FieldNames : h[g] = IF g = f THEN DefaultOf(f) ELSE e[g]
        /\ h.Service = e.Service
    BY <2>1, FillKeepsSettled
  <2>3. entry'[s] = h
    BY <1>5 DEF e
  <2>4. QED
    BY <2>2, <2>3 DEF e, d
<1>7. \A r \in DOMAIN entry : Settled(entry[r], Item(TrimName(entry[r].Service)))
  BY DEF RegistryInv, PointersInv
<1>8. QED
  BY <1>1, <1>5, <1>6, <1>7 DEF n

\* The property's step: a blank gets its default, and nothing else changes.
OnlyBlanksFilled ==
    \A s \in DOMAIN entry, f \in FieldNames :
        \/ entry'[s][f] = entry[s][f]
        \/ Blank(entry[s][f]) /\ entry'[s][f] = DefaultOf(f)

LEMMA FillFieldInv ==
    ASSUME RegistryInv, NEW p \in Callers, FillField(p)
    PROVE  RegistryInv' /\ OnlyBlanksFilled
<1>1. /\ DOMAIN entry' = DOMAIN entry
      /\ \A s \in DOMAIN entry :
           /\ entry'[s].Service = entry[s].Service
           /\ Settled(entry'[s], Item(TrimName(entry[s].Service)))
      /\ OnlyBlanksFilled
  BY FillFieldStep DEF OnlyBlanksFilled
<1>2. /\ pc[p] = "write" /\ pc' = [pc EXCEPT ![p] = "normalize"]
      /\ field' = [field EXCEPT ![p] = field[p] + 1]
      /\ UNCHANGED <<items, slot, target, crashed>>
      /\ entry'[slot[p]][FieldAt(p)] = DefaultOf(FieldAt(p))
  <2>1. pc[p] = "write" /\ field[p] <= 4
    BY DEF FillField, RegistryInv, FillingInv
  <2>2. slot[p] \in DOMAIN entry /\ FieldAt(p) \in FieldNames
    BY <2>1, NextField
  <2>3. FieldAt(p) \in DOMAIN entry[slot[p]]
    <3>1. entry[slot[p]] \in DNS
      BY <2>2 DEF RegistryInv, TypeOK
    <3>2. QED
      BY <2>2, <3>1, TheFields DEF DNS
  <2>4. QED
    BY <2>1, <2>2, <2>3 DEF FillField
<1>3. TypeOK'
  <2>1. \A s \in DOMAIN entry' : entry'[s] \in DNS
    BY <1>1 DEF Settled
  <2>2. field[p] + 1 \in 1..5
    BY <1>2, NextField DEF RegistryInv, FillingInv
  <2>3. QED
    BY <1>1, <1>2, <2>1, <2>2, TheFields DEF RegistryInv, TypeOK
<1>4. PointersInv'
  BY <1>1, <1>2 DEF RegistryInv, PointersInv, Item
\* A field that was set stays so, also for those who read the same entry.
<1>5. \A s \in DOMAIN entry, f \in FieldNames :
        /\ ~Blank(entry[s][f]) => ~Blank(entry'[s][f])
        /\ entry[s][f] = DefaultOf(f) => entry'[s][f] = DefaultOf(f)
  BY <1>1, DefaultIsSet DEF OnlyBlanksFilled
<1>6. FillingInv'
  <2> SUFFICES ASSUME NEW q \in Callers, pc'[q] \in {"normalize", "write"}
               PROVE  /\ slot'[q] \in DOMAIN entry'
                      /\ \A i \in 1..4 : i < field'[q] => ~Blank(entry'[slot'[q]][Fields[i]])
                      /\ pc'[q] = "write" =>
                           /\ field'[q] <= 4
                           /\ \/ Blank(entry'[slot'[q]][Fields[field'[q]]])
                              \/ entry'[slot'[q]][Fields[field'[q]]]
                                   = DefaultOf(Fields[field'[q]])
    BY DEF FillingInv, Value, FieldAt
  <2>1. pc[q] \in {"normalize", "write"} /\ slot'[q] = slot[q] /\ slot[q] \in DOMAIN entry
    BY <1>2 DEF RegistryInv, TypeOK, FillingInv
  <2>2. \A i \in 1..4 : i < field[q] => ~Blank(entry'[slot[q]][Fields[i]])
    BY <1>5, <2>1, TheFields DEF RegistryInv, FillingInv
  <2>3. CASE q = p
    <3>1. pc'[q] = "normalize" /\ field'[q] = field[q] + 1
      BY <1>2, <2>3 DEF RegistryInv, TypeOK
    <3>2. ~Blank(entry'[slot[q]][Fields[field[q]]])
      BY <1>2, <2>3, NextField, DefaultIsSet DEF RegistryInv, FillingInv, FieldAt
    <3>3. \A i \in 1..4 : i < field[q] + 1 => i < field[q] \/ i = field[q]
      BY <1>2, <2>3, NextField DEF RegistryInv, FillingInv
    <3>4. QED
      BY <1>1, <2>1, <2>2, <3>1, <3>2, <3>3
  <2>4. CASE q # p
    <3>1. pc'[q] = pc[q] /\ field'[q] = field[q]
      BY <1>2, <2>4 DEF RegistryInv, TypeOK
    <3>2. ASSUME pc[q] = "write"
          PROVE  /\ field[q] <= 4 /\ Fields[field[q]] \in FieldNames
                 /\ \/ Blank(entry[slot[q]][Fields[field[q]]])
                    \/ entry[slot[q]][Fields[field[q]]] = DefaultOf(Fields[field[q]])
      BY <3>2, NextField DEF RegistryInv, FillingInv, Value, FieldAt
    <3>3. ASSUME pc[q] = "write"
          PROVE  \/ Blank(entry'[slot[q]][Fields[field[q]]])
                 \/ entry'[slot[q]][Fields[field[q]]] = DefaultOf(Fields[field[q]])
      BY <1>1, <2>1, <3>2, <3>3 DEF OnlyBlanksFilled
    <3>4. QED
      BY <1>1, <2>1, <2>2, <3>1, <3>2, <3>3
  <2>5. QED
    BY <2>3, <2>4
<1>7. BuiltInv'
  <2>1. \A q \in Callers \ {p} : pc'[q] = pc[q]
    BY <1>2 DEF RegistryInv, TypeOK
  <2>2. pc'[p] = "normalize"
    BY <1>2 DEF RegistryInv, TypeOK
  <2>3. QED
    BY <1>1, <1>2, <2>1, <2>2 DEF RegistryInv, BuiltInv, NameBehind, Intended
<1>8. QED
  BY <1>1, <1>3, <1>4, <1>6, <1>7 DEF RegistryInv

LEMMA UntouchedEntry == entry' = entry => OnlyBlanksFilled
BY DEF OnlyBlanksFilled

LEMMA RegistryNext == RegistryInv /\ [Next]_vars => RegistryInv' /\ OnlyBlanksFilled
<1> SUFFICES ASSUME RegistryInv, [Next]_vars PROVE RegistryInv' /\ OnlyBlanksFilled
  OBVIOUS
<1>1. ASSUME NEW p \in Callers, NEW n \in Names, TakeCopy(p, n)
      PROVE  RegistryInv' /\ OnlyBlanksFilled
  BY <1>1, TakeCopyInv DEF OnlyBlanksFilled
<1>2. ASSUME NEW p \in Callers, NEW n \in Names, InvokeUnknown(p, n)
      PROVE  RegistryInv' /\ OnlyBlanksFilled
  BY <1>2, InvokeUnknownInv, UntouchedEntry DEF InvokeUnknown
<1>3. ASSUME NEW p \in Callers, NEW s \in Slots, Invoke(p, s)
      PROVE  RegistryInv' /\ OnlyBlanksFilled
  BY <1>3, InvokeInv, UntouchedEntry DEF Invoke
<1>4. ASSUME NEW p \in Callers, FieldIsSet(p) PROVE RegistryInv' /\ OnlyBlanksFilled
  BY <1>4, FieldIsSetInv, UntouchedEntry DEF FieldIsSet
<1>5. ASSUME NEW p \in Callers, FieldIsBlank(p) PROVE RegistryInv' /\ OnlyBlanksFilled
  BY <1>5, FieldIsBlankInv, UntouchedEntry DEF FieldIsBlank
<1>6. ASSUME NEW p \in Callers, FillField(p) PROVE RegistryInv' /\ OnlyBlanksFilled
  BY <1>6, FillFieldInv
<1>7. ASSUME NEW p \in Callers, Build(p) PROVE RegistryInv' /\ OnlyBlanksFilled
  BY <1>7, BuildInv, UntouchedEntry DEF Build
<1>8. ASSUME NEW p \in Callers, CallEnds(p) PROVE RegistryInv' /\ OnlyBlanksFilled
  BY <1>8, CallEndsInv, UntouchedEntry DEF CallEnds
<1>9. CASE UNCHANGED vars
  <2>1. UNCHANGED <<items, entry, pc, slot, field, target, crashed>>
    BY <1>9 DEF vars, callVars
  <2>2. TypeOK' /\ PointersInv'
    BY <2>1 DEF RegistryInv, TypeOK, PointersInv, Item
  <2>3. FillingInv'
    BY <2>1 DEF RegistryInv, FillingInv, Value, FieldAt
  <2>4. BuiltInv'
    BY <2>1 DEF RegistryInv, BuiltInv, NameBehind, Intended
  <2>5. QED
    BY <2>1, <2>2, <2>3, <2>4, UntouchedEntry DEF RegistryInv
<1>10. QED
  BY <1>1, <1>2, <1>3, <1>4, <1>5, <1>6, <1>7, <1>8, <1>9 DEF Next

-----------------------------------------------------------------------------
(* The path: it is a registry and a connection manager.                    *)

MP == INSTANCE ConnectionManagerProofs
      WITH Names <- Keys, Target <- [k \in Keys |-> k], NoKey <- Invalid, pc <- dialPc

LEMMA ManagerAssumptions ==
    MP!NamesAssumption /\ MP!ConnsAssumption /\ MP!ClosersAssumption
<1>1. Invalid \notin Keys
  BY DEF Keys
<1>2. MP!NamesAssumption
  BY <1>1 DEF MP!NamesAssumption
<1>3. MP!ConnsAssumption /\ MP!ClosersAssumption
  BY PathAssumption DEF Manager!ConnsAssumption, Manager!ClosersAssumption,
     MP!ConnsAssumption, MP!ClosersAssumption
<1>4. QED
  BY <1>2, <1>3

LEMMA ManagerInit == PathInit => MP!IInv
<1>1. PathInit => MP!Init
  BY DEF PathInit, Manager!Init, MP!Init
<1>2. QED
  BY <1>1, ManagerAssumptions, MP!InitInv

\* The definitions of the manager, whichever instance they are taken from.
LEMMA SameManager ==
    /\ \A p, k : Manager!DialBegins(p, k) <=> MP!DialBegins(p, k)
    /\ \A p : Manager!DialProceeds(p) <=> MP!DialProceeds(p)
    /\ \A p : Manager!CallerMovesOn(p) <=> MP!CallerMovesOn(p)
    /\ \A x : Manager!CloseProceeds(x) <=> MP!CloseProceeds(x)
<1>1. \A p, k : Manager!DialBegins(p, k) <=> MP!DialBegins(p, k)
  BY DEF Manager!DialBegins, MP!DialBegins, Manager!Goto, MP!Goto, Manager!closeVars,
         MP!closeVars
<1>2. \A p : Manager!CallerMovesOn(p) <=> MP!CallerMovesOn(p)
  BY DEF Manager!CallerMovesOn, MP!CallerMovesOn, Manager!Goto, MP!Goto, Manager!closeVars,
         MP!closeVars
<1>3. \A p : Manager!DialProceeds(p) <=> MP!DialProceeds(p)
  BY DEF Manager!DialProceeds, MP!DialProceeds, Manager!Goto, MP!Goto, Manager!closeVars,
         MP!closeVars, Manager!LookUpShared, MP!LookUpShared, Manager!LookUpExclusive,
         MP!LookUpExclusive, Manager!LookUp, MP!LookUp, Manager!Return, MP!Return,
         Manager!DialSucceeds, MP!DialSucceeds, Manager!DialFails, MP!DialFails,
         Manager!Publish, MP!Publish, Manager!Store, MP!Store, Manager!CloseNew, MP!CloseNew
<1>4. \A x : Manager!CloseProceeds(x) <=> MP!CloseProceeds(x)
  BY DEF Manager!CloseProceeds, MP!CloseProceeds, Manager!CloseBegins, MP!CloseBegins,
         Manager!CloseAgain, MP!CloseAgain, Manager!CloseConn, MP!CloseConn,
         Manager!CloseReturns, MP!CloseReturns, Manager!dialVars, MP!dialVars
<1>5. QED
  BY <1>1, <1>2, <1>3, <1>4

LEMMA PathIsManager == [PathNext]_pathVars => [MP!Next]_MP!vars
<1> SUFFICES ASSUME [PathNext]_pathVars PROVE [MP!Next]_MP!vars
  OBVIOUS
<1>1. UNCHANGED managerVars => UNCHANGED MP!vars
  BY DEF managerVars, MP!vars
<1>2. ASSUME NEW p \in Callers, Resolve(p) PROVE UNCHANGED MP!vars
  BY <1>1, <1>2 DEF Resolve
<1>3. ASSUME NEW p \in Callers, Dial(p) PROVE MP!Next
  <2>1. target[p] \in Keys /\ MP!DialBegins(p, target[p])
    BY <1>3, SameManager DEF Dial
  <2>2. QED
    BY <2>1 DEF MP!Next
<1>4. ASSUME NEW p \in Callers, DialProceeds(p) PROVE MP!Next
  <2>1. MP!DialProceeds(p)
    BY <1>4, SameManager DEF DialProceeds
  <2>2. QED
    BY <2>1 DEF MP!Next
<1>5. ASSUME NEW p \in Callers, InvokeEnds(p) PROVE [MP!Next]_MP!vars
  <2>1. UNCHANGED managerVars \/ MP!CallerMovesOn(p)
    BY <1>5, SameManager DEF InvokeEnds
  <2>2. QED
    BY <1>1, <2>1 DEF MP!Next
<1>6. ASSUME NEW x \in Closers, Close(x) PROVE MP!Next
  <2>1. MP!CloseProceeds(x)
    BY <1>6, SameManager DEF Close
  <2>2. QED
    BY <2>1 DEF MP!Next
<1>7. CASE UNCHANGED pathVars
  BY <1>1, <1>7 DEF pathVars
<1>8. QED
  BY <1>2, <1>3, <1>4, <1>5, <1>6, <1>7 DEF PathNext

LEMMA PathIsRegistry == [PathNext]_pathVars => [Next]_vars
BY DEF PathNext, pathVars, Resolve, Dial, DialProceeds, InvokeEnds, Close, Next

LEMMA ManagerNext == MP!IInv /\ [PathNext]_pathVars => MP!IInv'
BY PathIsManager, ManagerAssumptions, MP!NextInv

-----------------------------------------------------------------------------
(* The path: where connections lead.                                       *)

\* A dial is under way for what the caller resolved, and for nothing else.
DialingInv ==
    \A p \in Callers : dialPc[p] # "idle" =>
        pc[p] = "built" /\ target[p] \in Keys /\ key[p] = target[p]

\* A connection is kept, published and handed out for the key it was dialed for.
LeadsInv ==
    /\ \A k \in Keys : conns[k] # NoConn => dialedFor[conns[k]] = k
    /\ \A p \in Callers : dialPc[p] \in {"publish", "returned"} /\ held[p] \in Conns =>
         dialedFor[held[p]] = key[p]

PathInv == RegistryInv /\ MP!IInv /\ DialingInv /\ LeadsInv

\* The types of the manager, and what it knows of connections that exist.
LEMMA ManagerFacts ==
    ASSUME MP!IInv
    PROVE  /\ conns \in [Keys -> Conns \cup {NoConn}]
           /\ connState \in [Conns -> {"unborn", "open", "closed"}]
           /\ dialPc \in [Callers -> MP!DialStates]
           /\ key \in [Callers -> Keys \cup {NoTarget}]
           /\ held \in [Callers -> Conns \cup {NoConn, Failed, ClosedErr}]
           /\ \A p \in Callers : dialPc[p] # "idle" => key[p] \in Keys
           /\ \A k \in Keys : conns[k] # NoConn =>
                conns[k] \in Conns /\ connState[conns[k]] = "open"
           /\ \A p \in Callers : dialPc[p] \in {"publish", "returned"} /\ held[p] \in Conns =>
                connState[held[p]] # "unborn"
BY DEF MP!IInv, MP!TypeOK, MP!KeyInv, MP!CacheInv, MP!HeldInv, MP!ReturnedInv

LEMMA PathInitInv == PathInit => PathInv
<1> SUFFICES ASSUME PathInit PROVE PathInv
  OBVIOUS
<1>1. RegistryInv /\ MP!IInv
  BY RegistryInit, ManagerInit DEF PathInit
<1>2. DialingInv /\ LeadsInv
  BY DEF PathInit, Manager!Init, DialingInv, LeadsInv
<1>3. QED
  BY <1>1, <1>2 DEF PathInv

LEMMA ResolveLeads ==
    ASSUME PathInv, NEW p \in Callers, Resolve(p)
    PROVE  DialingInv' /\ LeadsInv'
<1>1. dialPc[p] = "idle" /\ UNCHANGED <<managerVars, dialedFor>>
  BY DEF Resolve
<1>2. \A q \in Callers \ {p} : pc'[q] = pc[q] /\ target'[q] = target[q]
  BY DEF Resolve, TakeCopy, InvokeUnknown, Invoke, FieldIsSet, FieldIsBlank, FillField,
         Build, callVars, PathInv, RegistryInv, TypeOK
<1>3. DialingInv'
  BY <1>1, <1>2 DEF PathInv, DialingInv, managerVars
<1>4. LeadsInv'
  BY <1>1 DEF PathInv, LeadsInv, managerVars
<1>5. QED
  BY <1>3, <1>4

LEMMA DialLeads ==
    ASSUME PathInv, NEW p \in Callers, Dial(p)
    PROVE  DialingInv' /\ LeadsInv'
<1>1. /\ pc[p] = "built" /\ target[p] \in Keys
      /\ dialPc' = [dialPc EXCEPT ![p] = "fast"] /\ key' = [key EXCEPT ![p] = target[p]]
      /\ UNCHANGED <<conns, connState, held, dialedFor, pc, target>>
  BY DEF Dial, Manager!DialBegins, Manager!Goto, vars, callVars
<1>2. DialingInv'
  BY <1>1, ManagerFacts DEF PathInv, DialingInv
<1>3. LeadsInv'
  BY <1>1, ManagerFacts DEF PathInv, LeadsInv
<1>4. QED
  BY <1>2, <1>3

LEMMA InvokeEndsLeads ==
    ASSUME PathInv, NEW p \in Callers, InvokeEnds(p)
    PROVE  DialingInv' /\ LeadsInv'
<1>1. /\ \A q \in Callers \ {p} : pc'[q] = pc[q] /\ target'[q] = target[q]
      /\ UNCHANGED dialedFor
  BY DEF InvokeEnds, CallEnds, PathInv, RegistryInv, TypeOK
<1>2. /\ UNCHANGED <<conns, connState>>
      /\ dialPc'[p] = "idle"
      /\ \A q \in Callers \ {p} :
           dialPc'[q] = dialPc[q] /\ key'[q] = key[q] /\ held'[q] = held[q]
  BY ManagerFacts DEF InvokeEnds, managerVars, Manager!CallerMovesOn, Manager!Goto, PathInv
<1>3. DialingInv'
  BY <1>1, <1>2 DEF PathInv, DialingInv
<1>4. LeadsInv'
  BY <1>1, <1>2 DEF PathInv, LeadsInv
<1>5. QED
  BY <1>3, <1>4

LEMMA CloseLeads ==
    ASSUME PathInv, NEW x \in Closers, Close(x)
    PROVE  DialingInv' /\ LeadsInv'
<1>1. /\ UNCHANGED <<pc, target, dialedFor, dialPc, key, held>>
      /\ \A k \in Keys : conns'[k] # NoConn => conns'[k] = conns[k]
  BY ManagerFacts DEF Close, Manager!CloseProceeds, Manager!CloseBegins, Manager!CloseAgain,
     Manager!CloseConn, Manager!CloseReturns, Manager!dialVars, vars, callVars, PathInv
<1>2. QED
  BY <1>1 DEF PathInv, DialingInv, LeadsInv

\* The steps of a dial, as far as connections are concerned.
LEMMA DialSteps ==
    ASSUME MP!IInv, NEW p \in Callers, Manager!DialProceeds(p)
    PROVE  /\ dialPc[p] # "idle" /\ key' = key
           /\ \A q \in Callers \ {p} : dialPc'[q] = dialPc[q] /\ held'[q] = held[q]
           /\ \/ /\ connState' = connState /\ conns' = conns
                 /\ \/ held'[p] \notin Conns
                    \/ dialPc'[p] \notin {"publish", "returned"}
                    \/ conns[key[p]] # NoConn /\ held'[p] = conns[key[p]]
              \/ /\ conns' = conns /\ held'[p] \in Conns
                 /\ connState[held'[p]] = "unborn"
                 /\ connState' = [connState EXCEPT ![held'[p]] = "open"]
              \/ /\ conns' = conns
                 /\ connState' = [connState EXCEPT ![held[p]] = "closed"]
                 /\ \/ held'[p] \notin Conns
                    \/ conns[key[p]] # NoConn /\ held'[p] = conns[key[p]]
              \/ /\ dialPc[p] = "publish" /\ connState' = connState /\ held[p] \in Conns
                 /\ conns' = [conns EXCEPT ![key[p]] = held[p]] /\ held'[p] = held[p]
<1> USE ManagerFacts
<1>0. {Failed, ClosedErr} \cap Conns = {}
  BY PathAssumption DEF Manager!ConnsAssumption
<1>1. ASSUME NEW next \in {"slow", "dial"}, dialPc[p] \in {"fast", "slow"},
             Manager!LookUp(p, next)
      PROVE  /\ key' = key /\ connState' = connState /\ conns' = conns
             /\ \A q \in Callers \ {p} : dialPc'[q] = dialPc[q] /\ held'[q] = held[q]
             /\ \/ held'[p] \notin Conns
                \/ dialPc'[p] \notin {"publish", "returned"}
                \/ conns[key[p]] # NoConn /\ held'[p] = conns[key[p]]
  BY <1>0, <1>1 DEF Manager!LookUp, Manager!Return, Manager!Goto
<1>2. CASE Manager!LookUpShared(p)
  BY <1>1, <1>2 DEF Manager!LookUpShared
<1>3. CASE Manager!LookUpExclusive(p)
  BY <1>1, <1>3 DEF Manager!LookUpExclusive
<1>4. CASE \E c \in Conns : Manager!DialSucceeds(p, c)
  BY <1>4 DEF Manager!DialSucceeds, Manager!Goto
<1>5. CASE Manager!DialFails(p)
  BY <1>0, <1>5 DEF Manager!DialFails, Manager!Return, Manager!Goto
<1>6. CASE Manager!Publish(p)
  <2>1. dialPc[p] = "publish" /\ key' = key
    BY <1>6 DEF Manager!Publish
  <2>2. held[p] \in Conns
    BY <2>1 DEF MP!IInv, MP!HeldInv
  <2>3. CASE Manager!CloseNew(p) /\ Manager!Return(p, ClosedErr)
    BY <1>0, <2>1, <2>3 DEF Manager!CloseNew, Manager!Return, Manager!Goto
  <2>4. CASE /\ conns[key[p]] # NoConn /\ Manager!CloseNew(p)
             /\ Manager!Return(p, conns[key[p]])
    BY <2>1, <2>4 DEF Manager!CloseNew, Manager!Return, Manager!Goto
  <2>5. CASE Manager!Store(p)
    BY <2>1, <2>2, <2>5 DEF Manager!Store, Manager!Return, Manager!Goto
  <2>6. QED
    BY <1>6, <2>3, <2>4, <2>5 DEF Manager!Publish
<1>7. QED
  BY <1>2, <1>3, <1>4, <1>5, <1>6 DEF Manager!DialProceeds

\* The history notes where a connection leads in the step that makes it.
LEMMA DialProceedsLeads ==
    ASSUME PathInv, NEW p \in Callers, DialProceeds(p)
    PROVE  DialingInv' /\ LeadsInv'
<1> DEFINE made(c) == connState[c] = "unborn" /\ connState'[c] = "open"
<1>1. /\ Manager!DialProceeds(p) /\ UNCHANGED <<pc, target>>
      /\ \A c \in Conns : dialedFor'[c] = IF made(c) THEN key[p] ELSE dialedFor[c]
  BY DEF DialProceeds, vars, callVars
<1>2. MP!IInv /\ key[p] \in Keys /\ dialPc[p] # "idle" /\ key' = key
  BY <1>1, DialSteps, ManagerFacts DEF PathInv
<1>3. DialingInv'
  BY <1>1, <1>2, DialSteps DEF PathInv, DialingInv
<1>4. \A c \in Conns : connState[c] # "unborn" => dialedFor'[c] = dialedFor[c]
  BY <1>1
<1>5. \A k \in Keys : conns[k] # NoConn => dialedFor'[conns[k]] = k
  BY <1>2, <1>4, ManagerFacts DEF PathInv, LeadsInv
<1>6. \A q \in Callers : dialPc[q] \in {"publish", "returned"} /\ held[q] \in Conns =>
         dialedFor'[held[q]] = key[q]
  BY <1>2, <1>4, ManagerFacts DEF PathInv, LeadsInv
<1>7. ASSUME dialPc'[p] \in {"publish", "returned"}, held'[p] \in Conns
      PROVE  dialedFor'[held'[p]] = key[p]
  <2>1. CASE conns[key[p]] # NoConn /\ held'[p] = conns[key[p]]
    BY <1>2, <1>5, <2>1
  <2>2. CASE /\ connState[held'[p]] = "unborn"
             /\ connState' = [connState EXCEPT ![held'[p]] = "open"]
    <3>1. made(held'[p])
      BY <1>2, <1>7, <2>2, ManagerFacts
    <3>2. QED
      BY <1>1, <1>7, <3>1
  <2>3. CASE dialPc[p] = "publish" /\ held[p] \in Conns /\ held'[p] = held[p]
    BY <1>6, <2>3
  <2>4. QED
    BY <1>1, <1>2, <1>7, <2>1, <2>2, <2>3, DialSteps
<1>8. \A k \in Keys : conns'[k] # NoConn => dialedFor'[conns'[k]] = k
  <2>1. CASE conns' = conns
    BY <1>5, <2>1
  <2>2. CASE /\ dialPc[p] = "publish" /\ held[p] \in Conns
             /\ conns' = [conns EXCEPT ![key[p]] = held[p]]
    <3>1. dialedFor'[held[p]] = key[p]
      BY <1>6, <2>2
    <3>2. QED
      BY <1>2, <1>5, <2>2, <3>1, ManagerFacts
  <2>3. QED
    BY <1>1, <1>2, <2>1, <2>2, DialSteps
<1>9. LeadsInv'
  <2>1. ASSUME NEW q \in Callers, dialPc'[q] \in {"publish", "returned"}, held'[q] \in Conns
        PROVE  dialedFor'[held'[q]] = key'[q]
    <3>1. CASE q = p
      BY <1>2, <1>7, <2>1, <3>1
    <3>2. CASE q # p
      <4>1. dialPc'[q] = dialPc[q] /\ held'[q] = held[q]
        BY <1>1, <1>2, <3>2, DialSteps
      <4>2. QED
        BY <1>2, <1>6, <2>1, <4>1
    <3>3. QED
      BY <3>1, <3>2
  <2>2. QED
    BY <1>8, <2>1 DEF LeadsInv
<1>10. QED
  BY <1>3, <1>9

LEMMA PathNextInv == PathInv /\ [PathNext]_pathVars => PathInv'
<1> SUFFICES ASSUME PathInv, [PathNext]_pathVars PROVE PathInv'
  OBVIOUS
<1>1. RegistryInv' /\ MP!IInv'
  BY PathIsRegistry, RegistryNext, ManagerNext DEF PathInv
<1>2. ASSUME UNCHANGED pathVars PROVE DialingInv' /\ LeadsInv'
  BY <1>2 DEF pathVars, vars, callVars, managerVars, PathInv, DialingInv, LeadsInv
<1>3. DialingInv' /\ LeadsInv'
  BY <1>2, ResolveLeads, DialLeads, DialProceedsLeads, InvokeEndsLeads, CloseLeads
     DEF PathNext, PathInv
<1>4. QED
  BY <1>1, <1>3 DEF PathInv

LEMMA PathInvHolds == PathSpec => []PathInv
BY PathInitInv, PathNextInv, PTL DEF PathSpec

-----------------------------------------------------------------------------
(* The theorems.                                                           *)

\* Every variable of the registry and its callers keeps its type (invocation/service.go
\* and invocation/dns.go).
THEOREM TypeCorrect == PathSpec => []TypeOK
<1>1. PathInv => TypeOK
  BY DEF PathInv, RegistryInv
<1>2. QED
  BY <1>1, PathInvHolds, PTL

\* The manager inside of the path is a ConnectionManager: what is proved of Dial and Close
\* holds for callers that resolve names (invocation/manager.go).
THEOREM PathImplementsManager == PathSpec => Manager!Spec
<1>1. PathInit => Manager!Init
  BY DEF PathInit
<1>2. [PathNext]_pathVars => [Manager!Next]_Manager!vars
  <2>1. UNCHANGED MP!vars => UNCHANGED Manager!vars
    BY DEF MP!vars, Manager!vars
  <2>2. MP!Next => Manager!Next
    BY SameManager DEF MP!Next, Manager!Next
  <2>3. QED
    BY <2>1, <2>2, PathIsManager
<1>3. QED
  BY <1>1, <1>2, PTL DEF PathSpec, Manager!Spec

\* Whoever resolves a name, through the registry or a copy, alone or while others fill the
\* same blanks, gets the target of the last item of that name with its blanks filled
\* (Invoke, Normalize and Build).
THEOREM ResolvedAsRegistered == PathSpec => []ResolvesAsRegistered
<1>1. PathInv => ResolvesAsRegistered
  <2> SUFFICES ASSUME PathInv, NEW p \in Callers, pc[p] = "built"
               PROVE  \/ slot[p] \in Names /\ target[p] \in Intended(slot[p])
                      \/ /\ slot[p] \in Names /\ Intended(slot[p]) = {}
                         /\ target[p] = NotFound
                      \/ slot[p] \in Callers /\ \E n \in Names : target[p] \in Intended(n)
    BY DEF ResolvesAsRegistered
  <2>1. RegistryInv
    BY DEF PathInv
  <2>2. CASE slot[p] \in Names \ DOMAIN entry /\ target[p] = NotFound
    <3>1. items \in ItemLists /\ Spelled(items, slot[p]) = {}
      BY <2>1, <2>2 DEF RegistryInv, PointersInv
    <3>2. Intended(slot[p]) = {}
      BY <3>1, IntendedIsOne
    <3>3. QED
      BY <2>2, <3>2
  <2>3. CASE slot[p] \in DOMAIN entry /\ target[p] \in Intended(NameBehind(p))
    <3>1. /\ NameBehind(p) \in Names /\ slot[p] \in Slots
          /\ slot[p] \in Names => slot[p] = NameBehind(p)
      BY <2>1, <2>3 DEF RegistryInv, PointersInv, NameBehind
    <3>2. QED
      BY <2>3, <3>1 DEF Slots
  <2>4. QED
    BY <2>1, <2>2, <2>3 DEF RegistryInv, BuiltInv
<1>2. QED
  BY <1>1, PathInvHolds, PTL

\* A field that is set never changes, and a blank only becomes its default, whoever
\* normalises the entry and however often (Normalize, without a lock).
THEOREM SettleOnce == PathSpec => FieldsSettleOnce
<1>1. PathInv /\ [PathNext]_pathVars =>
        [\A s \in DOMAIN entry, f \in FieldNames :
           \/ entry'[s][f] = entry[s][f]
           \/ Blank(entry[s][f]) /\ entry'[s][f] = DefaultOf(f)]_vars
  BY PathIsRegistry, RegistryNext DEF PathInv, OnlyBlanksFilled
<1>2. QED
  BY <1>1, PathInvHolds, PTL DEF PathSpec, FieldsSettleOnce

\* A name is meant to lead to one target at most.
LEMMA IntendedIsTheTarget ==
    ASSUME items \in ItemLists, NEW n, NEW t \in Intended(n)
    PROVE  Intended(n) = {t}
BY IntendedIsOne

\* Callers of one service share one connection, and callers of two do just when both are
\* registered with the same target, whichever way they came to the name; the connection
\* leads where the owner of the registry meant it to (Invoke, Caller and Dial).
THEOREM OneConnectionPerService == PathSpec => []SharedByName
<1>1. PathInv => SharedByName
  <2> SUFFICES ASSUME PathInv, NEW p \in Callers, NEW q \in Callers, Connected(p),
                      Connected(q)
               PROVE  /\ held[p] = held[q] <=>
                           Intended(NameBehind(p)) = Intended(NameBehind(q))
                      /\ dialedFor[held[p]] \in Intended(NameBehind(p))
    BY DEF SharedByName
  <2>1. items \in ItemLists
    BY DEF PathInv, RegistryInv, PointersInv
  <2>2. ASSUME NEW r \in Callers, Connected(r)
        PROVE  /\ target[r] \in Keys /\ target[r] \in Intended(NameBehind(r))
               /\ key[r] = target[r] /\ dialedFor[held[r]] = target[r]
    <3>1. pc[r] = "built" /\ target[r] \in Keys /\ key[r] = target[r]
      BY <2>2 DEF Connected, PathInv, DialingInv
    <3>2. target[r] # NotFound
      BY <3>1, PathAssumption
    <3>3. target[r] \in Intended(NameBehind(r))
      BY <3>1, <3>2 DEF PathInv, RegistryInv, BuiltInv
    <3>4. dialedFor[held[r]] = key[r]
      BY <2>2 DEF Connected, PathInv, LeadsInv
    <3>5. QED
      BY <3>1, <3>3, <3>4
  <2>3. /\ Intended(NameBehind(p)) = {target[p]}
        /\ Intended(NameBehind(q)) = {target[q]}
    BY <2>1, <2>2, IntendedIsTheTarget
  <2>4. ASSUME target[p] = target[q] PROVE held[p] = held[q]
    <3>1. key[p] = key[q]
      BY <2>2, <2>4
    <3>2. MP!OneConnPerTarget
      BY DEF PathInv, MP!IInv
    <3>3. QED
      BY <3>1, <3>2 DEF MP!OneConnPerTarget, Connected
  <2>5. QED
    BY <2>2, <2>3, <2>4
<1>2. QED
  BY <1>1, PathInvHolds, PTL
=============================================================================
