--------------------------- MODULE DataAccessProofs ---------------------------
(***************************************************************************)
(* Theorems about DataAccess: for any constraints, policies, words and     *)
(* number of contexts, what a context or the registry keeps is nobody      *)
(* else's to change.                                                       *)
(***************************************************************************)
EXTENDS DataAccess, TLAPS

-----------------------------------------------------------------------------
(* The inductive invariant.                                                *)

Passed == [request : Words, says : Constraints] \cup {NoDecision}
DecisionType == [word : Words, allowed : BOOLEAN, expiresAt : Nat, at : Addresses,
                 passed : Passed]
ContextType == UNION {[keys -> DecisionType] : keys \in SUBSET Keys}

\* If Validate let the decision through, it is still the one that was let through.
Vouched(memory, d) ==
    d.passed # NoDecision =>
        /\ d.allowed
        /\ d.passed.request.text = d.word.text
        /\ Sound(d.passed.says)
        /\ memory[d.at] = d.passed.says

\* A decision in hand that has passed is in a slice of its own; one that has not may be
\* in the authorizer's.
GrantedInv ==
    granted # NoDecision =>
        /\ granted \in DecisionType
        /\ granted.at \in {Slot(0, Granted), Slot(0, Authorizer)}
        /\ granted.passed # NoDecision => granted.at = Slot(0, Granted)
        /\ Vouched(heap, granted)

\* Each kept decision is in the slot of its context and key.
ContextsInv ==
    /\ contexts \in Seq(ContextType)
    /\ Len(contexts) \in 1..MaxContexts
    /\ \A i \in 1..Len(contexts) :
         \A k \in DOMAIN contexts[i] :
              /\ contexts[i][k].at = Slot(i, k)
              /\ contexts[i][k].word.text = k
              /\ Vouched(heap, contexts[i][k])

\* Readers hold slices of their own, and the registry keeps the copies it made.
OwnersInv ==
    /\ held # NoDecision => held = Slot(0, Reader)
    /\ DOMAIN policies \subseteq Methods
    /\ \A m \in DOMAIN policies : policies[m] = Registered(m)
    /\ DOMAIN heap = Addresses

IInv == GrantedInv /\ ContextsInv /\ OwnersInv

LEMMA KeptType ==
    ASSUME ContextsInv, NEW i \in 1..Len(contexts)
    PROVE  /\ i \in 1..MaxContexts
           /\ contexts[i] \in ContextType
           /\ DOMAIN contexts[i] \subseteq Keys
           /\ \A k \in DOMAIN contexts[i] : contexts[i][k] \in DecisionType
<1>1. i \in 1..MaxContexts /\ contexts[i] \in ContextType
  BY DataAssumption DEF ContextsInv
<1>2. PICK keys \in SUBSET Keys : contexts[i] \in [keys -> DecisionType]
  BY <1>1 DEF ContextType
<1>3. QED
  BY <1>1, <1>2

LEMMA KeptAddress ==
    ASSUME NEW i \in 1..MaxContexts, NEW k \in Keys
    PROVE  Slot(i, k) \in Addresses
BY DEF Addresses

LEMMA OtherAddresses ==
    /\ {Slot(0, Authorizer), Slot(0, Granted), Slot(0, Reader)} \subseteq Addresses
    /\ \A m \in Methods : Owned(m) \in Addresses /\ Registered(m) \in Addresses
BY DEF Addresses

LEMMA InitInv == Init => IInv
<1> SUFFICES ASSUME Init PROVE IInv
  OBVIOUS
<1>1. PICK table \in PolicyTables : NewPolicies(table)
  BY DEF Init
<1> DEFINE known == {method.text : method \in DOMAIN table}
<1>2. PICK last \in [known -> DOMAIN table] :
        /\ policies = [m \in known |-> CopyEntries(m)]
        /\ heap = [a \in Addresses |->
             IF \E m \in known : a \in {Owned(m), Registered(m)}
             THEN EntriesOf(table[last[a.key]]) ELSE Scribble]
  BY <1>1 DEF NewPolicies
<1>3. known \subseteq Methods
  BY DEF Methods
<1>4. OwnersInv
  BY <1>2, <1>3 DEF Init, OwnersInv, CopyEntries
<1>5. ContextsInv
  <2>1. <<>> \in [{} -> DecisionType]
    OBVIOUS
  <2>2. <<>> \in ContextType
    BY <2>1 DEF ContextType
  <2>3. contexts \in Seq(ContextType)
    <3>1. \A c \in ContextType : <<c>> \in Seq(ContextType)
      OBVIOUS
    <3>2. QED
      BY <2>2, <3>1 DEF Init
  <2>4. QED
    BY <2>3, DataAssumption DEF Init, ContextsInv
<1>6. QED
  BY <1>4, <1>5 DEF Init, IInv, GrantedInv

-----------------------------------------------------------------------------
(* Steps that borrow: what contexts and registry keep is left alone.       *)

Frame ==
    /\ contexts' = contexts
    /\ policies' = policies
    /\ DOMAIN heap' = DOMAIN heap
    /\ \A i \in 1..MaxContexts, k \in Keys : heap'[Slot(i, k)] = heap[Slot(i, k)]
    /\ \A m \in Methods : heap'[Registered(m)] = heap[Registered(m)]

\* Writing to slices outside of contexts and registry keeps the frame.
LEMMA BorrowedFrame ==
    ASSUME OwnersInv, contexts' = contexts, policies' = policies,
           DOMAIN heap' = DOMAIN heap,
           \A a \in Addresses : a.context \in 1..MaxContexts \cup {-2} => heap'[a] = heap[a]
    PROVE  Frame
<1>1. \A i \in 1..MaxContexts, k \in Keys : Slot(i, k) \in Addresses /\ Slot(i, k).context = i
  BY KeptAddress DEF Slot
<1>2. \A m \in Methods : Registered(m) \in Addresses /\ Registered(m).context = -2
  BY OtherAddresses DEF Registered, Slot
<1>3. QED
  BY <1>1, <1>2 DEF Frame

LEMMA FrameInv ==
    ASSUME ContextsInv, Frame
    PROVE  ContextsInv'
<1>1. ASSUME NEW i \in 1..Len(contexts), NEW k \in DOMAIN contexts[i]
      PROVE  Says(i, k)' = Says(i, k)
  BY KeptType DEF Frame, ContextsInv, Says
<1>2. ASSUME NEW i \in 1..Len(contexts), NEW k \in DOMAIN contexts[i]
      PROVE  /\ contexts'[i][k].at = Slot(i, k)
             /\ contexts'[i][k].word.text = k
             /\ Vouched(heap', contexts'[i][k])
  BY <1>1 DEF Frame, ContextsInv, Vouched, Says
<1>3. QED
  BY <1>2 DEF Frame, ContextsInv

\* A step that has a decision put in hand.
LEMMA InHand ==
    ASSUME NEW a \in Answers, NEW at \in Addresses, NEW passed \in Passed
    PROVE  LET d == Decision(a, at, passed) IN
           /\ d \in DecisionType
           /\ d.word = a.word /\ d.allowed = a.allowed /\ d.at = at /\ d.passed = passed
<1>1. a \in [word : Words, allowed : BOOLEAN, expiresAt : Nat, says : Constraints]
  BY DataAssumption
<1>2. QED
  BY <1>1 DEF Decision, DecisionType

LEMMA AuthorizeStep ==
    ASSUME IInv, NEW request \in Words, NEW a \in Answers, Authorize(request, a)
    PROVE  IInv' /\ Frame
<1> DEFINE buffer == Slot(0, Authorizer)
           copy == Slot(0, Granted)
           passed == [request |-> request, says |-> a.says]
<1>1. /\ contexts' = contexts /\ policies' = policies /\ held' = held
      /\ DOMAIN heap' = DOMAIN heap
  BY DEF Authorize
<1>2. \A at \in Addresses : at.context \in 1..MaxContexts \cup {-2} => heap'[at] = heap[at]
  <2>1. \/ heap' = [heap EXCEPT ![buffer] = a.says, ![copy] = a.says]
        \/ heap' = [heap EXCEPT ![buffer] = a.says]
    BY DEF Authorize
  <2>2. buffer.context = 0 /\ copy.context = 0
    BY DEF Slot
  <2> HIDE DEF buffer, copy
  <2>3. \A at \in Addresses : at # buffer /\ at # copy => heap'[at] = heap[at]
    BY <2>1 DEF IInv, OwnersInv
  <2>4. QED
    BY <2>2, <2>3, DataAssumption
<1>3. Frame
  BY <1>1, <1>2, BorrowedFrame DEF IInv
<1>4. OwnersInv'
  BY <1>1 DEF IInv, OwnersInv
<1>5. buffer \in Addresses /\ copy \in Addresses
  BY OtherAddresses
<1>6. passed \in Passed /\ NoDecision \in Passed
  BY DataAssumption DEF Passed
<1>7. GrantedInv'
  <2>1. CASE Valid(a, request)
    <3>1. /\ granted' = Clone(Decision(a, buffer, passed), copy)
          /\ heap' = [heap EXCEPT ![buffer] = a.says, ![copy] = a.says]
      BY <2>1 DEF Authorize
    <3>2. granted' = Decision(a, copy, passed)
      BY <3>1 DEF Clone, Decision
    <3>3. heap'[copy] = a.says
      BY <1>5, <3>1 DEF IInv, OwnersInv
    <3>4. a.allowed /\ a.word = request /\ Sound(a.says)
      BY <2>1 DEF Valid
    <3>5. /\ granted' \in DecisionType /\ granted'.word = a.word
          /\ granted'.allowed = a.allowed /\ granted'.at = copy
          /\ granted'.passed = passed
      BY <1>5, <1>6, <3>2, InHand
    <3>6. passed.request = request /\ passed.says = a.says
      OBVIOUS
    <3> HIDE DEF copy, buffer, passed
    <3>7. Vouched(heap', granted')
      BY <3>3, <3>4, <3>5, <3>6 DEF Vouched
    <3>8. QED
      BY <3>5, <3>7 DEF GrantedInv, copy
  <2>2. CASE ~Valid(a, request)
    <3>1. granted' = Decision(a, buffer, NoDecision)
      BY <2>2 DEF Authorize
    <3>2. /\ granted' \in DecisionType /\ granted'.at = buffer
          /\ granted'.passed = NoDecision
      BY <1>5, <1>6, <3>1, InHand
    <3>3. QED
      BY <3>2 DEF GrantedInv, Vouched
  <2>3. QED
    BY <2>1, <2>2
<1>8. QED
  BY <1>3, <1>4, <1>7, FrameInv DEF IInv

LEMMA MakeStep == ASSUME IInv, NEW a \in Answers, Make(a) PROVE IInv' /\ Frame
<1>1. /\ contexts' = contexts /\ policies' = policies /\ held' = held
      /\ DOMAIN heap' = DOMAIN heap
      /\ granted' = Decision(a, Slot(0, Granted), NoDecision)
  BY DEF Make
<1>2. \A at \in Addresses : at.context \in 1..MaxContexts \cup {-2} => heap'[at] = heap[at]
  BY DataAssumption DEF IInv, OwnersInv, Make, Slot
<1>3. Frame
  BY <1>1, <1>2, BorrowedFrame DEF IInv
<1>4. OwnersInv'
  BY <1>1 DEF IInv, OwnersInv
<1>5. /\ granted' \in DecisionType /\ granted'.at = Slot(0, Granted)
      /\ granted'.passed = NoDecision
  <2>1. NoDecision \in Passed
    BY DEF Passed
  <2>2. QED
    BY <1>1, <2>1, OtherAddresses, InHand
<1>6. GrantedInv'
  BY <1>5 DEF GrantedInv, Vouched
<1>7. QED
  BY <1>3, <1>4, <1>6, FrameInv DEF IInv

LEMMA HolderWritesStep == ASSUME IInv, HolderWrites PROVE IInv' /\ Frame
<1>1. /\ contexts' = contexts /\ policies' = policies /\ held' = held
      /\ granted # NoDecision /\ DOMAIN heap' = DOMAIN heap
      /\ granted' = [granted EXCEPT !.passed = NoDecision]
      /\ heap' = [heap EXCEPT ![granted.at] = Scribble]
  BY DEF HolderWrites
<1>2. granted \in DecisionType /\ granted.at \in {Slot(0, Granted), Slot(0, Authorizer)}
  BY <1>1 DEF IInv, GrantedInv
<1>3. \A at \in Addresses : at.context \in 1..MaxContexts \cup {-2} => heap'[at] = heap[at]
  BY <1>1, <1>2, DataAssumption DEF IInv, OwnersInv, Slot
<1>4. Frame
  BY <1>1, <1>3, BorrowedFrame DEF IInv
<1>5. OwnersInv'
  BY <1>1 DEF IInv, OwnersInv
<1>6. NoDecision \in Passed
  BY DEF Passed
<1>7. /\ granted' \in DecisionType /\ granted'.at = granted.at
      /\ granted'.passed = NoDecision
  BY <1>1, <1>2, <1>6 DEF DecisionType
<1>8. GrantedInv'
  BY <1>2, <1>7 DEF GrantedInv, Vouched
<1>9. QED
  BY <1>4, <1>5, <1>8, FrameInv DEF IInv

LEMMA ReadStep ==
    ASSUME IInv, NEW i \in 1..Len(contexts), NEW w \in Words, Read(i, w)
    PROVE  IInv' /\ Frame
<1> DEFINE k == DecisionKey(w)
<1>1. /\ contexts' = contexts /\ policies' = policies /\ granted' = granted
     
      /\ heap' = [heap EXCEPT ![Slot(0, Reader)] = heap[contexts[i][k].at]]
  BY DEF Read
<1>2. held' = Slot(0, Reader)
  <2>1. contexts[i][k] \in DecisionType
    BY KeptType DEF Read, IInv
  <2>2. QED
    BY <2>1 DEF Read, Clone, DecisionType
<1>3. /\ \A a \in Addresses : a.context \in 1..MaxContexts \cup {-2} => heap'[a] = heap[a]
      /\ heap'[Slot(0, Granted)] = heap[Slot(0, Granted)]
  BY <1>1, OtherAddresses, DataAssumption DEF IInv, OwnersInv, Slot, Granted, Reader
<1>4. Frame
  BY <1>1, <1>3, BorrowedFrame DEF IInv
<1>5. GrantedInv' /\ OwnersInv'
  BY <1>1, <1>2, <1>3 DEF IInv, GrantedInv, Vouched, OwnersInv
<1>6. QED
  BY <1>4, <1>5, FrameInv DEF IInv

LEMMA LookupStep ==
    ASSUME IInv, NEW w, Lookup(w)
    PROVE  IInv' /\ Frame
<1>1. /\ contexts' = contexts /\ policies' = policies /\ granted' = granted
      /\ held' = Slot(0, Reader)
      /\ heap' = [heap EXCEPT ![Slot(0, Reader)] = heap[policies[w.text]]]
  BY DEF Lookup
<1>2. /\ \A a \in Addresses : a.context \in 1..MaxContexts \cup {-2} => heap'[a] = heap[a]
      /\ heap'[Slot(0, Granted)] = heap[Slot(0, Granted)]
  BY <1>1, OtherAddresses, DataAssumption DEF IInv, OwnersInv, Slot, Granted, Reader
<1>3. Frame
  BY <1>1, <1>2, BorrowedFrame DEF IInv
<1>4. GrantedInv' /\ OwnersInv'
  BY <1>1, <1>2 DEF IInv, GrantedInv, Vouched, OwnersInv
<1>5. QED
  BY <1>3, <1>4, FrameInv DEF IInv

\* Whoever writes to a slice that is not the granted one, a context's or the registry's.
WritesTo(at) ==
    /\ at.context \in {-1, 0} /\ at # Slot(0, Granted)
    /\ heap' = [heap EXCEPT ![at] = Scribble]
    /\ UNCHANGED <<contexts, granted, held, policies>>

LEMMA WriteStep == ASSUME IInv, NEW at, WritesTo(at) PROVE IInv' /\ Frame
<1>1. /\ \A a \in Addresses : a.context \in 1..MaxContexts \cup {-2} => heap'[a] = heap[a]
      /\ heap'[Slot(0, Granted)] = heap[Slot(0, Granted)]
  BY OtherAddresses, DataAssumption DEF IInv, OwnersInv, WritesTo
<1>2. Frame
  BY <1>1, BorrowedFrame DEF IInv, WritesTo
<1>3. GrantedInv' /\ OwnersInv'
  BY <1>1 DEF WritesTo, IInv, GrantedInv, Vouched, OwnersInv
<1>4. QED
  BY <1>2, <1>3, FrameInv DEF IInv

LEMMA ReaderWritesStep == ASSUME IInv, ReaderWrites PROVE IInv' /\ Frame
<1>1. WritesTo(Slot(0, Reader))
  BY DEF ReaderWrites, WritesTo, IInv, OwnersInv, Slot, Reader, Granted
<1>2. QED
  BY <1>1, WriteStep

LEMMA AuthorizerWritesStep == ASSUME IInv, AuthorizerWrites PROVE IInv' /\ Frame
<1>1. WritesTo(Slot(0, Authorizer))
  BY DEF AuthorizerWrites, WritesTo, Slot, Authorizer, Granted
<1>2. QED
  BY <1>1, WriteStep

LEMMA BuilderWritesStep == ASSUME IInv, NEW m, BuilderWrites(m) PROVE IInv' /\ Frame
<1>1. WritesTo(Owned(m))
  BY DEF BuilderWrites, WritesTo, Slot, Owned
<1>2. QED
  BY <1>1, WriteStep

LEMMA TickStep == IInv /\ (Tick \/ UNCHANGED vars) => IInv' /\ Frame
<1> SUFFICES ASSUME IInv, Tick \/ UNCHANGED vars PROVE IInv' /\ Frame
  OBVIOUS
<1>1. /\ contexts' = contexts /\ policies' = policies /\ granted' = granted
      /\ held' = held /\ heap' = heap
  BY DEF Tick, vars
<1>2. Frame
  BY <1>1 DEF Frame
<1>3. GrantedInv' /\ OwnersInv'
  BY <1>1 DEF IInv, GrantedInv, Vouched, OwnersInv
<1>4. QED
  BY <1>2, <1>3, FrameInv DEF IInv

-----------------------------------------------------------------------------
(* Deriving a context.                                                     *)

NewKey == DecisionKey(granted.word)
Source(i, k) == IF k = NewKey THEN granted ELSE contexts[i][k]
NewContext(i) ==
    [k \in Kept(i) \cup {NewKey} |-> Clone(Source(i, k), Slot(Len(contexts) + 1, k))]

\* What the new context keeps: each decision under its key, in a slot of its own.
LEMMA NewContextType ==
    ASSUME IInv, NEW i \in 1..Len(contexts), WithDecision(i)
    PROVE  /\ Len(contexts) + 1 \in 1..MaxContexts
           /\ Kept(i) \subseteq Keys /\ NewKey \in Keys
           /\ DOMAIN NewContext(i) = Kept(i) \cup {NewKey}
           /\ NewContext(i) \in ContextType
           /\ \A k \in DOMAIN NewContext(i) :
                /\ NewContext(i)[k].at = Slot(Len(contexts) + 1, k)
                /\ NewContext(i)[k].word = Source(i, k).word
                /\ NewContext(i)[k].allowed = Source(i, k).allowed
                /\ NewContext(i)[k].passed = Source(i, k).passed
                /\ Source(i, k).word.text = k
                /\ Vouched(heap, Source(i, k))
<1> DEFINE n == Len(contexts) + 1
<1>1. n \in 1..MaxContexts /\ Kept(i) \subseteq Keys /\ NewKey \in Keys
  <2>1. Len(contexts) \in Nat /\ n <= MaxContexts /\ granted \in DecisionType
    BY DEF IInv, ContextsInv, GrantedInv, WithDecision
  <2>2. Kept(i) \subseteq Keys
    BY KeptType DEF IInv, Kept
  <2>3. granted.word \in Words
    BY <2>1 DEF DecisionType
  <2>4. QED
    BY <2>1, <2>2, <2>3, DataAssumption DEF NewKey, DecisionKey, Keys
<1>2. ASSUME NEW k \in Kept(i) \cup {NewKey}
      PROVE  /\ Source(i, k) \in DecisionType
             /\ Source(i, k).word.text = k
             /\ Vouched(heap, Source(i, k))
  <2>1. CASE k = NewKey
    BY <2>1 DEF WithDecision, IInv, GrantedInv, NewKey, DecisionKey, Source
  <2>2. CASE k # NewKey
    BY <2>2, KeptType DEF IInv, ContextsInv, Kept, Source
  <2>3. QED
    BY <2>1, <2>2
<1>3. ASSUME NEW k \in Kept(i) \cup {NewKey}
      PROVE  /\ NewContext(i)[k] \in DecisionType
             /\ NewContext(i)[k].at = Slot(n, k)
             /\ NewContext(i)[k].word = Source(i, k).word
             /\ NewContext(i)[k].allowed = Source(i, k).allowed
             /\ NewContext(i)[k].passed = Source(i, k).passed
  <2>1. Slot(n, k) \in Addresses
    BY <1>1, KeptAddress
  <2>2. NewContext(i)[k] = [Source(i, k) EXCEPT !.at = Slot(n, k)]
    BY DEF NewContext, Clone
  <2>3. Source(i, k) \in DecisionType
    BY <1>2
  <2>4. QED
    BY <2>1, <2>2, <2>3 DEF DecisionType
<1>4. NewContext(i) \in [Kept(i) \cup {NewKey} -> DecisionType]
  BY <1>3 DEF NewContext
<1>5. NewContext(i) \in ContextType
  BY <1>1, <1>4 DEF ContextType
<1>6. QED
  BY <1>1, <1>2, <1>3, <1>4, <1>5

\* What was kept before is still there, and the new slots hold copies.
LEMMA WithDecisionHeap ==
    ASSUME IInv, NEW i \in 1..Len(contexts), WithDecision(i)
    PROVE  /\ contexts' = Append(contexts, NewContext(i))
           /\ DOMAIN heap' = Addresses
           /\ \A a \in Addresses : a.context # Len(contexts) + 1 => heap'[a] = heap[a]
           /\ \A k \in DOMAIN NewContext(i) :
                heap'[Slot(Len(contexts) + 1, k)] = heap[Source(i, k).at]
<1> DEFINE n == Len(contexts) + 1
<1>1. /\ contexts' = Append(contexts, NewContext(i))
      /\ heap' = [a \in Addresses |->
           IF a = Slot(n, NewKey) THEN heap[granted.at]
           ELSE IF \E k \in Kept(i) : a = Slot(n, k)
           THEN heap[contexts[i][a.key].at] ELSE heap[a]]
  BY DEF WithDecision, NewContext, NewKey, Source
<1>2. n \in 1..MaxContexts /\ Kept(i) \subseteq Keys /\ NewKey \in Keys
  BY NewContextType
<1>3. \A a \in Addresses : a.context # n => heap'[a] = heap[a]
  BY <1>1 DEF Slot
<1>4. heap'[Slot(n, NewKey)] = heap[granted.at]
  BY <1>1, <1>2, KeptAddress
<1>5. ASSUME NEW k \in DOMAIN NewContext(i)
      PROVE  heap'[Slot(n, k)] = heap[Source(i, k).at]
  <2>1. CASE k = NewKey
    BY <1>4, <2>1 DEF Source
  <2>2. CASE k # NewKey
    <3>1. k \in Kept(i)
      BY <2>2 DEF NewContext
    <3>2. /\ Slot(n, k) \in Addresses /\ Slot(n, k) # Slot(n, NewKey)
          /\ Slot(n, k).key = k
      BY <1>2, <2>2, <3>1, KeptAddress DEF Slot
    <3>3. QED
      BY <1>1, <2>2, <3>1, <3>2 DEF Source
  <2>3. QED
    BY <2>1, <2>2
<1>6. QED
  BY <1>1, <1>3, <1>5

LEMMA WithDecisionInv ==
    ASSUME IInv, NEW i \in 1..Len(contexts), WithDecision(i)
    PROVE  IInv'
<1> DEFINE n == Len(contexts) + 1
<1>0. \A k \in DOMAIN NewContext(i) :
        /\ NewContext(i)[k].at = Slot(n, k)
        /\ NewContext(i)[k].word = Source(i, k).word
        /\ NewContext(i)[k].allowed = Source(i, k).allowed
        /\ NewContext(i)[k].passed = Source(i, k).passed
        /\ Source(i, k).word.text = k
        /\ Vouched(heap, Source(i, k))
  BY NewContextType
<1>1. /\ n \in 1..MaxContexts /\ contexts \in Seq(ContextType)
      /\ NewContext(i) \in ContextType
      /\ contexts' = Append(contexts, NewContext(i))
  BY NewContextType, WithDecisionHeap DEF IInv, ContextsInv
<1>2. /\ contexts' \in Seq(ContextType) /\ Len(contexts') = n
      /\ contexts'[n] = NewContext(i)
      /\ \A j \in 1..Len(contexts) : contexts'[j] = contexts[j]
  BY <1>1
<1>3. ASSUME NEW j \in 1..Len(contexts), NEW k \in DOMAIN contexts[j]
      PROVE  Says(j, k)' = Says(j, k)
  <2>1. contexts[j][k].at = Slot(j, k) /\ Slot(j, k) \in Addresses
    BY KeptType, KeptAddress DEF IInv, ContextsInv
  <2>2. Slot(j, k).context # n
    BY DEF Slot
  <2>3. QED
    BY <1>2, <2>1, <2>2, WithDecisionHeap DEF Says
<1>4. ASSUME NEW k \in DOMAIN NewContext(i)
      PROVE  Vouched(heap', contexts'[n][k])
  <2>1. contexts'[n][k] = NewContext(i)[k] /\ contexts'[n][k].at = Slot(n, k)
    BY <1>0, <1>2
  <2>2. heap'[contexts'[n][k].at] = heap[Source(i, k).at]
    BY <2>1, WithDecisionHeap
  <2>3. Vouched(heap, Source(i, k))
    BY <1>0
  <2>4. /\ contexts'[n][k].word = Source(i, k).word
        /\ contexts'[n][k].allowed = Source(i, k).allowed
        /\ contexts'[n][k].passed = Source(i, k).passed
    BY <1>0, <2>1
  <2>5. QED
    BY <2>2, <2>3, <2>4 DEF Vouched
<1>5. ContextsInv'
  <2>1. ASSUME NEW j \in 1..Len(contexts'), NEW k \in DOMAIN contexts'[j]
        PROVE  /\ contexts'[j][k].at = Slot(j, k)
               /\ contexts'[j][k].word.text = k
               /\ Vouched(heap', contexts'[j][k])
    <3>1. CASE j = n
      <4>1. k \in DOMAIN NewContext(i) /\ contexts'[j] = NewContext(i)
        BY <1>2, <3>1
      <4>2. QED
        BY <1>0, <1>4, <3>1, <4>1
    <3>2. CASE j # n
      <4>1. j \in 1..Len(contexts) /\ contexts'[j] = contexts[j]
        BY <1>1, <1>2, <3>2
      <4>2. QED
        BY <1>3, <4>1 DEF IInv, ContextsInv, Vouched, Says
    <3>3. QED
      BY <3>1, <3>2
  <2>2. QED
    BY <1>1, <1>2, <2>1 DEF ContextsInv
<1>6. GrantedInv' /\ OwnersInv'
  <2>1. /\ UNCHANGED <<granted, held, policies>>
        /\ granted \in DecisionType /\ Vouched(heap, granted)
        /\ granted.at \in {Slot(0, Granted), Slot(0, Authorizer)}
    BY DEF WithDecision, IInv, GrantedInv
  <2>2. OwnersInv'
    BY <2>1, WithDecisionHeap DEF IInv, OwnersInv
  <2>3. heap'[granted.at] = heap[granted.at]
    <3>1. granted.at \in Addresses /\ granted.at.context # n
      BY <1>1, <2>1, OtherAddresses DEF Slot
    <3>2. QED
      BY <3>1, WithDecisionHeap
  <2>4. Vouched(heap', granted')
    BY <2>1, <2>3 DEF Vouched
  <2>5. GrantedInv'
    BY <2>1, <2>4 DEF IInv, GrantedInv
  <2>6. QED
    BY <2>2, <2>5
<1>7. QED
  BY <1>5, <1>6 DEF IInv

-----------------------------------------------------------------------------
(* All steps.                                                              *)

Derives == \E i \in 1..Len(contexts) : WithDecision(i)

LEMMA BorrowingSteps == IInv /\ [Next]_vars => Derives \/ (IInv' /\ Frame)
<1> SUFFICES ASSUME IInv, [Next]_vars PROVE Derives \/ (IInv' /\ Frame)
  OBVIOUS
<1>1. CASE \E a \in Answers : Make(a)
  BY <1>1, MakeStep
<1>2. CASE \E a \in Answers, request \in Words : Authorize(request, a)
  BY <1>2, AuthorizeStep
<1>3. CASE \E i \in 1..Len(contexts) : WithDecision(i) \/ \E w \in Words : Read(i, w)
  BY <1>3, ReadStep DEF Derives
<1>4. CASE \E method \in UNION {DOMAIN table : table \in PolicyTables} : Lookup(method)
  BY <1>4, LookupStep
<1>5. CASE \E m \in DOMAIN policies : BuilderWrites(m)
  BY <1>5, BuilderWritesStep
<1>6. CASE HolderWrites \/ ReaderWrites \/ AuthorizerWrites
  BY <1>6, HolderWritesStep, ReaderWritesStep, AuthorizerWritesStep
<1>7. CASE Tick \/ UNCHANGED vars
  BY <1>7, TickStep
<1>8. QED
  BY <1>1, <1>2, <1>3, <1>4, <1>5, <1>6, <1>7 DEF Next

LEMMA NextInv == IInv /\ [Next]_vars => IInv'
BY BorrowingSteps, WithDecisionInv DEF Derives

LEMMA InvHolds == Spec => []IInv
BY InitInv, NextInv, PTL DEF Spec

-----------------------------------------------------------------------------
(* The theorems.                                                           *)

\* A kept decision that Authorize let through is on a context as Validate has seen it,
\* under the action that was asked for: the copy that Authorize makes is enough, though
\* refused decisions and made-up ones are kept beside it (access/access.go).
THEOREM DecisionsAreSound == Spec => []KeptDecisionsAreSound
<1>1. IInv => KeptDecisionsAreSound
  BY DEF IInv, ContextsInv, KeptDecisionsAreSound, Vouched, Says
<1>2. QED
  BY <1>1, InvHolds, PTL

\* What contexts and registry say never changes, whoever writes to what they were given
\* or handed in: cloneDecision and the copies of the registry are enough.
THEOREM Immutable == Spec => KeptIsImmutable
<1>1. ASSUME IInv, [Next]_vars, NEW i \in 1..Len(contexts)
      PROVE  /\ contexts'[i] = contexts[i]
             /\ \A k \in DOMAIN contexts[i] : heap'[contexts[i][k].at] = Says(i, k)
  <2>1. \A k \in DOMAIN contexts[i] :
           /\ contexts[i][k].at = Slot(i, k)
           /\ k \in Keys /\ Slot(i, k) \in Addresses /\ Slot(i, k).context = i
    BY <1>1, KeptType, KeptAddress DEF IInv, ContextsInv, Slot
  <2>2. CASE Frame
    BY <1>1, <2>1, <2>2, KeptType DEF Frame, Says, IInv
  <2>3. CASE Derives
    <3>1. PICK j \in 1..Len(contexts) : WithDecision(j)
      BY <2>3 DEF Derives
    <3>2. /\ contexts' = Append(contexts, NewContext(j))
          /\ \A a \in Addresses : a.context # Len(contexts) + 1 => heap'[a] = heap[a]
      BY <1>1, <3>1, WithDecisionHeap
    <3>3. contexts'[i] = contexts[i]
      BY <1>1, <3>2 DEF IInv, ContextsInv
    <3>4. QED
      BY <1>1, <2>1, <3>2, <3>3 DEF Says
  <2>4. QED
    BY <1>1, <2>2, <2>3, BorrowingSteps
<1>2. ASSUME IInv, [Next]_vars, NEW m \in DOMAIN policies
      PROVE  heap'[policies[m]] = heap[policies[m]]
  <2>1. /\ policies[m] = Registered(m) /\ m \in Methods
        /\ Registered(m) \in Addresses /\ Registered(m).context = -2
    BY <1>2, OtherAddresses DEF IInv, OwnersInv, Registered, Slot
  <2>2. CASE Frame
    BY <2>1, <2>2 DEF Frame
  <2>3. CASE Derives
    <3>1. PICK j \in 1..Len(contexts) : WithDecision(j)
      BY <2>3 DEF Derives
    <3>2. \A a \in Addresses : a.context # Len(contexts) + 1 => heap'[a] = heap[a]
      BY <1>2, <3>1, WithDecisionHeap
    <3>3. -2 # Len(contexts) + 1
      BY <1>2 DEF IInv, ContextsInv
    <3>4. QED
      BY <2>1, <3>2, <3>3
  <2>4. QED
    BY <1>2, <2>2, <2>3, BorrowingSteps
<1>3. IInv /\ [Next]_vars =>
        [/\ \A i \in 1..Len(contexts) :
              /\ contexts'[i] = contexts[i]
              /\ \A k \in DOMAIN contexts[i] : heap'[contexts[i][k].at] = Says(i, k)
         /\ \A m \in DOMAIN policies : heap'[policies[m]] = heap[policies[m]]]_vars
  BY <1>1, <1>2
<1>4. QED
  BY <1>3, InvHolds, PTL DEF Spec, KeptIsImmutable

\* WithDataAccessDecision loses nothing of the parent's, but the decision that the new
\* one replaces, and copies the constraints with it.
THEOREM Inherited == Spec => EarlierDecisionsStay
<1>1. ASSUME IInv, NEW i \in 1..Len(contexts), WithDecision(i),
             NEW k \in DOMAIN contexts[i] \ {DecisionKey(granted.word)}
      PROVE  LET new == contexts'[Len(contexts')]
             IN  k \in DOMAIN new /\ heap'[new[k].at] = Says(i, k)
  <2>1. /\ contexts \in Seq(ContextType) /\ NewContext(i) \in ContextType
        /\ contexts' = Append(contexts, NewContext(i))
    BY <1>1, NewContextType, WithDecisionHeap DEF IInv, ContextsInv
  <2>2. contexts'[Len(contexts')] = NewContext(i)
    BY <2>1
  <2>3. k \in Kept(i) \ {NewKey}
    BY DEF Kept, NewKey
  <2>4. k \in DOMAIN NewContext(i) /\ NewContext(i)[k].at = Slot(Len(contexts) + 1, k)
    BY <1>1, <2>3, NewContextType
  <2>5. heap'[Slot(Len(contexts) + 1, k)] = Says(i, k)
    BY <1>1, <2>3, <2>4, WithDecisionHeap DEF Says, Source
  <2>6. QED
    BY <2>2, <2>4, <2>5
<1>2. IInv =>
        [\A i \in 1..Len(contexts) : WithDecision(i) =>
           \A k \in DOMAIN contexts[i] \ {DecisionKey(granted.word)} :
              LET new == contexts'[Len(contexts')]
              IN  k \in DOMAIN new /\ heap'[new[k].at] = Says(i, k)]_vars
  BY <1>1
<1>3. QED
  BY <1>2, InvHolds, PTL DEF EarlierDecisionsStay
=============================================================================
