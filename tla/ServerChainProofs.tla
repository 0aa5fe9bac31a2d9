-------------------------- MODULE ServerChainProofs --------------------------
(***************************************************************************)
(* Theorems about ServerChain.  For any policies, messages and decisions,  *)
(* and whatever interceptors there are, an explicit request scope is       *)
(* served whole and authorised or not at all.  For errors of any size, any *)
(* number of services, and any codes, catalogs, options and mappings, what *)
(* callers and logs see of an error is what it was when it was made.       *)
(*                                                                         *)
(* ScopeInv is about the request scope; OutcomeInv, WordsInv and LogInv    *)
(* are about the error, its text and the access log.  The lemmas about     *)
(* lists, trees of errors and options are about ErrorTree alone.           *)
(***************************************************************************)
EXTENDS ServerChain, SequenceTheorems, WellFoundedInduction, TLAPS

-----------------------------------------------------------------------------
(* The invariant of the request scope.                                     *)

\* While the authorizer is asked, requested is what the message holds in the allowed
\* dimensions, and outside of a handler no context has a scope.
AskingInv ==
    phase = "asking" =>
        /\ service \in Services
        /\ call.method \in Methods
        /\ Scoped(service, call.method)
        /\ requested = Extract(call.message, Policy(service, call.method))
        /\ requested \in [Dims -> Values]

ScopeInv ==
    /\ AskingInv
    /\ phase # "serving" => scope = NoScope
    /\ NeverFallsBack

\* A method with a scope has one of the policies.
LEMMA PolicyType ==
    ASSUME NEW s \in Services, NEW m, Scoped(s, m)
    PROVE  Policy(s, m) \in Policies /\ Policy(s, m).allowed \subseteq Dims
<1>1. m \in DOMAIN s.table /\ Policy(s, m) = s.table[m]
  BY DEF Scoped, Policy
<1>2. s.table \in Registries
  BY DEF Services
<1>3. QED
  BY <1>1, <1>2, ScopeAssumption DEF Policies

LEMMA ExtractType ==
    ASSUME NEW message \in Messages, NEW policy
    PROVE  Extract(message, policy) \in [Dims -> Values]
<1>1. "" \in Values
  BY DEF Values
<1>2. ASSUME NEW d \in Dims PROVE message[d] \in Values
  <2>1. message[d] \in {message[x] : x \in Dims}
    BY <1>2
  <2>2. {message[x] : x \in Dims} \in {{m[x] : x \in Dims} : m \in Messages}
    OBVIOUS
  <2>3. QED
    BY <2>1, <2>2 DEF Values
<1>3. QED
  BY <1>1, <1>2 DEF Extract

\* What a message holds in an allowed dimension is what is extracted from it.
LEMMA ExtractKeeps ==
    ASSUME NEW message, NEW policy, NEW d \in Dims, d \in policy.allowed,
           message[d] \notin {"absent", ""}
    PROVE  Extract(message, policy)[d] = message[d]
BY DEF Extract

LEMMA InitInv == Init => ScopeInv
BY DEF Init, ScopeInit, ScopeInv, AskingInv, NeverFallsBack

-----------------------------------------------------------------------------
(* Steps of the request scope.                                             *)

LEMMA PassThroughInv ==
    ASSUME ScopeInv, NEW s \in Services, NEW m \in Methods, NEW message \in Messages,
           PassThrough(s, m, message)
    PROVE  ScopeInv' /\ scope' = NoScope
<1>1. phase' = "serving" /\ scope' = NoScope
  BY DEF ScopeInv, PassThrough, Begin
<1>2. ~Scoped(service', call'.method)
  BY DEF PassThrough, Begin
<1>3. QED
  BY <1>1, <1>2 DEF ScopeInv, AskingInv, NeverFallsBack, Scoped, Policy

LEMMA NotReadableInv ==
    ASSUME ScopeInv, NEW s \in Services, NEW m \in Methods, NEW message \in Messages,
           NotReadable(s, m, message)
    PROVE  ScopeInv' /\ phase' # "serving"
<1>1. phase' = "failed" /\ scope' = NoScope
  BY DEF ScopeInv, NotReadable, Begin, Refuse, Fail
<1>2. QED
  BY <1>1 DEF ScopeInv, AskingInv, NeverFallsBack

LEMMA ServeDefaultInv ==
    ASSUME ScopeInv, NEW s \in Services, NEW m \in Methods, NEW message \in Messages,
           ServeDefault(s, m, message)
    PROVE  ScopeInv' /\ ~Explicit(scope'.requested)
<1> DEFINE policy == Policy(s, m)
<1>1. /\ phase' = "serving" /\ service' = s
      /\ call' = [method |-> m, message |-> message]
      /\ scope'.requested = NothingRequested
  BY DEF ServeDefault, Begin
<1>2. policy.allowed \subseteq Dims
  BY PolicyType DEF ServeDefault, Readable
<1>3. \A d \in policy.allowed : message[d] \in {"absent", ""}
  <2> SUFFICES ASSUME NEW d \in policy.allowed, message[d] \notin {"absent", ""}
               PROVE  FALSE
    OBVIOUS
  <2>1. d \in Dims
    BY <1>2
  <2>2. Extract(message, policy)[d] # ""
    BY <2>1, ExtractKeeps
  <2>3. Extract(message, policy) = NothingRequested
    BY DEF ServeDefault, Explicit
  <2>4. QED
    BY <2>1, <2>2, <2>3 DEF NothingRequested
<1>4. NeverFallsBack'
  BY <1>1, <1>3 DEF NeverFallsBack, Policy
<1>5. QED
  BY <1>1, <1>4 DEF ScopeInv, AskingInv, Explicit

LEMMA AskInv ==
    ASSUME ScopeInv, NEW s \in Services, NEW m \in Methods, NEW message \in Messages,
           Ask(s, m, message)
    PROVE  ScopeInv' /\ phase' # "serving"
<1>1. /\ service' = s /\ call' = [method |-> m, message |-> message]
      /\ Scoped(s, m) /\ scope' = NoScope
      /\ \/ phase' = "asking" /\ requested' = Extract(message, Policy(s, m))
         \/ phase' = "failed"
  BY DEF ScopeInv, Ask, Begin, Readable, Refuse, Fail
<1>2. AskingInv'
  BY <1>1, ExtractType DEF AskingInv, Scoped, Policy
<1>3. QED
  BY <1>1, <1>2 DEF ScopeInv, NeverFallsBack

LEMMA TickInv == ScopeInv /\ Tick => ScopeInv' /\ phase' # "serving"
BY DEF ScopeInv, AskingInv, NeverFallsBack, Tick, Scoped, Policy, Extract

\* An answer that leads to the handler covers what was asked, is in time, and the
\* handler's scope is what was asked.
LEMMA AnswerServes ==
    ASSUME ScopeInv, NEW decision \in Decisions, Answer(decision), phase' = "serving"
    PROVE  /\ decision.allowed /\ InTime(decision) /\ Covers(decision, requested)
           /\ scope' = [method |-> call.method, policy |-> Policy(service, call.method),
                        requested |-> requested, decision |-> decision]
BY DEF Answer, Refuse, Fail

LEMMA AnswerInv ==
    ASSUME ScopeInv, NEW decision \in Decisions, Answer(decision)
    PROVE  ScopeInv'
<1> DEFINE policy == Policy(service, call.method)
<1>1. AskingInv /\ phase = "asking" /\ scope = NoScope
  BY DEF ScopeInv, Answer
<1>2. CASE phase' # "serving"
  <2>1. phase' = "failed" /\ scope' = NoScope
    BY <1>1, <1>2 DEF Answer, Refuse, Fail
  <2>2. QED
    BY <2>1 DEF ScopeInv, AskingInv, NeverFallsBack
<1>3. CASE phase' = "serving"
  <2>1. scope' = [method |-> call.method, policy |-> policy, requested |-> requested,
                  decision |-> decision]
    BY <1>3, AnswerServes
  <2>2. policy \in Policies /\ policy.allowed \subseteq Dims
    BY <1>1, PolicyType DEF AskingInv
  <2>3. scope' # NoScope
    BY <1>1, <2>1, <2>2, ScopeAssumption DEF AskingInv, ScopeContexts
  <2>4. service' = service /\ call' = call
    BY DEF Answer
  <2>5. \A d \in policy.allowed : call.message[d] \notin {"absent", ""} =>
           requested[d] = call.message[d]
    <3>1. requested = Extract(call.message, policy)
      BY <1>1 DEF AskingInv
    <3>2. \A d \in policy.allowed : call.message[d] \notin {"absent", ""} =>
             Extract(call.message, policy)[d] = call.message[d]
      BY <2>2, ExtractKeeps
    <3>3. QED
      BY <3>1, <3>2
  <2>6. NeverFallsBack'
    BY <2>1, <2>3, <2>4, <2>5 DEF NeverFallsBack, Policy
  <2>7. QED
    BY <1>3, <2>6 DEF ScopeInv, AskingInv
<1>4. QED
  BY <1>2, <1>3

LEMMA AnswerFailsInv ==
    ASSUME ScopeInv, NEW e, AnswerFails(e)
    PROVE  ScopeInv' /\ phase' # "serving"
BY DEF ScopeInv, AskingInv, NeverFallsBack, AnswerFails, Fail

LEMMA ScopeNextInv == ScopeInv /\ ScopeNext => ScopeInv'
<1> SUFFICES ASSUME ScopeInv, ScopeNext PROVE ScopeInv'
  OBVIOUS
<1>1. CASE \E s \in Services, m \in Methods, message \in Messages :
             \/ PassThrough(s, m, message) \/ NotReadable(s, m, message)
             \/ ServeDefault(s, m, message) \/ Ask(s, m, message)
  BY <1>1, PassThroughInv, NotReadableInv, ServeDefaultInv, AskInv
<1>2. CASE Tick
  BY <1>2, TickInv
<1>3. CASE \E decision \in Decisions : Answer(decision)
  BY <1>3, AnswerInv
<1>4. CASE \E e \in AuthorizerErrors : AnswerFails(e)
  BY <1>4, AnswerFailsInv
<1>5. QED
  BY <1>1, <1>2, <1>3, <1>4 DEF ScopeNext

-----------------------------------------------------------------------------
(* Steps of the handler and of the way out.                                *)

\* A handler that is at work has no scope of the interceptor any more, and on the way
\* out nobody makes one.
Quiet ==
    /\ phase \notin {"idle", "asking", "serving"}
    /\ phase' \notin {"asking", "serving"}
    /\ scope' = scope

LEMMA QuietInv == ScopeInv /\ Quiet => ScopeInv'
BY DEF ScopeInv, AskingInv, NeverFallsBack, Quiet

LEMMA RaisesQuiet == ASSUME NEW e, NEW c, Raises(e, c) PROVE Quiet
BY DEF Raises, Room, Quiet

LEMMA WrapsQuiet == ASSUME NEW e, NEW c, NEW message, Wraps(e, c, message) PROVE Quiet
BY DEF Wraps, Room, Quiet

LEMMA HandlerQuiet == HandlerNext => Quiet
<1>1. ASSUME NEW type, RaisePlain(type) PROVE Quiet
  BY <1>1, RaisesQuiet DEF RaisePlain
<1>2. ASSUME NEW code, NEW info, RaiseStatus(code, info) PROVE Quiet
  BY <1>2, RaisesQuiet DEF RaiseStatus
<1>3. ASSUME NEW code, NEW opts, RaiseNew(code, opts) PROVE Quiet
  BY <1>3, RaisesQuiet DEF RaiseNew
<1>4. ASSUME NEW code, NEW opts, NEW message, WrapNew(code, opts, message) PROVE Quiet
  BY <1>4, WrapsQuiet DEF WrapNew
<1>5. ASSUME NEW d, NEW opts, RaiseDefined(d, opts) PROVE Quiet
  BY <1>5, RaisesQuiet DEF RaiseDefined
<1>6. ASSUME NEW d, NEW opts, WrapDefined(d, opts) PROVE Quiet
  BY <1>6, WrapsQuiet DEF WrapDefined
<1>7. RaiseNil => Quiet
  BY RaisesQuiet DEF RaiseNil
<1>8. Annotate => Quiet
  BY DEF Annotate, Room, Quiet
<1>9. QED
  BY <1>1, <1>2, <1>3, <1>4, <1>5, <1>6, <1>7, <1>8 DEF HandlerNext

LEMMA WayOutQuiet ==
    (\/ \E o \in Orders : Return(o) \/ Refused(o)
     \/ ErrorToStatus \/ AccessLogger \/ RequestScopeReturns
     \/ Answered \/ CallerHandles)
    => Quiet
BY DEF Return, Refused, ErrorToStatus, AccessLogger, RequestScopeReturns, Answered,
       CallerHandles, Passing, Quiet

LEMMA HandleInv == ScopeInv /\ Handle => ScopeInv'
BY DEF ScopeInv, AskingInv, NeverFallsBack, Handle

LEMMA EndsInv == ScopeInv /\ Ends => ScopeInv'
BY DEF ScopeInv, AskingInv, NeverFallsBack, Ends

LEMMA StutterInv == ScopeInv /\ UNCHANGED vars => ScopeInv'
BY DEF ScopeInv, AskingInv, NeverFallsBack, Scoped, Policy, Extract, vars, scopeVars

LEMMA NextInv == ScopeInv /\ [Next]_vars => ScopeInv'
BY ScopeNextInv, HandleInv, HandlerQuiet, WayOutQuiet, QuietInv, EndsInv, StutterInv
   DEF Next

LEMMA InvHolds == Spec => []ScopeInv
BY InitInv, NextInv, PTL DEF Spec

-----------------------------------------------------------------------------
(* The theorems about the request scope.                                   *)

\* What a caller names in a dimension that the method's policy allows is what the
\* handler works on, never the default in its place, whatever the authorizer does
\* (middleware/grpc/request_scope.go).
THEOREM NeverFallsBackHolds == Spec => []NeverFallsBack
<1>1. ScopeInv => NeverFallsBack
  BY DEF ScopeInv
<1>2. QED
  BY <1>1, InvHolds, PTL

\* Only the authorizer's answer leads from a named scope to the handler.
LEMMA ServingSteps ==
    ASSUME ScopeInv, Next, phase # "serving", phase' = "serving", scope' # NoScope,
           Explicit(scope'.requested)
    PROVE  \E decision \in Decisions : Answer(decision)
<1>1. ScopeNext
  BY HandlerQuiet, WayOutQuiet DEF Next, Handle, Ends, Quiet
<1>2. QED
  BY <1>1, PassThroughInv, NotReadableInv, ServeDefaultInv, AskInv, TickInv,
     AnswerFailsInv DEF ScopeNext

\* A handler starts on a named scope only with a decision that was allowed, has not
\* expired while the authorizer took its time, and covers every dimension that was named
\* (service/request_scope.go).
THEOREM StartsAuthorizedHolds == Spec => StartsAuthorized
<1>1. ASSUME ScopeInv, Next, phase # "serving", phase' = "serving", scope' # NoScope,
             Explicit(scope'.requested)
      PROVE  /\ scope'.decision # NoDecision
             /\ scope'.decision.allowed
             /\ scope'.decision.expiresAt # 0 => now < scope'.decision.expiresAt
             /\ \A d \in Dims : scope'.requested[d] # "" =>
                  scope'.decision.all[d] \/ scope'.requested[d] \in scope'.decision.ids[d]
  <2>1. PICK decision \in Decisions : Answer(decision)
    BY <1>1, ServingSteps
  <2>2. /\ decision.allowed /\ InTime(decision) /\ Covers(decision, requested)
        /\ scope'.requested = requested /\ scope'.decision = decision
    BY <1>1, <2>1, AnswerServes
  <2>3. decision # NoDecision
    BY ScopeAssumption
  <2>4. QED
    BY <2>2, <2>3 DEF InTime, Covers, Present
<1>2. ScopeInv /\ [Next]_vars =>
        [phase # "serving" /\ phase' = "serving" /\ scope' # NoScope
           /\ Explicit(scope'.requested) =>
           /\ scope'.decision # NoDecision
           /\ scope'.decision.allowed
           /\ scope'.decision.expiresAt # 0 => now < scope'.decision.expiresAt
           /\ \A d \in Dims : scope'.requested[d] # "" =>
                scope'.decision.all[d] \/ scope'.requested[d] \in scope'.decision.ids[d]
        ]_scopeVars
  BY <1>1 DEF vars
<1>3. QED
  BY <1>2, InvHolds, PTL DEF Spec, StartsAuthorized

-----------------------------------------------------------------------------
(* Lists, and the first and last of their elements with a property.        *)

LEMMA ListIsSeq ==
    ASSUME NEW s, IsList(s)
    PROVE  Len(s) \in Nat /\ DOMAIN s = 1..Len(s)
BY DEF IsList

LEMMA SeqIsList ==
    ASSUME NEW S, NEW s \in Seq(S)
    PROVE  IsList(s)
<1>1. Len(s) \in Nat /\ DOMAIN s = 1..Len(s) /\ s = [i \in 1..Len(s) |-> s[i]]
  OBVIOUS
<1>2. \A i \in 1..Len(s) : s[i] \in {s[j] : j \in DOMAIN s}
  BY <1>1
<1>3. QED
  BY <1>1, <1>2 DEF IsList

\* A set of numbers has a least one, and a set of places of a list a last one.
LEMMA LeastNumber ==
    ASSUME NEW T, T \subseteq Nat, T # {}
    PROVE  \E b \in T : \A c \in T : b <= c
<1>1. PICK b \in T : \A c \in T : ~(<<c, b>> \in OpToRel(<, Nat))
  BY WFMin, NatLessThanWellFounded, Zenon
<1>2. \A c \in T : ~(c < b)
  BY <1>1, Zenon DEF OpToRel
<1>3. QED
  BY <1>2

LEMMA LastPlace ==
    ASSUME NEW n \in Nat, NEW T, T \subseteq 1..n, T # {}
    PROVE  \E b \in T : \A c \in T : c <= b
<1> DEFINE back == {n - i : i \in T}
<1>1. back \subseteq Nat /\ back # {}
  <2>1. \A i \in T : i \in 1..n
    OBVIOUS
  <2>2. \A i \in 1..n : n - i \in Nat
    OBVIOUS
  <2>3. QED
    BY <2>1, <2>2
<1>2. PICK b \in back : \A c \in back : b <= c
  BY <1>1, LeastNumber
<1>3. PICK m \in T : b = n - m
  BY <1>2
<1>4. ASSUME NEW j \in T PROVE j <= m
  <2>1. n - m <= n - j
    BY <1>2, <1>3
  <2>2. m \in 1..n /\ j \in 1..n
    OBVIOUS
  <2>3. QED
    BY <2>1, <2>2
<1>5. QED
  BY <1>4

LEMMA EmptyList ==
    ASSUME NEW s, IsList(s)
    PROVE  Len(s) \in Nat /\ (s = Nil <=> Len(s) = 0)
BY DEF IsList, Nil

LEMMA ConcatenatedPlaces ==
    ASSUME NEW a, IsList(a), NEW b, IsList(b)
    PROVE  LET f == a \o b
           IN  /\ IsList(f) /\ Len(f) = Len(a) + Len(b)
               /\ \A i \in 1..Len(a) : i \in 1..Len(f) /\ f[i] = a[i]
               /\ \A i \in 1..Len(b) : Len(a) + i \in 1..Len(f) /\ f[Len(a) + i] = b[i]
               /\ \A i \in 1..Len(f) :
                    i \in 1..Len(a) \/ \E j \in 1..Len(b) : i = Len(a) + j
<1> DEFINE f == a \o b
           S == {a[i] : i \in DOMAIN a} \cup {b[i] : i \in DOMAIN b}
<1>1. a \in Seq(S) /\ b \in Seq(S)
  <2>1. \A i \in 1..Len(a) : a[i] \in S
    BY ListIsSeq
  <2>2. \A i \in 1..Len(b) : b[i] \in S
    BY ListIsSeq
  <2>3. a = [i \in 1..Len(a) |-> a[i]] /\ b = [i \in 1..Len(b) |-> b[i]]
    BY DEF IsList
  <2> HIDE DEF S
  <2>4. QED
    BY <2>1, <2>2, <2>3, ListIsSeq
<1> HIDE DEF S
<1>2. f \in Seq(S) /\ Len(f) = Len(a) + Len(b)
  BY <1>1, ConcatProperties
<1>3. \A i \in 1..Len(a) : i \in 1..Len(f) /\ f[i] = a[i]
  BY <1>1, <1>2, ConcatProperties
<1>4. \A i \in 1..Len(b) : Len(a) + i \in 1..Len(f) /\ f[Len(a) + i] = b[i]
  BY <1>1, <1>2, ConcatProperties
<1>5. \A i \in 1..Len(f) : i \in 1..Len(a) \/ \E j \in 1..Len(b) : i = Len(a) + j
  <2> TAKE i \in 1..Len(f)
  <2>1. CASE i <= Len(a)
    BY <1>1, <2>1
  <2>2. CASE ~(i <= Len(a))
    <3>1. i - Len(a) \in 1..Len(b) /\ i = Len(a) + (i - Len(a))
      BY <1>1, <1>2, <2>2
    <3>2. QED
      BY <3>1
  <2>3. QED
    BY <2>1, <2>2
<1>6. IsList(f)
  BY <1>2, SeqIsList
<1>7. QED
  BY <1>2, <1>3, <1>4, <1>5, <1>6

-----------------------------------------------------------------------------
(* Trees of errors.                                                        *)

FirstNode(e, types) == e[First(e, types)]

LEMMA FirstExists ==
    ASSUME NEW e, IsList(e), NEW types, Holds(e, types)
    PROVE  /\ First(e, types) \in DOMAIN e
           /\ e[First(e, types)].type \in types
           /\ \A j \in DOMAIN e : e[j].type \in types => First(e, types) <= j
<1> DEFINE at == {i \in DOMAIN e : e[i].type \in types}
<1>1. at \subseteq Nat /\ at # {}
  BY ListIsSeq DEF Holds
<1>2. \E i \in at : \A j \in at : i <= j
  BY <1>1, LeastNumber
<1>3. QED
  BY <1>2 DEF First

LEMMA FirstIs ==
    ASSUME NEW e, IsList(e), NEW types, NEW i \in DOMAIN e, e[i].type \in types,
           \A j \in DOMAIN e : e[j].type \in types => i <= j
    PROVE  Holds(e, types) /\ First(e, types) = i
<1>1. Holds(e, types)
  BY DEF Holds
<1>2. First(e, types) <= i /\ i <= First(e, types) /\ First(e, types) \in DOMAIN e
  BY <1>1, FirstExists
<1>3. QED
  BY <1>1, <1>2, ListIsSeq

\* Pre-order: what is first in the left part is first.
Chained(a, b, f) ==
    /\ IsList(f)
    /\ f # Nil <=> a # Nil \/ b # Nil
    /\ a # Nil => f[1] = a[1]
    /\ \A types :
         /\ Holds(f, types) <=> Holds(a, types) \/ Holds(b, types)
         /\ Holds(a, types) => FirstNode(f, types) = FirstNode(a, types)
         /\ ~Holds(a, types) /\ Holds(b, types) =>
              FirstNode(f, types) = FirstNode(b, types)

LEMMA Concatenated ==
    ASSUME NEW a, IsList(a), NEW b, IsList(b)
    PROVE  Chained(a, b, a \o b)
<1> DEFINE f == a \o b
<1>2. IsList(f) /\ Len(f) = Len(a) + Len(b)
  BY ConcatenatedPlaces
<1>3. \A i \in 1..Len(a) : i \in 1..Len(f) /\ f[i] = a[i]
  BY ConcatenatedPlaces
<1>4. \A i \in 1..Len(b) : Len(a) + i \in 1..Len(f) /\ f[Len(a) + i] = b[i]
  BY ConcatenatedPlaces
<1>5. \A i \in 1..Len(f) : i \in 1..Len(a) \/ \E j \in 1..Len(b) : i = Len(a) + j
  BY ConcatenatedPlaces
<1>6. IsList(f)
  BY <1>2
<1>7. /\ DOMAIN a = 1..Len(a) /\ DOMAIN b = 1..Len(b) /\ DOMAIN f = 1..Len(f)
      /\ Len(a) \in Nat /\ Len(b) \in Nat
  BY <1>6, ListIsSeq
<1> HIDE DEF f
<1>8. ASSUME NEW types, Holds(a, types)
      PROVE  Holds(f, types) /\ FirstNode(f, types) = FirstNode(a, types)
  <2> DEFINE k == First(a, types)
  <2>1. /\ k \in 1..Len(a) /\ a[k].type \in types
        /\ \A j \in 1..Len(a) : a[j].type \in types => k <= j
    BY <1>7, <1>8, FirstExists
  <2> HIDE DEF k
  <2>2. k \in DOMAIN f /\ f[k].type \in types
    BY <1>3, <1>7, <2>1
  <2>3. \A j \in DOMAIN f : f[j].type \in types => k <= j
    BY <1>3, <1>4, <1>5, <1>7, <2>1
  <2>4. Holds(f, types) /\ First(f, types) = k
    BY <1>6, <2>2, <2>3, FirstIs
  <2>5. QED
    BY <1>3, <2>1, <2>4 DEF FirstNode, k
<1>9. ASSUME NEW types, ~Holds(a, types), Holds(b, types)
      PROVE  Holds(f, types) /\ FirstNode(f, types) = FirstNode(b, types)
  <2> DEFINE k == First(b, types)
             m == Len(a) + k
  <2>1. /\ k \in 1..Len(b) /\ b[k].type \in types
        /\ \A j \in 1..Len(b) : b[j].type \in types => k <= j
    BY <1>7, <1>9, FirstExists
  <2> HIDE DEF k
  <2>2. m \in DOMAIN f /\ f[m] = b[k]
    BY <1>4, <1>7, <2>1
  <2>3. \A j \in 1..Len(a) : f[j].type \notin types
    BY <1>3, <1>7, <1>9 DEF Holds
  <2>4. ASSUME NEW j \in DOMAIN f, f[j].type \in types PROVE m <= j
    <3>1. PICK l \in 1..Len(b) : j = Len(a) + l
      BY <1>5, <1>7, <2>3, <2>4
    <3>2. k <= l
      BY <1>4, <2>1, <2>4, <3>1
    <3>3. QED
      BY <1>7, <2>1, <3>1, <3>2
  <2>5. Holds(f, types) /\ First(f, types) = m
    BY <1>6, <2>1, <2>2, <2>4, FirstIs
  <2>6. QED
    BY <2>2, <2>5 DEF FirstNode, k
<1>10. ASSUME NEW types, Holds(f, types) PROVE Holds(a, types) \/ Holds(b, types)
  <2>1. PICK i \in 1..Len(f) : f[i].type \in types
    BY <1>7, <1>10 DEF Holds
  <2>2. CASE i \in 1..Len(a)
    BY <1>3, <1>7, <2>1, <2>2 DEF Holds
  <2>3. ASSUME NEW j \in 1..Len(b), i = Len(a) + j PROVE Holds(b, types)
    BY <1>4, <1>7, <2>1, <2>3 DEF Holds
  <2>4. QED
    BY <1>5, <2>2, <2>3
<1>11. f # Nil <=> a # Nil \/ b # Nil
  BY <1>2, EmptyList
<1>12. a # Nil => f[1] = a[1]
  BY <1>3, <1>7, EmptyList
<1>13. QED
  BY <1>6, <1>8, <1>9, <1>10, <1>11, <1>12 DEF Chained, f

\* An error, and what its first node with a status says of it.
Classified(e, c) ==
    /\ IsList(e) /\ e # Nil
    /\ c = NoClaim <=> ~HasStatus(e)
    /\ c # NoClaim => StatusNode(e).code = c.code /\ StatusNode(e).info = c.info

LEMMA SingleNode ==
    ASSUME NEW n
    PROVE  /\ IsList(<<n>>) /\ <<n>> # Nil /\ Text(<<n>>) = n.text
           /\ \A types : Holds(<<n>>, types) <=> n.type \in types
           /\ \A types : n.type \in types => FirstNode(<<n>>, types) = n
<1> DEFINE e == <<n>>
<1>1. e \in Seq({n}) /\ Len(e) = 1 /\ e[1] = n /\ DOMAIN e = {1}
  OBVIOUS
<1>2. IsList(e)
  BY <1>1, SeqIsList
<1>3. e # Nil
  BY <1>1 DEF Nil
<1> HIDE DEF e
<1>4. \A types : Holds(e, types) <=> n.type \in types
  BY <1>1 DEF Holds
<1>5. ASSUME NEW types, n.type \in types PROVE FirstNode(e, types) = n
  BY <1>1, <1>2, <1>5, FirstIs DEF FirstNode
<1>6. Text(e) = n.text
  BY <1>1, <1>3 DEF Text
<1>7. QED
  BY <1>2, <1>3, <1>4, <1>5, <1>6 DEF e

LEMMA ClaimIsOne ==
    ASSUME NEW code, NEW info, NEW def
    PROVE  /\ Claims(code, info, def) # NoClaim
           /\ Claims(code, info, def).code = code /\ Claims(code, info, def).info = info
           /\ Claims(code, info, def).def = def
BY DEF Claims, NoClaim

\* Something around an error: a node without a status, or with one.
LEMMA NodeOver ==
    ASSUME NEW n, NEW e, IsList(e)
    PROVE  LET f == <<n>> \o e
           IN  /\ IsList(f) /\ f # Nil /\ Text(f) = n.text
               /\ n.type \in StatusTypes => HasStatus(f) /\ StatusNode(f) = n
               /\ n.type \notin StatusTypes =>
                    /\ HasStatus(f) <=> HasStatus(e)
                    /\ HasStatus(e) => StatusNode(f) = StatusNode(e)
<1> DEFINE a == <<n>>
           f == a \o e
<1>1. /\ IsList(a) /\ a # Nil /\ a[1] = n
      /\ \A types : Holds(a, types) <=> n.type \in types
      /\ \A types : n.type \in types => FirstNode(a, types) = n
  BY SingleNode
<1> HIDE DEF a
<1>2. Chained(a, e, f)
  BY <1>1, Concatenated
<1> HIDE DEF f
<1>3. IsList(f) /\ f # Nil /\ Text(f) = n.text
  BY <1>1, <1>2 DEF Chained, Text
<1>4. n.type \in StatusTypes => HasStatus(f) /\ StatusNode(f) = n
  BY <1>1, <1>2 DEF Chained, HasStatus, StatusNode, FirstNode
<1>5. n.type \notin StatusTypes =>
        /\ HasStatus(f) <=> HasStatus(e)
        /\ HasStatus(e) => StatusNode(f) = StatusNode(e)
  BY <1>1, <1>2 DEF Chained, HasStatus, StatusNode, FirstNode
<1>6. QED
  BY <1>3, <1>4, <1>5 DEF a, f

LEMMA NodeIs ==
    ASSUME NEW type, NEW code, NEW info, NEW text
    PROVE  /\ Node(type, code, info, text).type = type
           /\ Node(type, code, info, text).code = code
           /\ Node(type, code, info, text).info = info
           /\ Node(type, code, info, text).text = text
BY DEF Node

LEMMA PlainClassified ==
    ASSUME NEW type, type \notin StatusTypes, NEW text
    PROVE  Classified(Leaf(type, text), NoClaim) /\ Text(Leaf(type, text)) = text
<1> DEFINE n == Node(type, "none", NoInfo, text)
<1>1. n.type = type /\ n.text = text
  BY NodeIs
<1> HIDE DEF n
<1>2. QED
  BY <1>1, SingleNode DEF Classified, Leaf, HasStatus, n

LEMMA StatusClassified ==
    ASSUME NEW code, code # "OK", NEW info, NEW text, NEW def
    PROVE  /\ Classified(Status(code, info, text), Claims(code, info, def))
           /\ Text(Status(code, info, text)) = text
<1> DEFINE n == Node("status", code, info, text)
<1>1. n.type \in StatusTypes /\ n.text = text /\ n.code = code /\ n.info = info
  BY DEF Node, StatusTypes
<1>2. Status(code, info, text) = <<n>>
  BY DEF Status
<1> HIDE DEF n
<1>3. QED
  BY <1>1, <1>2, SingleNode, ClaimIsOne DEF Classified, HasStatus, StatusNode, FirstNode

LEMMA NilErrorClassified ==
    Classified(NilError, Claims("OK", NoInfo, {})) /\ Text(NilError) = {}
<1> DEFINE n == Node("nil werror", "OK", NoInfo, {})
<1>1. n.type \in StatusTypes /\ n.text = {} /\ n.code = "OK" /\ n.info = NoInfo
  BY DEF Node, StatusTypes
<1>2. NilError = <<n>>
  BY DEF NilError
<1> HIDE DEF n
<1>3. QED
  BY <1>1, <1>2, SingleNode, ClaimIsOne DEF Classified, HasStatus, StatusNode, FirstNode

\* Joined errors: the first one that is classified decides.
LEMMA JoinedClassified ==
    ASSUME NEW a, NEW c, Classified(a, c), NEW b, NEW d, Classified(b, d)
    PROVE  /\ Classified(Joined(a, b), IF c = NoClaim THEN d ELSE c)
           /\ Text(Joined(a, b)) = Text(a) \cup Text(b)
<1> DEFINE n == Node("join", "none", NoInfo, Text(a) \cup Text(b))
           left == <<n>> \o a
           f == left \o b
<1>1. n.type \notin StatusTypes /\ n.text = Text(a) \cup Text(b)
  BY DEF Node, StatusTypes
<1> HIDE DEF n
<1>2. IsList(a) /\ IsList(b)
  BY DEF Classified
<1>3. /\ IsList(left) /\ left # Nil /\ Text(left) = n.text
      /\ HasStatus(left) <=> HasStatus(a)
      /\ HasStatus(a) => StatusNode(left) = StatusNode(a)
  BY <1>1, <1>2, NodeOver
<1> HIDE DEF left
<1>4. Chained(left, b, f)
  BY <1>2, <1>3, Concatenated
<1> HIDE DEF f
<1>5. IsList(f) /\ f # Nil /\ Text(f) = Text(a) \cup Text(b)
  BY <1>1, <1>3, <1>4 DEF Chained, Text
<1>6. /\ HasStatus(f) <=> HasStatus(a) \/ HasStatus(b)
      /\ HasStatus(a) => StatusNode(f) = StatusNode(a)
      /\ ~HasStatus(a) /\ HasStatus(b) => StatusNode(f) = StatusNode(b)
  BY <1>3, <1>4 DEF Chained, HasStatus, StatusNode, FirstNode
<1>7. Classified(f, IF c = NoClaim THEN d ELSE c)
  BY <1>5, <1>6 DEF Classified
<1>8. Joined(a, b) = f
  BY DEF Joined, f, left, n
<1>9. QED
  BY <1>5, <1>7, <1>8

LEMMA WrappedClassified ==
    ASSUME NEW w, NEW e, NEW c, Classified(e, c)
    PROVE  Classified(Wrapped(w, e), c) /\ Text(Wrapped(w, e)) = {w} \cup Text(e)
<1> DEFINE n == Node("wrap", "none", NoInfo, {w} \cup Text(e))
<1>1. n.type \notin StatusTypes /\ n.text = {w} \cup Text(e)
  BY DEF Node, StatusTypes
<1> HIDE DEF n
<1>2. Wrapped(w, e) = <<n>> \o e
  BY DEF Wrapped, n
<1>3. QED
  BY <1>1, <1>2, NodeOver DEF Classified

\* A structured error has a status of its own, whatever it wraps.
LEMMA NewClassified ==
    ASSUME NEW code, NEW message, NEW opts, IsList(Given(opts, "cause", Nil)), NEW def
    PROVE  /\ Classified(New(code, message, opts),
                         Claims(NormalizeCode(code), InfoFrom(opts), def))
           /\ Text(New(code, message, opts)) = Message(message, Given(opts, "cause", Nil))
<1> DEFINE cause == Given(opts, "cause", Nil)
           n == Node("werror", NormalizeCode(code), InfoFrom(opts), Message(message, cause))
<1>1. /\ n.type \in StatusTypes /\ n.text = Message(message, cause)
      /\ n.code = NormalizeCode(code) /\ n.info = InfoFrom(opts)
  BY DEF Node, StatusTypes
<1>2. New(code, message, opts) = <<n>> \o cause
  BY DEF New
<1> HIDE DEF n, cause
<1>3. IsList(cause)
  BY DEF cause
<1>4. QED
  BY <1>1, <1>2, <1>3, NodeOver, ClaimIsOne DEF Classified, cause

-----------------------------------------------------------------------------
(* Options: the last one of a field wins.                                  *)

Names(opts, field) == \E i \in DOMAIN opts : opts[i].field = field

LEMMA GivenIs ==
    ASSUME NEW opts, IsList(opts), NEW field, NEW default,
           NEW i \in DOMAIN opts, opts[i].field = field,
           \A j \in DOMAIN opts : opts[j].field = field => j <= i
    PROVE  Given(opts, field, default) = opts[i].value
<1> DEFINE at == {j \in DOMAIN opts : opts[j].field = field}
           m == CHOOSE k \in at : \A j \in at : j <= k
<1>1. i \in at /\ \A j \in at : j <= i
  OBVIOUS
<1>2. m \in at /\ \A j \in at : j <= m
  BY <1>1
<1>3. m = i
  BY <1>1, <1>2, ListIsSeq
<1>4. at # {}
  BY <1>1
<1>5. QED
  BY <1>3, <1>4 DEF Given

LEMMA GivenExists ==
    ASSUME NEW opts, IsList(opts), NEW field, Names(opts, field)
    PROVE  \E i \in DOMAIN opts :
             opts[i].field = field /\ \A j \in DOMAIN opts : opts[j].field = field => j <= i
<1> DEFINE at == {j \in DOMAIN opts : opts[j].field = field}
<1>1. Len(opts) \in Nat /\ at \subseteq 1..Len(opts) /\ at # {}
  BY ListIsSeq DEF Names
<1>2. QED
  BY <1>1, LastPlace

LEMMA GivenNot ==
    ASSUME NEW opts, NEW field, ~Names(opts, field), NEW default
    PROVE  Given(opts, field, default) = default
BY DEF Given, Names

LEMMA GivenConcatenated ==
    ASSUME NEW a, IsList(a), NEW b, IsList(b), NEW field, NEW default
    PROVE  Given(a \o b, field, default) =
             IF Names(b, field) THEN Given(b, field, default) ELSE Given(a, field, default)
<1> DEFINE f == a \o b
<1>1. IsList(f) /\ Len(f) = Len(a) + Len(b)
  BY ConcatenatedPlaces
<1>2. \A i \in 1..Len(a) : i \in 1..Len(f) /\ f[i] = a[i]
  BY ConcatenatedPlaces
<1>3. \A i \in 1..Len(b) : Len(a) + i \in 1..Len(f) /\ f[Len(a) + i] = b[i]
  BY ConcatenatedPlaces
<1>4. \A i \in 1..Len(f) : i \in 1..Len(a) \/ \E j \in 1..Len(b) : i = Len(a) + j
  BY ConcatenatedPlaces
<1>5. /\ DOMAIN a = 1..Len(a) /\ DOMAIN b = 1..Len(b) /\ DOMAIN f = 1..Len(f)
      /\ Len(a) \in Nat /\ Len(b) \in Nat
  BY <1>1, ListIsSeq
<1> HIDE DEF f
<1>6. CASE Names(b, field)
  <2>1. PICK i \in DOMAIN b :
          b[i].field = field /\ \A j \in DOMAIN b : b[j].field = field => j <= i
    BY <1>6, GivenExists
  <2> DEFINE m == Len(a) + i
  <2>2. m \in DOMAIN f /\ f[m] = b[i]
    BY <1>3, <1>5
  <2>3. ASSUME NEW j \in DOMAIN f, f[j].field = field PROVE j <= m
    <3>1. CASE j \in 1..Len(a)
      BY <1>5, <3>1
    <3>2. ASSUME NEW l \in 1..Len(b), j = Len(a) + l PROVE j <= m
      BY <1>3, <1>5, <2>1, <2>3, <3>2
    <3>3. QED
      BY <1>4, <1>5, <3>1, <3>2
  <2>4. Given(f, field, default) = f[m].value
    BY <1>1, <2>1, <2>2, <2>3, GivenIs
  <2>5. Given(b, field, default) = b[i].value
    BY <2>1, GivenIs
  <2>6. QED
    BY <1>6, <2>2, <2>4, <2>5 DEF f
<1>7. CASE ~Names(b, field) /\ Names(a, field)
  <2>1. PICK i \in DOMAIN a :
          a[i].field = field /\ \A j \in DOMAIN a : a[j].field = field => j <= i
    BY <1>7, GivenExists
  <2>2. i \in DOMAIN f /\ f[i] = a[i]
    BY <1>2, <1>5
  <2>3. ASSUME NEW j \in DOMAIN f, f[j].field = field PROVE j <= i
    <3>1. CASE j \in 1..Len(a)
      BY <1>2, <1>5, <2>1, <2>3, <3>1
    <3>2. ASSUME NEW l \in 1..Len(b), j = Len(a) + l PROVE FALSE
      BY <1>3, <1>5, <1>7, <2>3, <3>2 DEF Names
    <3>3. QED
      BY <1>4, <1>5, <3>1, <3>2
  <2>4. Given(f, field, default) = f[i].value
    BY <1>1, <2>1, <2>2, <2>3, GivenIs
  <2>5. Given(a, field, default) = a[i].value
    BY <2>1, GivenIs
  <2>6. QED
    BY <1>7, <2>2, <2>4, <2>5 DEF f
<1>8. CASE ~Names(b, field) /\ ~Names(a, field)
  <2>1. ASSUME NEW i \in DOMAIN f, f[i].field = field PROVE FALSE
    <3>1. CASE i \in 1..Len(a)
      BY <1>2, <1>5, <1>8, <2>1, <3>1 DEF Names
    <3>2. ASSUME NEW j \in 1..Len(b), i = Len(a) + j PROVE FALSE
      BY <1>3, <1>5, <1>8, <2>1, <3>2 DEF Names
    <3>3. QED
      BY <1>4, <1>5, <3>1, <3>2
  <2>2. ~Names(f, field)
    BY <2>1 DEF Names
  <2>3. QED
    BY <1>8, <2>2, GivenNot DEF f
<1>9. QED
  BY <1>6, <1>7, <1>8

LEMMA EmptyIsList == IsList(Nil)
BY DEF IsList, Nil

LEMMA NamesConcatenated ==
    ASSUME NEW a, IsList(a), NEW b, IsList(b), NEW field
    PROVE  Names(a \o b, field) <=> Names(a, field) \/ Names(b, field)
<1> DEFINE f == a \o b
<1>1. /\ IsList(f)
      /\ \A i \in 1..Len(a) : i \in 1..Len(f) /\ f[i] = a[i]
      /\ \A i \in 1..Len(b) : Len(a) + i \in 1..Len(f) /\ f[Len(a) + i] = b[i]
      /\ \A i \in 1..Len(f) : i \in 1..Len(a) \/ \E j \in 1..Len(b) : i = Len(a) + j
  BY ConcatenatedPlaces
<1>2. DOMAIN a = 1..Len(a) /\ DOMAIN b = 1..Len(b) /\ DOMAIN f = 1..Len(f)
  BY <1>1, ListIsSeq
<1> HIDE DEF f
<1>3. ASSUME NEW i \in DOMAIN f, f[i].field = field PROVE Names(a, field) \/ Names(b, field)
  <2>1. CASE i \in 1..Len(a)
    BY <1>1, <1>2, <1>3, <2>1 DEF Names
  <2>2. ASSUME NEW j \in 1..Len(b), i = Len(a) + j PROVE Names(b, field)
    BY <1>1, <1>2, <1>3, <2>2 DEF Names
  <2>3. QED
    BY <1>1, <1>2, <2>1, <2>2
<1>4. Names(a, field) => Names(f, field)
  BY <1>1, <1>2 DEF Names
<1>5. ASSUME NEW j \in 1..Len(b), b[j].field = field PROVE Names(f, field)
  BY <1>1, <1>2, <1>5 DEF Names
<1>6. QED
  BY <1>2, <1>3, <1>4, <1>5 DEF Names, f

LEMMA PairConcatenated ==
    ASSUME NEW p, NEW q
    PROVE  <<p>> \o <<q>> = <<p, q>>
<1> DEFINE f == <<p>> \o <<q>>
<1>1. <<p>> \in Seq({p, q}) /\ <<q>> \in Seq({p, q}) /\ Len(<<p>>) = 1 /\ Len(<<q>>) = 1
  OBVIOUS
<1>2. f \in Seq({p, q}) /\ Len(f) = 2
  BY <1>1, ConcatProperties
<1>3. f[1] = p /\ f[2] = q
  BY <1>1, ConcatProperties
<1> HIDE DEF f
<1>4. f = [i \in 1..2 |-> f[i]]
  BY <1>2
<1>5. <<p, q>> = [i \in 1..2 |-> IF i = 1 THEN p ELSE q]
  OBVIOUS
<1>6. \A i \in 1..2 : f[i] = IF i = 1 THEN p ELSE q
  BY <1>3
<1>7. QED
  BY <1>4, <1>5, <1>6 DEF f

LEMMA OneOption ==
    ASSUME NEW field, NEW value
    PROVE  /\ IsList(<<Option(field, value)>>)
           /\ \A x : Names(<<Option(field, value)>>, x) <=> x = field
           /\ \A default : Given(<<Option(field, value)>>, field, default) = value
<1> DEFINE o == Option(field, value)
           s == <<o>>
<1>1. o.field = field /\ o.value = value
  BY DEF Option
<1> HIDE DEF o
<1>2. s \in Seq({o}) /\ DOMAIN s = {1} /\ s[1] = o
  OBVIOUS
<1> HIDE DEF s
<1>3. IsList(s)
  BY <1>2, SeqIsList
<1>4. \A x : Names(s, x) <=> x = field
  BY <1>1, <1>2 DEF Names
<1>5. \A default : Given(s, field, default) = value
  BY <1>1, <1>2, <1>3, GivenIs
<1>6. QED
  BY <1>3, <1>4, <1>5 DEF s, o

\* A field other than the appended one is as it was given.
LEMMA InfoOfFields ==
    ASSUME NEW a, NEW b,
           \A field \in {"domain", "reason"} : \A default :
             Given(a, field, default) = Given(b, field, default)
    PROVE  InfoFrom(a) = InfoFrom(b)
BY Zenon DEF InfoFrom

LEMMA InfoOfDefinition ==
    ASSUME NEW opts, NEW d, ValidDefinition(d),
           \A default : /\ Given(opts, "domain", default) = d.domain
                        /\ Given(opts, "reason", default) = d.reason
    PROVE  InfoFrom(opts) = Keys(d)
<1>1. d.reason # ""
  BY Zenon DEF ValidDefinition
<1>2. QED
  BY <1>1, Zenon DEF InfoFrom, Keys

LEMMA WrapIs ==
    ASSUME NEW code, NEW e, IsList(e), e # Nil, NEW message, NEW opts, IsList(opts), NEW def
    PROVE  /\ Classified(Wrap(code, e, message, opts),
                         Claims(NormalizeCode(code), InfoFrom(opts), def))
           /\ Text(Wrap(code, e, message, opts)) = Message(message, e)
<1> DEFINE with == opts \o <<Option("cause", e)>>
<1>1. \A field, default :
        Given(with, field, default) =
          IF field = "cause" THEN Given(<<Option("cause", e)>>, field, default)
          ELSE Given(opts, field, default)
  BY OneOption, GivenConcatenated
<1>2. Given(with, "cause", Nil) = e
  BY <1>1, OneOption
<1> HIDE DEF with
<1>3. InfoFrom(with) = InfoFrom(opts)
  BY <1>1, InfoOfFields
<1>4. Append(opts, Option("cause", e)) = with
  <2> DEFINE o == Option("cause", e)
             S == {opts[i] : i \in DOMAIN opts} \cup {o}
  <2>1. opts \in Seq(S) /\ o \in S
    <3>1. opts = [i \in 1..Len(opts) |-> opts[i]] /\ \A i \in 1..Len(opts) : opts[i] \in S
      BY ListIsSeq DEF IsList
    <3> HIDE DEF S
    <3>2. opts \in Seq(S)
      BY <3>1, ListIsSeq
    <3>3. QED
      BY <3>2 DEF S
  <2> HIDE DEF S, o
  <2>2. Append(opts, o) = opts \o <<o>>
    BY <2>1, AppendIsConcat
  <2>3. QED
    BY <2>2 DEF with, o
<1>5. Wrap(code, e, message, opts) = New(code, message, with)
  BY <1>4 DEF Wrap
<1>6. QED
  BY <1>2, <1>3, <1>5, NewClassified

LEMMA DefinitionIs ==
    ASSUME NEW d, ValidDefinition(d), NEW e, IsList(e), NEW message,
           NEW opts, IsList(opts), IsList(Given(opts, "cause", Nil))
    PROVE  LET f == DefinitionWrap(d, e, message, opts)
           IN  /\ Classified(f, Claims(d.code, Keys(d), {d}))
               /\ Text(f) =
                    Message(message, IF e = Nil THEN Given(opts, "cause", Nil) ELSE e)
<1> DEFINE cause == IF e = Nil THEN <<>> ELSE <<Option("cause", e)>>
           keys == <<Option("domain", d.domain)>> \o <<Option("reason", d.reason)>>
           with == opts \o cause
           all == with \o keys
<1>1. IsList(cause)
  BY OneOption, EmptyIsList DEF Nil
<1>2. \A x : Names(cause, x) <=> e # Nil /\ x = "cause"
  BY OneOption DEF Names
<1>3. e # Nil => Given(cause, "cause", Nil) = e
  BY OneOption
<1>4. IsList(keys)
  BY OneOption, ConcatenatedPlaces
<1>5. \A default : /\ Given(keys, "domain", default) = d.domain
                   /\ Given(keys, "reason", default) = d.reason
  BY OneOption, GivenConcatenated
<1>6. \A x : Names(keys, x) <=> x \in {"domain", "reason"}
  BY OneOption, NamesConcatenated
<1>7. DefinitionWrap(d, e, message, opts) = New(d.code, message, all)
  <2>1. keys = <<Option("domain", d.domain), Option("reason", d.reason)>>
    BY PairConcatenated
  <2>2. QED
    BY <2>1 DEF DefinitionWrap
<1> HIDE DEF cause, keys
<1>8. /\ IsList(with)
      /\ \A field, default : Given(with, field, default) =
           IF Names(cause, field) THEN Given(cause, field, default)
           ELSE Given(opts, field, default)
  BY <1>1, ConcatenatedPlaces, GivenConcatenated
<1> HIDE DEF with
<1>9. \A field, default : Given(all, field, default) =
        IF Names(keys, field) THEN Given(keys, field, default)
        ELSE Given(with, field, default)
  BY <1>4, <1>8, GivenConcatenated
<1> HIDE DEF all
<1>10. InfoFrom(all) = Keys(d)
  BY <1>5, <1>6, <1>9, InfoOfDefinition
<1>11. Given(all, "cause", Nil) = IF e = Nil THEN Given(opts, "cause", Nil) ELSE e
  BY <1>2, <1>3, <1>6, <1>8, <1>9
<1>12. NormalizeCode(d.code) = d.code
  BY Zenon DEF NormalizeCode, ValidDefinition
<1>13. QED
  BY <1>7, <1>10, <1>11, <1>12, NewClassified

-----------------------------------------------------------------------------
(* ErrorToStatus and what gRPC answers.                                    *)

\* Options that can be used: the texts hold no word of a handler.
ExitReady(o) ==
    /\ o.validationCode # "OK" /\ o.defaultCode # "OK"
    /\ IsList(o.mappings)
    /\ \A w \in o.defaultMessage : ~Handlers(w)
    /\ \A i \in DOMAIN o.mappings : \A w \in o.mappings[i].message : ~Handlers(w)

LEMMA BuiltReady ==
    ASSUME NEW given \in ExitOptions
    PROVE  ExitReady(BuildOptions(given))
<1> DEFINE o == BuildOptions(given)
<1>1. DOMAIN given = {"validationCode", "mappings", "defaultCode", "defaultMessage", "expose"}
  BY ErrorsAssumption
<1>2. /\ o.validationCode = NormalizeStatusCode(given.validationCode, "InvalidArgument")
      /\ o.defaultCode = NormalizeStatusCode(given.defaultCode, "Internal")
      /\ o.mappings = given.mappings /\ o.defaultMessage = given.defaultMessage
  BY <1>1 DEF BuildOptions
<1>3. /\ IsList(given.mappings)
      /\ \A w \in given.defaultMessage : ~Handlers(w)
      /\ \A i \in DOMAIN given.mappings : \A w \in given.mappings[i].message : ~Handlers(w)
  BY ErrorsAssumption
<1> HIDE DEF o
<1>4. o.validationCode # "OK" /\ o.defaultCode # "OK"
  BY <1>2 DEF NormalizeStatusCode
<1>5. QED
  BY <1>2, <1>3, <1>4 DEF ExitReady, o

\* What ErrorToStatus makes of an error without a status.
Marked(r, e) ==
    \E code, text :
      /\ code # "OK" /\ r = Status(code, NoInfo, text)
      /\ text = Text(e) \/ \A w \in text : ~Handlers(w)

LEMMA MappedIs ==
    ASSUME NEW e, NEW o, ExitReady(o), Matching(e, o.mappings) # {}
    PROVE  Marked(MappedStatus(e, FirstMatch(e, o.mappings)), e)
<1> DEFINE at == Matching(e, o.mappings)
           m == FirstMatch(e, o.mappings)
           code == NormalizeStatusCode(m.code, "Internal")
           text == IF m.message = {} THEN Text(e) ELSE m.message
<1>1. at \subseteq Nat /\ at \subseteq DOMAIN o.mappings
  BY ListIsSeq DEF Matching, ExitReady
<1>2. \E i \in at : \A j \in at : i <= j
  BY <1>1, LeastNumber
<1>3. \E i \in at : m = o.mappings[i]
  BY <1>2 DEF FirstMatch
<1> HIDE DEF m
<1>4. \A w \in m.message : ~Handlers(w)
  BY <1>1, <1>3 DEF ExitReady
<1>5. code # "OK"
  BY DEF NormalizeStatusCode
<1>6. MappedStatus(e, m) = Status(code, NoInfo, text)
  BY DEF MappedStatus
<1>7. text = Text(e) \/ \A w \in text : ~Handlers(w)
  BY <1>4
<1>8. QED
  BY <1>5, <1>6, <1>7 DEF Marked, m

LEMMA DefaultIs ==
    ASSUME NEW e, NEW o, ExitReady(o)
    PROVE  Marked(DefaultStatus(e, o), e)
<1> DEFINE text == IF o.defaultMessage = {} /\ o.expose THEN Text(e) ELSE o.defaultMessage
<1>1. DefaultStatus(e, o) = Status(o.defaultCode, NoInfo, text)
  BY DEF DefaultStatus
<1>2. text = Text(e) \/ \A w \in text : ~Handlers(w)
  BY DEF ExitReady
<1>3. o.defaultCode # "OK"
  BY DEF ExitReady
<1>4. QED
  BY <1>1, <1>2, <1>3 DEF Marked

LEMMA ExitMarks ==
    ASSUME NEW e, e # Nil, ~HasStatus(e), NEW o, ExitReady(o)
    PROVE  Marked(NormalizeErrorToStatus(e, o), e)
<1>1. ASSUME NEW code, code # "OK" PROVE Marked(Status(code, NoInfo, Text(e)), e)
  BY <1>1 DEF Marked
<1>2. /\ Marked(Status(o.validationCode, NoInfo, Text(e)), e)
      /\ Marked(Status("Canceled", NoInfo, Text(e)), e)
      /\ Marked(Status("DeadlineExceeded", NoInfo, Text(e)), e)
  BY <1>1 DEF ExitReady
<1>3. Marked(DefaultStatus(e, o), e)
  BY DefaultIs
<1>4. Matching(e, o.mappings) # {} => Marked(MappedStatus(e, FirstMatch(e, o.mappings)), e)
  BY MappedIs
<1>5. QED
  BY <1>2, <1>3, <1>4 DEF NormalizeErrorToStatus

LEMMA ExitKeeps ==
    ASSUME NEW e, NEW o
    PROVE  /\ e = Nil => NormalizeErrorToStatus(e, o) = Nil
           /\ e # Nil /\ HasStatus(e) =>
                NormalizeErrorToStatus(e, o) =
                  Status(StatusNode(e).code, StatusNode(e).info, Text(e))
BY DEF NormalizeErrorToStatus, StatusErrorOf, CodeOf

LEMMA WireIs ==
    ASSUME NEW e
    PROVE  /\ OnWire(e).text = Text(e)
           /\ OnWire(e).code = "OK" => CodeOf(e) = "OK"
           /\ CodeOf(e) = "OK" => OnWire(e).code = "OK"
           /\ e # Nil /\ HasStatus(e) => /\ OnWire(e).code = StatusNode(e).code
                                         /\ OnWire(e).info = StatusNode(e).info
           /\ e = Nil => OnWire(e).code = "OK" /\ OnWire(e).info = NoInfo
           /\ e # Nil /\ HasStatus(e) =>
                OnWire(e) = [code |-> CodeOf(e), info |-> StatusNode(e).info, text |-> Text(e)]
           /\ e = Nil => OnWire(e) = [code |-> "OK", info |-> NoInfo, text |-> {}]
<1>1. e = Nil => OnWire(e) = [code |-> "OK", info |-> NoInfo, text |-> Text(e)]
  BY DEF OnWire
<1>2. e # Nil /\ HasStatus(e) =>
        OnWire(e) = [code |-> StatusNode(e).code, info |-> StatusNode(e).info,
                     text |-> Text(e)]
  BY DEF OnWire
<1>3. e # Nil /\ ~HasStatus(e) =>
        \E code \in {"DeadlineExceeded", "Canceled", "Unknown"} :
          OnWire(e) = [code |-> code, info |-> NoInfo, text |-> Text(e)]
  BY DEF OnWire
<1>4. Text(Nil) = {}
  BY DEF Text
<1>5. QED
  BY <1>1, <1>2, <1>3, <1>4 DEF CodeOf

\* What the logger and the client read out of a status is what it was made of.
LEMMA StatusReads ==
    ASSUME NEW code, NEW info, NEW text
    PROVE  /\ code # "OK" => ErrorInfoOf(Status(code, info, text)) = info
           /\ ErrorInfoOf(Nil) = NoInfo
<1>1. \A types : ~Holds(Nil, types)
  BY DEF Holds, Nil
<1>2. ErrorInfoOf(Nil) = NoInfo
  BY <1>1 DEF ErrorInfoOf, StructuredInfo, HasStatus
<1>3. ASSUME code # "OK" PROVE ErrorInfoOf(Status(code, info, text)) = info
  <2> DEFINE n == Node("status", code, info, text)
  <2>1. n.type \notin Structured /\ n.type \in StatusTypes /\ n.info = info
    BY DEF Node, Structured, StatusTypes
  <2>2. Status(code, info, text) = <<n>>
    BY <1>3 DEF Status
  <2> HIDE DEF n
  <2>3. /\ ~Holds(<<n>>, Structured)
        /\ Holds(<<n>>, StatusTypes) /\ FirstNode(<<n>>, StatusTypes) = n
    BY <2>1, SingleNode
  <2>4. QED
    BY <2>1, <2>2, <2>3 DEF ErrorInfoOf, StructuredInfo, HasStatus, StatusNode, FirstNode
<1>4. QED
  BY <1>2, <1>3

-----------------------------------------------------------------------------
(* The invariant of the outcome.                                           *)

\* A word that somebody else than a handler wrote.
Foreign(w) == ~Handlers(w)
OkClaim == Claims("OK", NoInfo, {})

\* What the request scope refuses with, or an authorizer answers instead of a decision.
Refusal(e) == IsList(e) /\ CodeOf(e) # "OK" /\ \A w \in Text(e) : Foreign(w)

\* Before a handler, the call has come to nothing or to a refusal.
BeforeInv ==
    /\ phase \in {"idle", "asking", "serving"} => err = Nil
    /\ phase = "failed" => Refusal(err)
    /\ phase \in {"idle", "asking", "serving", "failed"} =>
         claim = NoClaim /\ covered = {} /\ ~raised /\ words = 0

\* The claim is what the first node with a status says.
HandlingInv ==
    phase = "handling" =>
        \/ err = Nil /\ claim = NoClaim /\ ~raised
        \/ raised /\ Classified(err, claim)

\* On the way out an error without a status may have got one that nobody claimed, and a
\* typed nil may have become nil.
Leaving ==
    \/ err = Nil /\ claim = NoClaim /\ ~raised
    \/ raised /\ claim = NoClaim /\ IsList(err) /\ CodeOf(err) # "OK"
    \/ raised /\ claim # NoClaim /\ Classified(err, claim)
    \/ raised /\ claim = OkClaim /\ err = Nil

LeavingInv ==
    /\ phase \in {"returning", "answered"} =>
         Leaving /\ order \in Orders
    /\ phase = "returning" /\ Has("exit") => ExitReady(options)
    /\ pending \in Nat
    /\ phase = "answered" => answer = OnWire(err)

ClaimOf(c, list) ==
    c # NoClaim =>
        /\ c.code = "OK" => c = OkClaim
        /\ c.def # {} => \E i \in DOMAIN list : c.def = {list[i]} /\ c.info = Keys(list[i])
ClaimInv ==
    /\ catalog # <<>> => catalog \in Catalogs /\ ValidCatalog(catalog)
    /\ ClaimOf(claim, catalog)

OutcomeInv == BeforeInv /\ HandlingInv /\ LeavingInv /\ ClaimInv

\* No text repeats a word that was covered.  Words nobody in a handler wrote may be
\* written again, on the way out over an error without a status: none of them is covered.
Apart(n, hidden, text) ==
    /\ n \in Nat
    /\ \A w \in hidden \cup text : Handlers(w) => w <= n
    /\ text \cap hidden = {}
LoggedWords ==
    log # NoLog => phase \in {"returning", "answered"} /\ log.text \cap covered = {}
ForeignWords ==
    /\ phase = "handling" /\ (\E w \in covered \cup Text(err) : Foreign(w)) => HasStatus(err)
    /\ phase = "returning" /\ (\E w \in covered : Foreign(w)) => HasStatus(err) \/ err = Nil
WordsInv == Apart(words, covered, Text(err)) /\ LoggedWords /\ ForeignWords

\* Once ErrorToStatus has been passed an error is nil or a status, and an entry that is
\* made next is what is answered.
Exited(e) == e # Nil => \E code, info, text : code # "OK" /\ e = Status(code, info, text)
LogsTheExit == Has("exit") /\ Place(order, "log") = Place(order, "exit") + 1
LogInv ==
    /\ phase \notin {"returning", "answered"} => log = NoLog /\ pending = 0
    /\ LogsTheExit /\ phase \in {"returning", "answered"} =>
         /\ pending = Place(order, "exit") => Exited(err)
         /\ log # NoLog => log = OnWire(err) /\ Place(order, "log") <= pending

-----------------------------------------------------------------------------
(* What a handler does to an error.                                        *)

LEMMA GivenList ==
    ASSUME NEW opts \in OptionLists
    PROVE  IsList(opts) /\ IsList(Given(opts, "cause", Nil))
<1>1. /\ IsList(opts)
      /\ \A i \in DOMAIN opts : opts[i].field = "cause" => IsList(opts[i].value)
  BY ErrorsAssumption
<1>2. CASE Names(opts, "cause")
  <2>1. PICK i \in DOMAIN opts :
          opts[i].field = "cause" /\ \A j \in DOMAIN opts : opts[j].field = "cause" => j <= i
    BY <1>1, <1>2, GivenExists
  <2>2. Given(opts, "cause", Nil) = opts[i].value
    BY <1>1, <2>1, GivenIs
  <2>3. QED
    BY <1>1, <2>1, <2>2
<1>3. CASE ~Names(opts, "cause")
  BY <1>1, <1>3, GivenNot, EmptyIsList
<1>4. QED
  BY <1>2, <1>3

LEMMA MadeClaims ==
    ASSUME NEW list
    PROVE  /\ ClaimOf(NoClaim, list) /\ ClaimOf(OkClaim, list)
           /\ \A code, info : code # "OK" => ClaimOf(Claims(code, info, {}), list)
           /\ \A i \in DOMAIN list : ValidDefinition(list[i]) =>
                ClaimOf(Claims(list[i].code, Keys(list[i]), {list[i]}), list)
<1>1. ClaimOf(NoClaim, list) /\ ClaimOf(OkClaim, list)
  BY ClaimIsOne DEF ClaimOf, OkClaim
<1>2. \A code, info : code # "OK" => ClaimOf(Claims(code, info, {}), list)
  BY ClaimIsOne DEF ClaimOf
<1>3. ASSUME NEW i \in DOMAIN list, ValidDefinition(list[i])
      PROVE  ClaimOf(Claims(list[i].code, Keys(list[i]), {list[i]}), list)
  <2>1. list[i].code # "OK"
    BY <1>3, Zenon DEF ValidDefinition
  <2>2. QED
    BY <2>1, ClaimIsOne DEF ClaimOf
<1>4. QED
  BY <1>1, <1>2, <1>3

\* A handler raises an error with its own word, annotates the one it has, or wraps it.
Raised(e, c) ==
    /\ Raises(e, c) /\ Classified(e, c) /\ ClaimOf(c, catalog) /\ Text(e) \subseteq {Word}
Rewrapped(e, c, message) ==
    /\ Wraps(e, c, message) /\ message \in {{}, {Word}}
    /\ Classified(e, c) /\ c # NoClaim /\ ClaimOf(c, catalog)
    /\ Text(e) = Message(message, err)

LEMMA RaisedPlain ==
    ASSUME NEW type \in {"plain", "canceled", "deadline", "validation"} \cup Sentinels,
           RaisePlain(type)
    PROVE  \E e, c : Raised(e, c)
<1>1. type \notin StatusTypes
  BY ErrorsAssumption DEF StatusTypes
<1>2. Classified(Leaf(type, {Word}), NoClaim) /\ Text(Leaf(type, {Word})) = {Word}
  BY <1>1, PlainClassified
<1>3. Raised(Leaf(type, {Word}), NoClaim)
  BY <1>2, MadeClaims DEF Raised, RaisePlain
<1>4. QED
  BY <1>3

LEMMA RaisedStatus ==
    ASSUME NEW code, NEW info, RaiseStatus(code, info)
    PROVE  \E e, c : Raised(e, c)
<1>1. code # "OK" /\ Raises(Status(code, info, {Word}), Claims(code, info, {}))
  BY DEF RaiseStatus
<1>2. /\ Classified(Status(code, info, {Word}), Claims(code, info, {}))
      /\ Text(Status(code, info, {Word})) = {Word}
  BY <1>1, StatusClassified
<1>3. Raised(Status(code, info, {Word}), Claims(code, info, {}))
  BY <1>1, <1>2, MadeClaims DEF Raised
<1>4. QED
  BY <1>3

LEMMA OwnMessage == ASSUME NEW e PROVE Message({Word}, e) = {Word}
BY DEF Message

LEMMA NormalCode == ASSUME NEW code PROVE NormalizeCode(code) # "OK"
BY DEF NormalizeCode

LEMMA RaisedNew ==
    ASSUME NEW code, NEW opts \in OptionLists, RaiseNew(code, opts)
    PROVE  \E e, c : Raised(e, c)
<1> DEFINE e == New(code, {Word}, opts)
           c == Claims(NormalizeCode(code), InfoFrom(opts), {})
<1>1. Raises(e, c)
  BY DEF RaiseNew
<1>2. Classified(e, c) /\ Text(e) = {Word}
  BY GivenList, NewClassified, OwnMessage
<1>3. ClaimOf(c, catalog)
  BY NormalCode, MadeClaims
<1> HIDE DEF e, c
<1>4. Raised(e, c)
  BY <1>1, <1>2, <1>3 DEF Raised
<1>5. QED
  BY <1>4

LEMMA Definitions ==
    ASSUME ClaimInv, NEW i \in DOMAIN catalog
    PROVE  /\ catalog \in Catalogs /\ ValidCatalog(catalog)
           /\ ValidDefinition(catalog[i])
           /\ ClaimOf(Claims(catalog[i].code, Keys(catalog[i]), {catalog[i]}), catalog)
<1>1. catalog # <<>>
  OBVIOUS
<1>2. catalog \in Catalogs /\ ValidCatalog(catalog)
  BY <1>1 DEF ClaimInv
<1>3. ValidDefinition(catalog[i])
  BY <1>2 DEF ValidCatalog
<1>4. QED
  BY <1>2, <1>3, MadeClaims

LEMMA RaisedDefined ==
    ASSUME ClaimInv, NEW i \in DOMAIN catalog, NEW opts \in OptionLists,
           RaiseDefined(catalog[i], opts)
    PROVE  \E e, c : Raised(e, c)
<1> DEFINE d == catalog[i]
           e == DefinitionWrap(d, Nil, {Word}, opts)
           c == Claims(d.code, Keys(d), {d})
<1>1. Raises(e, c)
  BY DEF RaiseDefined
<1>2. ValidDefinition(d) /\ ClaimOf(c, catalog)
  BY Definitions
<1>3. Classified(e, c) /\ Text(e) = {Word}
  <2>1. ValidDefinition(d) /\ IsList(opts) /\ IsList(Given(opts, "cause", Nil))
    BY <1>2, GivenList
  <2>2. IsList(Nil)
    BY EmptyIsList
  <2> DEFINE m == Message({Word}, IF Nil = Nil THEN Given(opts, "cause", Nil) ELSE Nil)
  <2>3. Classified(e, c) /\ Text(e) = m
    <3> HIDE DEF d
    <3>1. QED
      BY <2>1, <2>2, DefinitionIs
  <2>4. QED
    BY <2>3, OwnMessage
<1> HIDE DEF e, c
<1>4. Raised(e, c)
  BY <1>1, <1>2, <1>3 DEF Raised
<1>5. QED
  BY <1>4

LEMMA RaisedNil == ASSUME RaiseNil PROVE \E e, c : Raised(e, c)
<1>1. Raises(NilError, OkClaim)
  BY DEF RaiseNil, OkClaim
<1>2. Classified(NilError, OkClaim) /\ Text(NilError) = {}
  BY NilErrorClassified DEF OkClaim
<1>3. Raised(NilError, OkClaim)
  BY <1>1, <1>2, MadeClaims DEF Raised
<1>4. QED
  BY <1>3

LEMMA RewrappedNew ==
    ASSUME NEW code, NEW opts \in OptionLists, NEW message \in {{}, {Word}}, IsList(err),
           WrapNew(code, opts, message)
    PROVE  \E e, c : Rewrapped(e, c, message)
<1> DEFINE e == Wrap(code, err, message, opts)
           c == Claims(NormalizeCode(code), InfoFrom(opts), {})
<1>1. Wraps(e, c, message) /\ err # Nil
  BY DEF WrapNew, Wraps
<1>2. Classified(e, c) /\ Text(e) = Message(message, err)
  BY <1>1, GivenList, WrapIs
<1>3. c # NoClaim /\ ClaimOf(c, catalog)
  BY NormalCode, MadeClaims, ClaimIsOne
<1> HIDE DEF e, c
<1>4. Rewrapped(e, c, message)
  BY <1>1, <1>2, <1>3 DEF Rewrapped
<1>5. QED
  BY <1>4

LEMMA RewrappedDefined ==
    ASSUME ClaimInv, NEW i \in DOMAIN catalog, NEW opts \in OptionLists, IsList(err),
           WrapDefined(catalog[i], opts)
    PROVE  \E e, c : Rewrapped(e, c, {Word})
<1> DEFINE d == catalog[i]
           e == DefinitionWrap(d, err, {Word}, opts)
           c == Claims(d.code, Keys(d), {d})
<1>1. Wraps(e, c, {Word}) /\ err # Nil
  BY DEF WrapDefined, Wraps
<1>2. ValidDefinition(d) /\ ClaimOf(c, catalog)
  BY Definitions
<1>3. c # NoClaim
  BY ClaimIsOne
<1>4. Classified(e, c) /\ Text(e) = Message({Word}, err)
  BY <1>1, <1>2, GivenList, DefinitionIs
<1> HIDE DEF e, c
<1>5. Rewrapped(e, c, {Word})
  BY <1>1, <1>2, <1>3, <1>4 DEF Rewrapped
<1>6. QED
  BY <1>5

LEMMA HandlerSteps ==
    ASSUME HandlingInv, ClaimInv, HandlerNext
    PROVE  /\ phase = "handling" /\ IsList(err)
           /\ \/ \E e, c : Raised(e, c)
              \/ Annotate
              \/ \E e, c, message : Rewrapped(e, c, message)
<1>1. phase = "handling"
  BY DEF HandlerNext, RaisePlain, RaiseStatus, RaiseNew, RaiseDefined, RaiseNil, Annotate,
         WrapNew, WrapDefined, Raises, Wraps, Room
<1>2. IsList(err)
  BY <1>1, EmptyIsList DEF HandlingInv, Classified
<1>3. QED
  BY <1>1, <1>2, RaisedPlain, RaisedStatus, RaisedNew, RaisedDefined, RaisedNil,
     RewrappedNew, RewrappedDefined DEF HandlerNext

-----------------------------------------------------------------------------
(* The outcome, step by step.                                              *)

LEMMA CodeOfClassified ==
    ASSUME NEW e, NEW c, Classified(e, c)
    PROVE  CodeOf(e) = IF c = NoClaim THEN "Unknown" ELSE c.code
BY DEF Classified, CodeOf

LEMMA InitOutcome == Init => OutcomeInv
<1> SUFFICES ASSUME Init PROVE OutcomeInv
  OBVIOUS
<1>1. BeforeInv /\ HandlingInv /\ LeavingInv
  BY DEF Init, ScopeInit, BeforeInv, HandlingInv, LeavingInv
<1>2. ClaimInv
  BY MadeClaims DEF Init, ClaimInv
<1>3. QED
  BY <1>1, <1>2 DEF OutcomeInv

\* The request scope leads to the handler without an error, or to a refusal.
LEMMA StatusRefusal ==
    ASSUME NEW code, code # "OK"
    PROVE  Refusal(Status(code, NoInfo, {}))
<1>1. /\ Classified(Status(code, NoInfo, {}), Claims(code, NoInfo, {}))
      /\ Text(Status(code, NoInfo, {})) = {}
  BY StatusClassified
<1>2. CodeOf(Status(code, NoInfo, {})) = code
  BY <1>1, CodeOfClassified, ClaimIsOne
<1>3. QED
  BY <1>1, <1>2 DEF Refusal, Classified

Entered ==
    /\ phase \in {"idle", "asking"}
    /\ \/ phase' \in {"asking", "serving"} /\ err' = err
       \/ phase' = "failed" /\ Refusal(err')

LEMMA RefuseEntered ==
    ASSUME NEW code, code # "OK", phase \in {"idle", "asking"}, Refuse(code)
    PROVE  Entered
BY StatusRefusal DEF Entered, Refuse, Fail

LEMMA ScopeEntered == ASSUME ScopeNext PROVE Entered
<1>1. ASSUME NEW s, NEW m, NEW message, PassThrough(s, m, message) PROVE Entered
  BY <1>1 DEF PassThrough, Begin, Entered
<1>2. ASSUME NEW s, NEW m, NEW message, NotReadable(s, m, message) PROVE Entered
  BY <1>2, RefuseEntered DEF NotReadable, Begin
<1>3. ASSUME NEW s, NEW m, NEW message, ServeDefault(s, m, message) PROVE Entered
  BY <1>3 DEF ServeDefault, Begin, Entered
<1>4. ASSUME NEW s, NEW m, NEW message, Ask(s, m, message) PROVE Entered
  <2>1. CASE s.authorizer
    BY <1>4, <2>1 DEF Ask, Begin, Entered
  <2>2. CASE ~s.authorizer
    BY <1>4, <2>2, RefuseEntered DEF Ask, Begin
  <2>3. QED
    BY <2>1, <2>2
<1>5. Tick => Entered
  BY DEF Tick, Entered
<1>6. ASSUME NEW decision, Answer(decision) PROVE Entered
  <2>1. CASE Refuse("PermissionDenied") \/ Refuse("Internal")
    BY <1>6, <2>1, RefuseEntered DEF Answer
  <2>2. CASE phase' = "serving" /\ err' = err
    BY <1>6, <2>2 DEF Answer, Entered
  <2>3. QED
    BY <1>6, <2>1, <2>2 DEF Answer
<1>7. ASSUME NEW e \in AuthorizerErrors, AnswerFails(e) PROVE Entered
  <2>1. IsList(e) /\ CodeOf(e) # "OK" /\ \A w \in Text(e) : ~Handlers(w)
    BY ErrorsAssumption
  <2>2. QED
    BY <1>7, <2>1 DEF AnswerFails, Fail, Entered, Refusal, Foreign
<1>8. QED
  BY <1>1, <1>2, <1>3, <1>4, <1>5, <1>6, <1>7 DEF ScopeNext

LEMMA ScopeOutcome == OutcomeInv /\ ScopeNext /\ UNCHANGED chainVars => OutcomeInv'
<1> SUFFICES ASSUME OutcomeInv, ScopeNext, UNCHANGED chainVars PROVE OutcomeInv'
  OBVIOUS
<1>1. /\ Entered
      /\ claim' = claim /\ covered' = covered /\ raised' = raised /\ words' = words
      /\ catalog' = catalog /\ pending' = pending
  BY ScopeEntered DEF chainVars
<1>2. BeforeInv'
  BY <1>1 DEF OutcomeInv, BeforeInv, Entered
<1>3. HandlingInv' /\ LeavingInv'
  BY <1>1 DEF OutcomeInv, HandlingInv, LeavingInv, Entered
<1>4. ClaimInv'
  BY <1>1 DEF OutcomeInv, ClaimInv, ClaimOf
<1>5. QED
  BY <1>2, <1>3, <1>4 DEF OutcomeInv

LEMMA HandleOutcome == OutcomeInv /\ Handle => OutcomeInv'
<1> SUFFICES ASSUME OutcomeInv, Handle PROVE OutcomeInv'
  OBVIOUS
<1>1. /\ phase = "serving" /\ phase' = "handling" /\ err' = err /\ claim' = claim
      /\ raised' = raised /\ catalog' \in Catalogs /\ ValidCatalog(catalog')
      /\ pending' = pending
  BY DEF Handle
<1>2. err = Nil /\ claim = NoClaim /\ ~raised /\ pending \in Nat
  BY <1>1 DEF OutcomeInv, BeforeInv, LeavingInv
<1>3. BeforeInv' /\ HandlingInv' /\ LeavingInv'
  BY <1>1, <1>2 DEF BeforeInv, HandlingInv, LeavingInv
<1>4. ClaimInv'
  BY <1>1, <1>2 DEF ClaimInv, ClaimOf
<1>5. QED
  BY <1>3, <1>4 DEF OutcomeInv

\* A step of a handler, with what it makes of the error and of the claim.
LEMMA HandledOutcome ==
    ASSUME OutcomeInv, phase = "handling", phase' = "handling", raised',
           Classified(err', claim'), ClaimOf(claim', catalog), catalog' = catalog,
           pending' = pending
    PROVE  OutcomeInv'
<1>1. BeforeInv' /\ HandlingInv' /\ LeavingInv'
  BY DEF OutcomeInv, BeforeInv, HandlingInv, LeavingInv
<1>2. ClaimInv'
  BY DEF OutcomeInv, ClaimInv
<1>3. QED
  BY <1>1, <1>2 DEF OutcomeInv

\* A new error is alone, or joins the one there is.
RaisedAs(e, c) ==
    \/ err = Nil /\ err' = e /\ claim' = c /\ Text(err') = Text(e)
    \/ /\ err # Nil
       /\ \/ err' = Joined(err, e) /\ claim' = IF claim = NoClaim THEN c ELSE claim
          \/ err' = Joined(e, err) /\ claim' = IF c = NoClaim THEN claim ELSE c
       /\ Text(err') = Text(err) \cup Text(e)

LEMMA RaisedIs ==
    ASSUME OutcomeInv, NEW e, NEW c, Raised(e, c)
    PROVE  /\ phase = "handling" /\ phase' = "handling" /\ raised' /\ catalog' = catalog
           /\ pending' = pending
           /\ RaisedAs(e, c)
           /\ Classified(err', claim') /\ claim' \in {c, claim}
           /\ err # Nil => Classified(err, claim)
<1>1. Raises(e, c) /\ Classified(e, c)
  BY DEF Raised
<1>2. /\ phase = "handling" /\ phase' = "handling" /\ raised' /\ catalog' = catalog
      /\ pending' = pending
  BY <1>1 DEF Raises, Room
<1>3. err # Nil => Classified(err, claim)
  BY <1>2 DEF OutcomeInv, HandlingInv
<1>4. CASE err = Nil
  BY <1>1, <1>2, <1>4 DEF Raises, RaisedAs
<1>5. CASE err # Nil
  <2>1. CASE err' = Joined(err, e) /\ claim' = IF claim = NoClaim THEN c ELSE claim
    BY <1>1, <1>2, <1>3, <1>5, <2>1, JoinedClassified DEF RaisedAs
  <2>2. CASE err' = Joined(e, err) /\ claim' = IF c = NoClaim THEN claim ELSE c
    <3>1. Classified(err', claim') /\ Text(err') = Text(e) \cup Text(err)
      BY <1>1, <1>3, <1>5, <2>2, JoinedClassified
    <3>2. QED
      BY <1>2, <1>3, <1>5, <2>2, <3>1 DEF RaisedAs
  <2>3. QED
    BY <1>1, <1>5, <2>1, <2>2 DEF Raises
<1>6. QED
  BY <1>4, <1>5

LEMMA AnnotateIs ==
    ASSUME OutcomeInv, Annotate
    PROVE  /\ phase = "handling" /\ phase' = "handling" /\ raised' /\ catalog' = catalog
           /\ pending' = pending
           /\ claim' = claim /\ words' = Word /\ covered' = covered /\ log' = log
           /\ Classified(err, claim) /\ Classified(err', claim')
           /\ Text(err') = {Word} \cup Text(err)
<1>1. /\ phase = "handling" /\ phase' = "handling" /\ err # Nil /\ err' = Wrapped(Word, err)
      /\ claim' = claim /\ raised' = raised /\ catalog' = catalog
      /\ words' = Word /\ covered' = covered /\ log' = log
      /\ pending' = pending
  BY DEF Annotate, Room
<1>2. Classified(err, claim) /\ raised
  BY <1>1 DEF OutcomeInv, HandlingInv
<1>3. QED
  BY <1>1, <1>2, WrappedClassified

LEMMA RewrappedIs ==
    ASSUME OutcomeInv, NEW e, NEW c, NEW message, Rewrapped(e, c, message)
    PROVE  /\ phase = "handling" /\ phase' = "handling" /\ raised' /\ catalog' = catalog
           /\ pending' = pending
           /\ err # Nil /\ err' = e /\ claim' = c /\ words' = Word /\ log' = log
           /\ covered' = IF message = {} THEN covered ELSE covered \cup Text(err)
<1>1. Wraps(e, c, message)
  BY DEF Rewrapped
<1>2. phase = "handling" /\ err # Nil /\ raised' = raised
  BY <1>1 DEF Wraps, Room
<1>3. raised
  BY <1>2 DEF OutcomeInv, HandlingInv
<1>4. QED
  BY <1>1, <1>2, <1>3 DEF Wraps

LEMMA HandlerOutcome == OutcomeInv /\ HandlerNext => OutcomeInv'
<1> SUFFICES ASSUME OutcomeInv, HandlerNext PROVE OutcomeInv'
  OBVIOUS
<1>1. ASSUME NEW e, NEW c, Raised(e, c) PROVE OutcomeInv'
  <2>1. ClaimOf(c, catalog) /\ ClaimOf(claim, catalog)
    BY <1>1 DEF Raised, OutcomeInv, ClaimInv
  <2>2. ClaimOf(claim', catalog)
    BY <1>1, <2>1, RaisedIs
  <2>3. QED
    BY <1>1, <2>2, RaisedIs, HandledOutcome
<1>2. CASE Annotate
  BY <1>2, AnnotateIs, HandledOutcome DEF OutcomeInv, ClaimInv
<1>3. ASSUME NEW e, NEW c, NEW message, Rewrapped(e, c, message) PROVE OutcomeInv'
  <2>1. Classified(e, c) /\ ClaimOf(c, catalog)
    BY <1>3 DEF Rewrapped
  <2>2. QED
    BY <1>3, <2>1, RewrappedIs, HandledOutcome
<1>4. QED
  BY <1>1, <1>2, <1>3, HandlerSteps DEF OutcomeInv

LEMMA AroundReady ==
    ASSUME NEW o, Around(o)
    PROVE  order' = o /\ (Has("exit")' => ExitReady(options'))
<1>1. order' = o
  BY DEF Around
<1>2. ASSUME Has("exit")' PROVE ExitReady(options')
  <2>1. \E i \in DOMAIN o : o[i] = "exit"
    BY <1>1, <1>2 DEF Has
  <2>2. PICK given \in ExitOptions : options' = BuildOptions(given)
    BY <2>1 DEF Around
  <2>3. QED
    BY <2>2, BuiltReady
<1>3. QED
  BY <1>1, <1>2

\* A step on the way out leaves the claims alone.
LEMMA LeavingOutcome ==
    ASSUME OutcomeInv, phase' \in {"returning", "answered"}, Leaving',
           order' \in Orders, pending' \in Nat,
           phase' = "returning" /\ Has("exit")' => ExitReady(options'),
           phase' = "answered" => answer' = OnWire(err'),
           claim' = claim, catalog' = catalog
    PROVE  OutcomeInv'
<1>1. BeforeInv' /\ HandlingInv' /\ LeavingInv'
  BY DEF BeforeInv, HandlingInv, LeavingInv
<1>2. ClaimInv'
  BY DEF OutcomeInv, ClaimInv, ClaimOf
<1>3. QED
  BY <1>1, <1>2 DEF OutcomeInv

LEMMA UnclaimedCode ==
    ASSUME NEW e, Classified(e, NoClaim)
    PROVE  IsList(e) /\ CodeOf(e) # "OK"
BY CodeOfClassified DEF Classified

LEMMA PlaceIs ==
    ASSUME NEW o \in Orders, NEW i \in DOMAIN o
    PROVE  Place(o, o[i]) = i /\ i \in Nat
<1>1. \A j \in DOMAIN o : o[j] = o[i] => j = i
  BY ChainAssumption
<1>2. i \in Nat
  BY ChainAssumption
<1>3. QED
  BY <1>1, <1>2 DEF Place

LEMMA PassingIs ==
    ASSUME OutcomeInv, NEW interceptor, Passing(interceptor)
    PROVE  /\ phase = "returning" /\ order \in Orders /\ pending \in Nat
           /\ pending + 1 \in DOMAIN order /\ order[pending + 1] = interceptor
           /\ Has(interceptor) /\ Place(order, interceptor) = pending + 1
           /\ pending' = pending + 1
<1>1. /\ phase = "returning" /\ pending < Len(order) /\ order[pending + 1] = interceptor
      /\ pending' = pending + 1
  BY DEF Passing
<1>2. order \in Orders /\ pending \in Nat
  BY <1>1 DEF OutcomeInv, LeavingInv
<1>3. pending + 1 \in DOMAIN order
  BY <1>1, <1>2, ChainAssumption
<1>4. Place(order, interceptor) = pending + 1
  BY <1>1, <1>2, <1>3, PlaceIs
<1>5. QED
  BY <1>1, <1>2, <1>3, <1>4 DEF Has

LEMMA ReturnOutcome == ASSUME OutcomeInv, NEW o \in Orders, Return(o) PROVE OutcomeInv'
<1>1. /\ phase = "handling" /\ phase' = "returning" /\ err' = err /\ claim' = claim
      /\ raised' = raised /\ catalog' = catalog /\ Around(o) /\ pending' = pending
  BY DEF Return
<1>2. \/ err = Nil /\ claim = NoClaim /\ ~raised
      \/ raised /\ Classified(err, claim)
  BY <1>1 DEF OutcomeInv, HandlingInv
<1>3. Leaving'
  BY <1>1, <1>2, UnclaimedCode DEF Leaving
<1>4. pending \in Nat
  BY DEF OutcomeInv, LeavingInv
<1>5. QED
  BY <1>1, <1>3, <1>4, AroundReady, LeavingOutcome

LEMMA RefusedOutcome == ASSUME OutcomeInv, NEW o \in Orders, Refused(o) PROVE OutcomeInv'
<1>1. /\ phase = "failed" /\ phase' = "returning" /\ err' = err /\ claim' = claim
      /\ raised' /\ catalog' = catalog /\ Around(o) /\ pending' = Place(o, "scope")
  BY DEF Refused
<1>2. Refusal(err) /\ claim = NoClaim
  BY <1>1 DEF OutcomeInv, BeforeInv
<1>3. Leaving'
  BY <1>1, <1>2 DEF Leaving, Refusal
<1>4. pending' \in Nat
  BY <1>1, PlaceIs, ChainAssumption
<1>5. QED
  BY <1>1, <1>3, <1>4, AroundReady, LeavingOutcome

\* An OK status is none, another one says what it was made of.
LEMMA StatusIs ==
    ASSUME NEW code, NEW info, NEW text
    PROVE  /\ code = "OK" => Status(code, info, text) = Nil
           /\ code # "OK" =>
                /\ IsList(Status(code, info, text)) /\ Status(code, info, text) # Nil
                /\ HasStatus(Status(code, info, text))
                /\ StatusNode(Status(code, info, text)).code = code
                /\ StatusNode(Status(code, info, text)).info = info
                /\ CodeOf(Status(code, info, text)) = code
                /\ Text(Status(code, info, text)) = text
<1>1. code = "OK" => Status(code, info, text) = Nil
  BY DEF Status
<1>2. ASSUME code # "OK"
      PROVE  /\ Classified(Status(code, info, text), Claims(code, info, {}))
             /\ Text(Status(code, info, text)) = text
  BY <1>2, StatusClassified
<1>3. /\ Claims(code, info, {}) # NoClaim /\ Claims(code, info, {}).code = code
      /\ Claims(code, info, {}).info = info
  BY ClaimIsOne
<1>4. QED
  BY <1>1, <1>2, <1>3, CodeOfClassified DEF Classified

\* What ErrorToStatus makes of what a handler returns, or the interceptors inside of it.
LEMMA ExitIs ==
    ASSUME OutcomeInv, ErrorToStatus
    PROVE  /\ err = Nil => err' = Nil
           /\ err # Nil /\ HasStatus(err) =>
                err' = Status(StatusNode(err).code, StatusNode(err).info, Text(err))
           /\ err # Nil /\ ~HasStatus(err) => Marked(err', err)
<1>1. Has("exit") /\ phase = "returning" /\ err' = NormalizeErrorToStatus(err, options)
  BY PassingIs DEF ErrorToStatus
<1>2. ExitReady(options)
  BY <1>1 DEF OutcomeInv, LeavingInv
<1>3. QED
  BY <1>1, <1>2, ExitKeeps, ExitMarks

LEMMA ExitOutcome == ASSUME OutcomeInv, ErrorToStatus PROVE OutcomeInv'
<1>1. /\ phase = "returning" /\ phase' = "returning" /\ order' = order /\ options' = options
      /\ claim' = claim /\ raised' = raised /\ catalog' = catalog
      /\ order \in Orders /\ pending' \in Nat
  BY PassingIs DEF ErrorToStatus
<1>2. Leaving /\ (Has("exit")' => ExitReady(options'))
  BY <1>1 DEF OutcomeInv, LeavingInv, Has
<1>3. ASSUME err = Nil PROVE Leaving'
  BY <1>1, <1>2, <1>3, ExitIs DEF Leaving, Classified
<1>4. ASSUME err # Nil /\ ~HasStatus(err) PROVE Leaving'
  <2>1. claim = NoClaim /\ raised
    BY <1>2, <1>4, ClaimIsOne DEF Leaving, Classified
  <2>2. PICK code, text : code # "OK" /\ err' = Status(code, NoInfo, text)
    BY <1>4, ExitIs DEF Marked
  <2>3. IsList(err') /\ CodeOf(err') # "OK"
    BY <2>2, StatusIs
  <2>4. QED
    BY <1>1, <2>1, <2>3 DEF Leaving
<1>5. ASSUME err # Nil /\ HasStatus(err) PROVE Leaving'
  <2> DEFINE code == StatusNode(err).code
             info == StatusNode(err).info
  <2>1. raised /\ err' = Status(code, info, Text(err))
    BY <1>2, <1>5, ExitIs DEF Leaving
  <2>2. CASE claim = NoClaim
    <3>1. CodeOf(err) # "OK"
      BY <1>2, <1>5, <2>2, UnclaimedCode, ClaimIsOne DEF Leaving, OkClaim
    <3>2. code # "OK"
      BY <1>5, <3>1 DEF CodeOf
    <3> HIDE DEF code, info
    <3>3. IsList(err') /\ CodeOf(err') # "OK"
      BY <2>1, <3>2, StatusIs
    <3>4. QED
      BY <1>1, <2>1, <2>2, <3>3 DEF Leaving
  <2>3. CASE claim # NoClaim
    <3>1. claim.code = code /\ claim.info = info
      BY <1>2, <1>5, <2>3 DEF Leaving, Classified
    <3>2. code = "OK" => claim = OkClaim
      BY <2>3, <3>1 DEF OutcomeInv, ClaimInv, ClaimOf
    <3> HIDE DEF code, info
    <3>3. CASE code = "OK"
      BY <1>1, <2>1, <3>2, <3>3, StatusIs DEF Leaving
    <3>4. CASE code # "OK"
      <4>1. Classified(err', claim')
        BY <1>1, <2>1, <2>3, <3>1, <3>4, StatusIs DEF Classified
      <4>2. QED
        BY <1>1, <2>1, <2>3, <4>1 DEF Leaving
    <3>5. QED
      BY <3>3, <3>4
  <2>4. QED
    BY <2>2, <2>3
<1>6. Leaving'
  BY <1>3, <1>4, <1>5
<1>7. QED
  BY <1>1, <1>2, <1>6, LeavingOutcome

\* The logger and the request scope let an error pass.
LEMMA PassedOutcome ==
    ASSUME OutcomeInv, NEW interceptor, Passing(interceptor), phase' = phase, err' = err,
           claim' = claim, raised' = raised, catalog' = catalog, order' = order,
           options' = options
    PROVE  OutcomeInv'
<1>1. phase = "returning" /\ order \in Orders /\ pending' \in Nat
  BY PassingIs
<1>2. Leaving /\ (Has("exit") => ExitReady(options))
  BY <1>1 DEF OutcomeInv, LeavingInv
<1>3. Leaving' /\ (Has("exit")' => ExitReady(options'))
  BY <1>2 DEF Leaving, Has
<1>4. QED
  BY <1>1, <1>3, LeavingOutcome

LEMMA LoggerOutcome == ASSUME OutcomeInv, AccessLogger PROVE OutcomeInv'
BY PassedOutcome DEF AccessLogger

LEMMA ScopeReturnsOutcome == ASSUME OutcomeInv, RequestScopeReturns PROVE OutcomeInv'
BY PassedOutcome DEF RequestScopeReturns

LEMMA AnsweredOutcome == ASSUME OutcomeInv, Answered PROVE OutcomeInv'
<1>1. /\ phase = "returning" /\ phase' = "answered" /\ answer' = OnWire(err)
      /\ err' = err /\ claim' = claim /\ raised' = raised /\ catalog' = catalog
      /\ order' = order /\ pending' = pending
  BY DEF Answered
<1>2. Leaving /\ order \in Orders /\ pending \in Nat
  BY <1>1 DEF OutcomeInv, LeavingInv
<1>3. Leaving'
  BY <1>1, <1>2 DEF Leaving
<1>4. QED
  BY <1>1, <1>2, <1>3, LeavingOutcome

\* What is answered, of the two kinds of errors there are by then.
LEMMA AnswerIs ==
    ASSUME OutcomeInv, phase = "answered"
    PROVE  /\ answer = OnWire(err) /\ answer.text = Text(err)
           /\ answer.code = "OK" <=> ~raised \/ claim = OkClaim
           /\ claim # NoClaim => answer.code = claim.code /\ answer.info = claim.info
<1>1. Leaving /\ answer = OnWire(err)
  BY DEF OutcomeInv, LeavingInv
<1>2. OkClaim # NoClaim /\ OkClaim.code = "OK" /\ OkClaim.info = NoInfo
  BY ClaimIsOne DEF OkClaim
<1>3. CASE err = Nil
  <2>1. answer.code = "OK" /\ answer.info = NoInfo
    BY <1>1, <1>3, WireIs
  <2>2. QED
    BY <1>1, <1>2, <1>3, <2>1, WireIs DEF Leaving, Classified, CodeOf
<1>4. CASE err # Nil /\ claim = NoClaim
  <2>1. raised /\ CodeOf(err) # "OK"
    BY <1>1, <1>2, <1>4 DEF Leaving
  <2>2. QED
    BY <1>1, <1>2, <1>4, <2>1, WireIs
<1>5. CASE err # Nil /\ claim # NoClaim
  <2>1. raised /\ Classified(err, claim)
    BY <1>1, <1>5 DEF Leaving
  <2>2. answer.code = claim.code /\ answer.info = claim.info
    BY <1>1, <1>5, <2>1, WireIs DEF Classified
  <2>3. claim.code = "OK" => claim = OkClaim
    BY <1>5 DEF OutcomeInv, ClaimInv, ClaimOf
  <2>4. QED
    BY <1>1, <1>2, <2>1, <2>2, <2>3, WireIs
<1>6. QED
  BY <1>3, <1>4, <1>5

LEMMA CallerOutcome == ASSUME OutcomeInv, CallerHandles PROVE OutcomeInv'
<1> DEFINE code == answer.code
           info == answer.info
           made == Claims(code, info, {})
<1>1. /\ phase = "answered" /\ phase' = "handling" /\ code # "OK"
      /\ err' = Status(code, info, answer.text)
      /\ claim' = IF claim = NoClaim THEN made ELSE claim
      /\ raised' = raised /\ catalog' = catalog /\ pending' = 0
  BY DEF CallerHandles
<1>2. raised /\ (claim # NoClaim => code = claim.code /\ info = claim.info)
  BY <1>1, AnswerIs
<1>3. made # NoClaim /\ made.code = code /\ made.info = info /\ ClaimOf(made, catalog)
  BY <1>1, ClaimIsOne, MadeClaims
<1> HIDE DEF code, info, made
<1>4. Classified(err', claim')
  BY <1>1, <1>2, <1>3, StatusIs DEF Classified
<1>5. BeforeInv' /\ HandlingInv' /\ LeavingInv'
  BY <1>1, <1>2, <1>4 DEF BeforeInv, HandlingInv, LeavingInv
<1>6. ClaimInv'
  BY <1>1, <1>3 DEF OutcomeInv, ClaimInv
<1>7. QED
  BY <1>5, <1>6 DEF OutcomeInv

LEMMA EndsOutcome == ASSUME OutcomeInv, Ends PROVE OutcomeInv'
<1>1. /\ phase' = "idle" /\ err' = Nil /\ catalog' = <<>> /\ words' = 0
      /\ claim' = NoClaim /\ covered' = {} /\ ~raised' /\ pending' = 0
  BY DEF Ends
<1>2. BeforeInv' /\ HandlingInv' /\ LeavingInv'
  BY <1>1 DEF BeforeInv, HandlingInv, LeavingInv
<1>3. ClaimInv'
  BY <1>1, MadeClaims DEF ClaimInv
<1>4. QED
  BY <1>2, <1>3 DEF OutcomeInv

LEMMA StutterOutcome == ASSUME OutcomeInv, UNCHANGED vars PROVE OutcomeInv'
<1>1. /\ phase' = phase /\ err' = err /\ claim' = claim /\ covered' = covered
      /\ raised' = raised /\ words' = words /\ catalog' = catalog /\ order' = order
      /\ options' = options /\ pending' = pending /\ answer' = answer
  BY DEF vars, scopeVars, chainVars
<1>2. BeforeInv'
  BY <1>1 DEF OutcomeInv, BeforeInv
<1>3. HandlingInv'
  BY <1>1 DEF OutcomeInv, HandlingInv
<1>4. LeavingInv'
  BY <1>1 DEF OutcomeInv, LeavingInv, Leaving, Has
<1>5. ClaimInv'
  BY <1>1 DEF OutcomeInv, ClaimInv
<1>6. QED
  BY <1>2, <1>3, <1>4, <1>5 DEF OutcomeInv

LEMMA NextOutcome == OutcomeInv /\ [Next]_vars => OutcomeInv'
BY ScopeOutcome, HandleOutcome, HandlerOutcome, ReturnOutcome, RefusedOutcome, ExitOutcome,
   LoggerOutcome, ScopeReturnsOutcome, AnsweredOutcome, CallerOutcome, EndsOutcome,
   StutterOutcome DEF Next

LEMMA OutcomeHolds == Spec => []OutcomeInv
BY InitOutcome, NextOutcome, PTL DEF Spec

-----------------------------------------------------------------------------
(* The words of causes, step by step.                                      *)

\* The next word of a handler is a new one.
LEMMA NextWord ==
    ASSUME NEW n, NEW hidden, NEW text, Apart(n, hidden, text)
    PROVE  /\ n + 1 \in Nat /\ Handlers(n + 1) /\ n + 1 \notin hidden \cup text
           /\ \A w \in hidden \cup text \cup {n + 1} : Handlers(w) => w <= n + 1
<1>1. n \in Nat /\ \A w \in hidden \cup text : Handlers(w) => w <= n
  BY DEF Apart
<1>2. n + 1 \in Nat /\ Handlers(n + 1) /\ ~(n + 1 <= n)
  BY <1>1 DEF Handlers
<1>3. \A w \in hidden \cup text : Handlers(w) => w <= n + 1
  BY <1>1 DEF Handlers
<1>4. QED
  BY <1>1, <1>2, <1>3

LEMMA WordMore ==
    ASSUME NEW hidden, NEW text, NEW more, Apart(words, hidden, text),
           more \subseteq text \cup {Word}
    PROVE  Apart(Word, hidden, more)
<1>1. /\ Word \in Nat /\ Word \notin hidden \cup text
      /\ \A w \in hidden \cup text \cup {Word} : Handlers(w) => w <= Word
  BY NextWord DEF Word
<1>2. text \cap hidden = {}
  BY DEF Apart
<1>3. QED
  BY <1>1, <1>2 DEF Apart

LEMMA WordOver ==
    ASSUME NEW hidden, NEW text, Apart(words, hidden, text)
    PROVE  Apart(Word, hidden \cup text, {Word})
<1>1. /\ Word \in Nat /\ Word \notin hidden \cup text
      /\ \A w \in hidden \cup text \cup {Word} : Handlers(w) => w <= Word
  BY NextWord DEF Word
<1>2. QED
  BY <1>1 DEF Apart

\* A handler or the request scope: there is no entry in the log.
LEMMA QuietWords ==
    ASSUME WordsInv, phase' \notin {"returning", "answered"},
           phase \notin {"returning", "answered"}, log' = log,
           Apart(words', covered', Text(err')),
           phase' = "handling" =>
             ((\E w \in covered' \cup Text(err') : Foreign(w)) => HasStatus(err'))
    PROVE  WordsInv'
<1>1. LoggedWords'
  BY DEF WordsInv, LoggedWords
<1>2. ForeignWords'
  BY DEF ForeignWords
<1>3. QED
  BY <1>1, <1>2 DEF WordsInv

LEMMA InitWords == Init => WordsInv
<1> SUFFICES ASSUME Init PROVE WordsInv
  OBVIOUS
<1>1. phase = "idle" /\ covered = {} /\ err = Nil /\ words = 0 /\ log = NoLog
  BY DEF Init, ScopeInit
<1>2. Text(err) = {}
  BY <1>1 DEF Text
<1>3. QED
  BY <1>1, <1>2 DEF WordsInv, Apart, LoggedWords, ForeignWords

LEMMA ScopeWords == ASSUME OutcomeInv, WordsInv, ScopeNext, UNCHANGED chainVars PROVE WordsInv'
<1>1. /\ Entered
      /\ covered' = covered /\ words' = words /\ log' = log
  BY ScopeEntered DEF chainVars
<1>2. covered = {} /\ words = 0 /\ err = Nil
  BY <1>1 DEF OutcomeInv, BeforeInv, Entered
<1>3. \A w \in Text(err') : ~Handlers(w)
  <2>1. CASE err' = err
    BY <1>2, <2>1 DEF Text
  <2>2. CASE Refusal(err')
    BY <2>2 DEF Refusal, Foreign
  <2>3. QED
    BY <1>1, <2>1, <2>2 DEF Entered
<1>4. Apart(words', covered', Text(err'))
  BY <1>1, <1>2, <1>3 DEF Apart
<1>5. QED
  BY <1>1, <1>4, QuietWords DEF Entered

LEMMA HandleWords == ASSUME OutcomeInv, WordsInv, Handle PROVE WordsInv'
<1>1. /\ phase = "serving" /\ phase' = "handling" /\ err' = err /\ covered' = covered
      /\ words' = words /\ log' = log
  BY DEF Handle
<1>2. covered = {} /\ err = Nil
  BY <1>1 DEF OutcomeInv, BeforeInv
<1>3. Text(err') = {}
  BY <1>1, <1>2 DEF Text
<1>4. Apart(words', covered', Text(err'))
  BY <1>1, <1>2 DEF WordsInv
<1>5. QED
  BY <1>1, <1>2, <1>3, <1>4, QuietWords

\* The error of a handler that has none has no words.
LEMMA StatusStays ==
    ASSUME NEW e, NEW c, NEW f, NEW d, Classified(e, c), Classified(f, d),
           c # NoClaim => d # NoClaim
    PROVE  HasStatus(e) => HasStatus(f)
BY DEF Classified

LEMMA RaisedWords ==
    ASSUME OutcomeInv, WordsInv, NEW e, NEW c, Raised(e, c)
    PROVE  WordsInv'
<1>1. /\ phase = "handling" /\ phase' = "handling" /\ RaisedAs(e, c)
      /\ Classified(err', claim') /\ (err # Nil => Classified(err, claim))
  BY RaisedIs
<1>2. words' = Word /\ covered' = covered /\ log' = log /\ Text(e) \subseteq {Word}
  BY DEF Raised, Raises
<1>3. Text(err') \subseteq Text(err) \cup {Word}
  BY <1>1, <1>2 DEF RaisedAs
<1>4. Apart(words', covered', Text(err'))
  BY <1>2, <1>3, WordMore DEF WordsInv
<1>5. ASSUME NEW w \in covered' \cup Text(err'), Foreign(w) PROVE HasStatus(err')
  <2>1. w # Word
    BY <1>5, NextWord DEF WordsInv, Foreign, Word
  <2>2. w \in covered \cup Text(err)
    BY <1>2, <1>3, <2>1
  <2>3. HasStatus(err)
    BY <1>1, <1>5, <2>2 DEF WordsInv, ForeignWords
  <2>4. err # Nil
    BY <2>3 DEF HasStatus, Holds, Nil
  <2>5. claim # NoClaim => claim' # NoClaim
    BY <1>1, <2>4 DEF RaisedAs
  <2>6. QED
    BY <1>1, <2>3, <2>4, <2>5, StatusStays
<1>6. QED
  BY <1>1, <1>2, <1>4, <1>5, QuietWords

LEMMA AnnotateWords == ASSUME OutcomeInv, WordsInv, Annotate PROVE WordsInv'
<1>1. /\ phase = "handling" /\ phase' = "handling" /\ claim' = claim /\ words' = Word
      /\ covered' = covered /\ log' = log /\ Text(err') = {Word} \cup Text(err)
      /\ Classified(err, claim) /\ Classified(err', claim')
  BY AnnotateIs
<1>2. Apart(words', covered', Text(err'))
  BY <1>1, WordMore DEF WordsInv
<1>3. ASSUME NEW w \in covered' \cup Text(err'), Foreign(w) PROVE HasStatus(err')
  <2>1. w # Word
    BY <1>3, NextWord DEF WordsInv, Foreign, Word
  <2>2. HasStatus(err)
    BY <1>1, <1>3, <2>1 DEF WordsInv, ForeignWords
  <2>3. QED
    BY <1>1, <2>2, StatusStays
<1>4. QED
  BY <1>1, <1>2, <1>3, QuietWords

LEMMA RewrappedWords ==
    ASSUME OutcomeInv, WordsInv, NEW e, NEW c, NEW message, Rewrapped(e, c, message)
    PROVE  WordsInv'
<1>1. /\ phase = "handling" /\ phase' = "handling" /\ err' = e /\ words' = Word
      /\ log' = log
      /\ covered' = IF message = {} THEN covered ELSE covered \cup Text(err)
  BY RewrappedIs
<1>2. Classified(e, c) /\ c # NoClaim /\ message \in {{}, {Word}}
      /\ Text(e) = Message(message, err)
  BY DEF Rewrapped
<1>3. Apart(words', covered', Text(err'))
  <2>1. CASE message = {}
    <3>1. Text(err') = Text(err) /\ covered' = covered
      BY <1>1, <1>2, <2>1 DEF Message
    <3>2. QED
      BY <1>1, <3>1, WordMore DEF WordsInv
  <2>2. CASE message = {Word}
    <3>1. Text(err') = {Word} /\ covered' = covered \cup Text(err)
      BY <1>1, <1>2, <2>2, OwnMessage
    <3>2. QED
      BY <1>1, <3>1, WordOver DEF WordsInv
  <2>3. QED
    BY <1>2, <2>1, <2>2
<1>4. HasStatus(err')
  BY <1>1, <1>2 DEF Classified
<1>5. QED
  BY <1>1, <1>3, <1>4, QuietWords

LEMMA HandlerWords == ASSUME OutcomeInv, WordsInv, HandlerNext PROVE WordsInv'
BY HandlerSteps, RaisedWords, AnnotateWords, RewrappedWords DEF OutcomeInv

LEMMA ReturnWords == ASSUME WordsInv, NEW o, Return(o) PROVE WordsInv'
<1>1. /\ phase = "handling" /\ phase' = "returning" /\ err' = err /\ covered' = covered
      /\ words' = words /\ log' = log
  BY DEF Return
<1>2. LoggedWords'
  BY <1>1 DEF WordsInv, LoggedWords
<1>3. ForeignWords'
  BY <1>1 DEF WordsInv, ForeignWords
<1>4. QED
  BY <1>1, <1>2, <1>3 DEF WordsInv

LEMMA RefusedWords == ASSUME OutcomeInv, WordsInv, NEW o, Refused(o) PROVE WordsInv'
<1>1. /\ phase = "failed" /\ phase' = "returning" /\ err' = err /\ covered' = covered
      /\ words' = words /\ log' = log
  BY DEF Refused
<1>2. covered = {}
  BY <1>1 DEF OutcomeInv, BeforeInv
<1>3. LoggedWords'
  BY <1>1 DEF WordsInv, LoggedWords
<1>4. ForeignWords'
  BY <1>1, <1>2 DEF ForeignWords
<1>5. QED
  BY <1>1, <1>3, <1>4 DEF WordsInv

\* The default message and that of a mapping are of nobody in a handler, and go over
\* errors without a status only, which cover nothing but what handlers wrote.
LEMMA ExitWords == ASSUME OutcomeInv, WordsInv, ErrorToStatus PROVE WordsInv'
<1>1. /\ phase = "returning" /\ phase' = "returning" /\ covered' = covered
      /\ words' = words /\ log' = log
  BY PassingIs DEF ErrorToStatus
<1>2. LoggedWords'
  BY <1>1 DEF WordsInv, LoggedWords
<1>3. ASSUME err' = Nil PROVE Apart(words', covered', Text(err')) /\ ForeignWords'
  <2>1. Text(err') = {}
    BY <1>3 DEF Text
  <2>2. QED
    BY <1>1, <1>3, <2>1 DEF WordsInv, Apart, ForeignWords
<1>4. ASSUME NEW code, NEW info, NEW text, code # "OK", err' = Status(code, info, text),
             Apart(words, covered, text)
      PROVE  Apart(words', covered', Text(err')) /\ ForeignWords'
  <2>1. Text(err') = text /\ HasStatus(err')
    BY <1>4, StatusIs
  <2>2. QED
    BY <1>1, <1>4, <2>1 DEF ForeignWords
<1>5. Apart(words, covered, Text(err))
  BY DEF WordsInv
<1>6. CASE err = Nil
  BY <1>2, <1>3, <1>6, ExitIs DEF WordsInv
<1>7. CASE err # Nil /\ HasStatus(err)
  <2> DEFINE code == StatusNode(err).code
             info == StatusNode(err).info
  <2>1. err' = Status(code, info, Text(err))
    BY <1>7, ExitIs
  <2> HIDE DEF code, info
  <2>2. code = "OK" => err' = Nil
    BY <2>1, StatusIs
  <2>3. Apart(words', covered', Text(err')) /\ ForeignWords'
    BY <1>3, <1>4, <1>5, <2>1, <2>2
  <2>4. QED
    BY <1>2, <2>3 DEF WordsInv
<1>8. CASE err # Nil /\ ~HasStatus(err)
  <2>1. PICK code, text :
          /\ code # "OK" /\ err' = Status(code, NoInfo, text)
          /\ text = Text(err) \/ \A w \in text : ~Handlers(w)
    BY <1>8, ExitIs DEF Marked
  <2>2. \A w \in covered : Handlers(w)
    BY <1>1, <1>8 DEF WordsInv, ForeignWords, Foreign
  <2>3. Apart(words, covered, text)
    BY <1>5, <2>1, <2>2 DEF Apart
  <2>4. Apart(words', covered', Text(err')) /\ ForeignWords'
    BY <1>4, <2>1, <2>3
  <2>5. QED
    BY <1>2, <2>4 DEF WordsInv
<1>9. QED
  BY <1>6, <1>7, <1>8

LEMMA LoggerWords == ASSUME OutcomeInv, WordsInv, AccessLogger PROVE WordsInv'
<1> DEFINE entry == [code |-> CodeOf(err), info |-> ErrorInfoOf(err), text |-> Text(err)]
<1>1. /\ phase = "returning" /\ phase' = "returning" /\ covered' = covered
      /\ words' = words /\ err' = err
      /\ log' = NoLog \/ log' = entry
  BY PassingIs DEF AccessLogger
<1>2. entry.text = Text(err)
  OBVIOUS
<1> HIDE DEF entry
<1>3. LoggedWords'
  BY <1>1, <1>2 DEF WordsInv, Apart, LoggedWords
<1>4. ForeignWords'
  BY <1>1 DEF WordsInv, ForeignWords
<1>5. QED
  BY <1>1, <1>3, <1>4 DEF WordsInv

\* The request scope and gRPC change neither the text nor the log.
LEMMA PassedWords ==
    ASSUME WordsInv, phase = "returning", phase' \in {"returning", "answered"},
           covered' = covered, words' = words, err' = err, log' = log
    PROVE  WordsInv'
<1>1. LoggedWords'
  BY DEF WordsInv, LoggedWords
<1>2. ForeignWords'
  BY DEF WordsInv, ForeignWords
<1>3. QED
  BY <1>1, <1>2 DEF WordsInv

LEMMA CallerWords == ASSUME OutcomeInv, WordsInv, CallerHandles PROVE WordsInv'
<1>1. /\ phase = "answered" /\ phase' = "handling" /\ covered' = covered
      /\ words' = words /\ log' = NoLog /\ answer.code # "OK"
      /\ err' = Status(answer.code, answer.info, answer.text)
  BY DEF CallerHandles
<1>2. answer.text = Text(err)
  BY <1>1, AnswerIs
<1>3. Text(err') = Text(err) /\ HasStatus(err')
  BY <1>1, <1>2, StatusIs
<1>4. LoggedWords' /\ ForeignWords'
  BY <1>1, <1>3 DEF LoggedWords, ForeignWords
<1>5. QED
  BY <1>1, <1>3, <1>4 DEF WordsInv

LEMMA EndsWords == ASSUME Ends PROVE WordsInv'
<1>1. phase' = "idle" /\ err' = Nil /\ words' = 0 /\ covered' = {} /\ log' = NoLog
  BY DEF Ends
<1>2. Text(err') = {}
  BY <1>1 DEF Text
<1>3. QED
  BY <1>1, <1>2 DEF WordsInv, Apart, LoggedWords, ForeignWords

LEMMA StutterWords == ASSUME WordsInv, UNCHANGED vars PROVE WordsInv'
BY DEF WordsInv, Apart, LoggedWords, ForeignWords, vars, scopeVars, chainVars

LEMMA NextWords == OutcomeInv /\ WordsInv /\ [Next]_vars => WordsInv'
<1>1. ASSUME WordsInv, RequestScopeReturns PROVE WordsInv'
  BY <1>1, PassedWords DEF RequestScopeReturns, Passing
<1>2. ASSUME WordsInv, Answered PROVE WordsInv'
  BY <1>2, PassedWords DEF Answered
<1>3. QED
  BY <1>1, <1>2, ScopeWords, HandleWords, HandlerWords, ReturnWords, RefusedWords,
     ExitWords, LoggerWords, CallerWords, EndsWords, StutterWords DEF Next

LEMMA WordsHold == Spec => []WordsInv
BY OutcomeHolds, InitWords, NextWords, PTL DEF Spec

-----------------------------------------------------------------------------
(* The log, step by step.                                                  *)

LEMMA InitLog == Init => LogInv
BY DEF Init, ScopeInit, LogInv

\* Before and after the way out nothing has passed an interceptor.
LEMMA QuietLog ==
    ASSUME LogInv, phase \notin {"returning", "answered"},
           phase' \notin {"returning", "answered"}, log' = log, pending' = pending
    PROVE  LogInv'
BY DEF LogInv

LEMMA HandlerLog == ASSUME LogInv, HandlerNext PROVE LogInv'
<1> DEFINE Still == phase = "handling" /\ phase' = "handling" /\ log' = log
                    /\ pending' = pending
<1>1. ASSUME NEW e, NEW c, Raises(e, c) PROVE Still
  BY <1>1 DEF Raises, Room
<1>2. ASSUME NEW e, NEW c, NEW message, Wraps(e, c, message) PROVE Still
  BY <1>2 DEF Wraps, Room
<1>3. Annotate => Still
  BY DEF Annotate, Room
<1> HIDE DEF Still
<1>4. Still
  BY <1>1, <1>2, <1>3 DEF HandlerNext, RaisePlain, RaiseStatus, RaiseNew, RaiseDefined,
     RaiseNil, WrapNew, WrapDefined
<1>5. QED
  BY <1>4, QuietLog DEF Still

LEMMA ScopeLog == ASSUME LogInv, ScopeNext, UNCHANGED chainVars PROVE LogInv'
BY ScopeEntered, QuietLog DEF Entered, chainVars

LEMMA HandleLog == ASSUME LogInv, Handle PROVE LogInv'
BY QuietLog DEF Handle

LEMMA ReturnLog == ASSUME LogInv, NEW o \in Orders, Return(o) PROVE LogInv'
<1>1. /\ phase = "handling" /\ phase' = "returning" /\ log' = log /\ pending' = pending
      /\ order' = o
  BY DEF Return, Around
<1>2. log' = NoLog /\ pending' = 0
  BY <1>1 DEF LogInv
<1>3. ASSUME Has("exit")' PROVE pending' # Place(o, "exit")
  <2>1. PICK i \in DOMAIN o : o[i] = "exit"
    BY <1>1, <1>3 DEF Has
  <2>2. Place(o, "exit") = i /\ i # 0
    BY <2>1, PlaceIs, ChainAssumption
  <2>3. QED
    BY <1>2, <2>2
<1>4. QED
  BY <1>1, <1>2, <1>3 DEF LogInv, LogsTheExit

\* A refusal enters right after the request scope.
LEMMA RefusedLog == ASSUME LogInv, NEW o \in Orders, Refused(o) PROVE LogInv'
<1>1. /\ phase = "failed" /\ phase' = "returning" /\ log' = log
      /\ pending' = Place(o, "scope") /\ order' = o
  BY DEF Refused, Around
<1>2. log' = NoLog
  BY <1>1 DEF LogInv
<1>3. ASSUME Has("exit")' PROVE pending' # Place(o, "exit")
  <2>1. PICK i \in DOMAIN o : o[i] = "exit"
    BY <1>1, <1>3 DEF Has
  <2>2. PICK j \in DOMAIN o : o[j] = "scope"
    BY ChainAssumption
  <2>3. Place(o, "exit") = i /\ Place(o, "scope") = j /\ i # j
    BY <2>1, <2>2, PlaceIs
  <2>4. QED
    BY <1>1, <2>3
<1>4. QED
  BY <1>1, <1>2, <1>3 DEF LogInv, LogsTheExit

LEMMA ExitLog == ASSUME OutcomeInv, LogInv, ErrorToStatus PROVE LogInv'
<1>1. /\ phase = "returning" /\ phase' = "returning" /\ log' = log /\ order' = order
      /\ pending \in Nat /\ Place(order, "exit") = pending + 1 /\ pending' = pending + 1
  BY PassingIs DEF ErrorToStatus
<1>2. Exited(err')
  <2>1. CASE err = Nil
    BY <2>1, ExitIs DEF Exited
  <2>2. CASE err # Nil /\ ~HasStatus(err)
    BY <2>2, ExitIs DEF Exited, Marked
  <2>3. CASE err # Nil /\ HasStatus(err)
    BY <2>3, ExitIs, StatusIs DEF Exited
  <2>4. QED
    BY <2>1, <2>2, <2>3
<1>3. LogsTheExit => log = NoLog
  BY <1>1 DEF LogInv, LogsTheExit
<1>4. LogsTheExit' = LogsTheExit
  BY <1>1 DEF LogsTheExit, Has
<1>5. QED
  BY <1>1, <1>2, <1>3, <1>4 DEF LogInv

\* Of an error that ErrorToStatus has passed, log and answer say the same.
LEMMA ExitedReads ==
    ASSUME NEW e, Exited(e)
    PROVE  OnWire(e) = [code |-> CodeOf(e), info |-> ErrorInfoOf(e), text |-> Text(e)]
<1>1. CASE e = Nil
  <2>1. CodeOf(e) = "OK" /\ ErrorInfoOf(e) = NoInfo /\ Text(e) = {}
    BY <1>1, StatusReads DEF CodeOf, Text
  <2>2. OnWire(e) = [code |-> "OK", info |-> NoInfo, text |-> {}]
    BY <1>1, WireIs
  <2>3. QED
    BY <2>1, <2>2
<1>2. CASE e # Nil
  <2>1. PICK code, info, text : code # "OK" /\ e = Status(code, info, text)
    BY <1>2 DEF Exited
  <2>2. HasStatus(e) /\ StatusNode(e).info = info /\ ErrorInfoOf(e) = info
    BY <2>1, StatusIs, StatusReads
  <2>3. OnWire(e) = [code |-> CodeOf(e), info |-> StatusNode(e).info, text |-> Text(e)]
    BY <1>2, <2>2, WireIs
  <2>4. QED
    BY <2>2, <2>3
<1>3. QED
  BY <1>1, <1>2

LEMMA LoggerLog == ASSUME OutcomeInv, LogInv, AccessLogger PROVE LogInv'
<1> DEFINE entry == [code |-> CodeOf(err), info |-> ErrorInfoOf(err), text |-> Text(err)]
<1>1. /\ phase = "returning" /\ phase' = "returning" /\ order' = order /\ err' = err
      /\ pending \in Nat /\ Place(order, "log") = pending + 1 /\ pending' = pending + 1
      /\ pending + 1 \in DOMAIN order /\ order[pending + 1] = "log"
      /\ log' = NoLog \/ log' = entry
  BY PassingIs DEF AccessLogger
<1> HIDE DEF entry
<1>2. LogsTheExit' = LogsTheExit
  BY <1>1 DEF LogsTheExit, Has
<1>3. ASSUME LogsTheExit PROVE Place(order, "exit") = pending /\ Exited(err)
  <2>1. Has("exit") /\ Place(order, "log") = Place(order, "exit") + 1
    BY <1>3 DEF LogsTheExit
  <2>2. Place(order, "exit") \in Nat
    <3>1. order \in Orders
      BY <1>1 DEF OutcomeInv, LeavingInv
    <3>2. PICK i \in DOMAIN order : order[i] = "exit"
      BY <2>1 DEF Has
    <3>3. QED
      BY <3>1, <3>2, PlaceIs
  <2>3. Place(order, "exit") = pending
    BY <1>1, <2>1, <2>2
  <2>4. QED
    BY <1>1, <1>3, <2>3 DEF LogInv
<1>4. LogsTheExit => log' = NoLog \/ log' = OnWire(err)
  BY <1>1, <1>3, ExitedReads DEF entry
<1>5. QED
  BY <1>1, <1>2, <1>3, <1>4 DEF LogInv

LEMMA ScopeReturnsLog == ASSUME OutcomeInv, LogInv, RequestScopeReturns PROVE LogInv'
<1>1. /\ phase = "returning" /\ phase' = "returning" /\ order' = order /\ err' = err
      /\ log' = log /\ pending \in Nat /\ pending' = pending + 1
      /\ pending + 1 \in DOMAIN order /\ order[pending + 1] = "scope" /\ order \in Orders
  BY PassingIs DEF RequestScopeReturns
<1>2. LogsTheExit' = LogsTheExit
  BY <1>1 DEF LogsTheExit, Has
<1>3. ASSUME LogsTheExit PROVE Place(order, "exit") # pending + 1
  <2>1. PICK i \in DOMAIN order : order[i] = "exit"
    BY <1>3 DEF LogsTheExit, Has
  <2>2. Place(order, "exit") = i
    BY <1>1, <2>1, PlaceIs
  <2>3. QED
    BY <1>1, <2>1, <2>2
<1>4. LogsTheExit => Place(order, "log") \in Nat
  <2> SUFFICES ASSUME LogsTheExit PROVE Place(order, "log") \in Nat
    OBVIOUS
  <2>1. PICK i \in DOMAIN order : order[i] = "exit"
    BY DEF LogsTheExit, Has
  <2>2. Place(order, "exit") = i /\ i \in Nat
    BY <1>1, <2>1, PlaceIs
  <2>3. QED
    BY <2>2 DEF LogsTheExit
<1>5. QED
  BY <1>1, <1>2, <1>3, <1>4 DEF LogInv

LEMMA AnsweredLog == ASSUME LogInv, Answered PROVE LogInv'
<1>1. /\ phase = "returning" /\ phase' = "answered" /\ order' = order /\ err' = err
      /\ log' = log /\ pending' = pending
  BY DEF Answered
<1>2. LogsTheExit' = LogsTheExit
  BY <1>1 DEF LogsTheExit, Has
<1>3. QED
  BY <1>1, <1>2 DEF LogInv

LEMMA BackLog == ASSUME CallerHandles \/ Ends PROVE LogInv'
BY DEF CallerHandles, Ends, LogInv

LEMMA StutterLog == ASSUME LogInv, UNCHANGED vars PROVE LogInv'
<1>1. /\ phase' = phase /\ order' = order /\ err' = err /\ log' = log /\ pending' = pending
  BY DEF vars, scopeVars, chainVars
<1>2. LogsTheExit' = LogsTheExit
  BY <1>1 DEF LogsTheExit, Has
<1>3. QED
  BY <1>1, <1>2 DEF LogInv

LEMMA NextLog == OutcomeInv /\ LogInv /\ [Next]_vars => LogInv'
BY ScopeLog, HandleLog, HandlerLog, ReturnLog, RefusedLog, ExitLog, LoggerLog,
   ScopeReturnsLog, AnsweredLog, BackLog, StutterLog DEF Next

LEMMA LogHolds == Spec => []LogInv
BY OutcomeHolds, InitLog, NextLog, PTL DEF Spec

-----------------------------------------------------------------------------
(* The theorems about errors.                                              *)

\* However errors are joined, annotated, wrapped, mapped and defaulted, and whatever
\* interceptors there are, a call whose handler failed is not answered with OK, nor one
\* that did not with anything else, a typed nil apart
\* (middleware/grpc/error.go, werror/error.go).
THEOREM FailureStaysFailureHolds == Spec => []FailureStaysFailure
<1>1. OutcomeInv => FailureStaysFailure
  BY AnswerIs DEF FailureStaysFailure, OkClaim
<1>2. QED
  BY <1>1, OutcomeHolds, PTL

\* Code, domain and reason of the first error with a status are those of the answer, and
\* what the next service up the chain reads out of it (werror/error.go,
\* middleware/grpc/error.go).
THEOREM IdentityTravelsHolds == Spec => []IdentityTravels
<1>1. ASSUME OutcomeInv PROVE IdentityTravels
  <2> SUFFICES ASSUME phase = "answered", claim # NoClaim
               PROVE  /\ answer.code = claim.code
                      /\ ErrorInfoOf(Status(answer.code, answer.info, answer.text))
                           = claim.info
    BY DEF IdentityTravels
  <2>1. answer.code = claim.code /\ answer.info = claim.info
    BY <1>1, AnswerIs
  <2> DEFINE read == ErrorInfoOf(Status(answer.code, answer.info, answer.text))
  <2>2. CASE answer.code # "OK"
    <3>1. read = answer.info
      BY <2>2, StatusReads
    <3>2. QED
      BY <2>1, <3>1
  <2>3. CASE answer.code = "OK"
    <3>1. claim.info = NoInfo
      BY <1>1, <2>1, <2>3, ClaimIsOne DEF OutcomeInv, ClaimInv, ClaimOf, OkClaim
    <3>2. Status(answer.code, answer.info, answer.text) = Nil
      BY <2>3, StatusIs
    <3>3. read = NoInfo
      BY <3>2, StatusReads
    <3>4. QED
      BY <2>1, <3>1, <3>3
  <2>4. QED
    BY <2>2, <2>3
<1>2. QED
  BY <1>1, OutcomeHolds, PTL

\* An error made from a definition is found in the catalog by what is answered, whatever
\* options came with it: domain and reason are the definition's, and the catalog has each
\* pair of them once (werror/definition.go).
THEOREM FoundAsDefinedHolds == Spec => []FoundAsDefined
<1>1. ASSUME OutcomeInv PROVE FoundAsDefined
  <2> SUFFICES ASSUME phase = "answered", claim # NoClaim, claim.def # {}
               PROVE  Found(catalog, answer.info) = claim.def
    BY DEF FoundAsDefined
  <2>1. PICK i \in DOMAIN catalog : claim.def = {catalog[i]} /\ claim.info = Keys(catalog[i])
    BY <1>1 DEF OutcomeInv, ClaimInv, ClaimOf
  <2>2. catalog \in Catalogs /\ ValidCatalog(catalog)
    BY <1>1, Definitions DEF OutcomeInv
  <2>3. answer.info = Keys(catalog[i])
    BY <1>1, <2>1, AnswerIs
  <2>4. answer.info # NoInfo
    BY <2>2, <2>3, ErrorsAssumption DEF Keys
  <2>5. \A j \in DOMAIN catalog : SameKey(catalog[j], answer.info) <=> j = i
    <3>1. \A j \in DOMAIN catalog : j # i => ~SameKey(catalog[j], catalog[i])
      BY <2>2 DEF ValidCatalog
    <3>2. answer.info.domain = catalog[i].domain /\ answer.info.reason = catalog[i].reason
      BY <2>3 DEF Keys
    <3>3. QED
      BY <3>1, <3>2 DEF SameKey
  <2>6. QED
    BY <2>1, <2>4, <2>5 DEF Found
<1>2. QED
  BY <1>1, OutcomeHolds, PTL

\* What a cause says is in no answer and in no log entry, of this hop or a later one,
\* once a message was put on top of it, default messages and mappings included
\* (werror/error.go, middleware/grpc/error.go and access.go).
THEOREM CauseStaysInsideHolds == Spec => []CauseStaysInside
<1>1. ASSUME OutcomeInv, WordsInv PROVE CauseStaysInside
  <2>1. phase = "answered" => answer.text \cap covered = {}
    BY <1>1, AnswerIs DEF WordsInv, Apart
  <2>2. log # NoLog => log.text \cap covered = {}
    BY <1>1 DEF WordsInv, LoggedWords
  <2>3. QED
    BY <2>1, <2>2 DEF CauseStaysInside
<1>2. QED
  BY <1>1, OutcomeHolds, WordsHold, PTL

\* With ErrorToStatus right inside the access logger, the log says of every call, refused
\* or served, what its caller is told (middleware/grpc/access.go, middleware/grpc/error.go).
THEOREM LoggedIsAnsweredHolds == Spec => []LoggedIsAnswered
<1>1. OutcomeInv /\ LogInv => LoggedIsAnswered
  BY AnswerIs DEF LogInv, LogsTheExit, LoggedIsAnswered
<1>2. QED
  BY <1>1, OutcomeHolds, LogHolds, PTL
=============================================================================
