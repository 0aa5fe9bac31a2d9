------------------------------ MODULE DataAccess ------------------------------
(***************************************************************************)
(* Decisions on data access (access/access.go): asking the authorizer,     *)
(* checking what it answers, keeping decisions on a context, and the       *)
(* registry that says which decisions a method needs.                      *)
(*                                                                         *)
(* A context is immutable and contexts derived from one parent live side   *)
(* by side; contexts[i] is what the i-th one made keeps, by resource and   *)
(* action.  The row constraints and field actions of a decision are Go     *)
(* slices: a decision holds where they are (at), and heap what is there.   *)
(* The authorizer answers from a buffer of its own that it may reuse, and  *)
(* a reader may write to what it has read.  The entries of a policy are    *)
(* slices, too; their order, which sort.Slice fixes, is left out.          *)
(*                                                                         *)
(* Resource and action are one word here, with or without space around it. *)
(***************************************************************************)
EXTENDS Integers, Sequences

CONSTANTS
    Words,           \* [text, padded] as requests and decisions spell them
    Constraints,     \* contents of the slices: [row, grant], see Sound
    Answers,         \* [word, allowed, expiresAt, says]: decisions that may be made, an
                     \* expiresAt of 0 for the zero time
    PolicyTables,    \* from the methods, as spelled, to sequences of words
    MaxContexts, MaxTime,
    Scribble,        \* what a reader may leave in the slices it has
    NoDecision

ASSUME DataAssumption ==
    /\ MaxContexts \in Nat \ {0}
    /\ {Scribble, NoDecision} \cap Constraints = {}
    /\ Answers \subseteq [word : Words, allowed : BOOLEAN, expiresAt : Nat,
                         says : Constraints]

Keys == {w.text : w \in Words}

\* strings.TrimSpace; DecisionKey, whose join with a zero byte is taken to tell
\* different pairs apart.
DecisionKey(w) == w.text

Authorizer == "authorizer"
Granted == "granted"
Reader == "reader"
Slot(i, key) == [context |-> i, key |-> key]
Owned(method) == Slot(-1, method)        \* the builder's entries of a policy
Registered(method) == Slot(-2, method)   \* those of the registry

Methods == {method.text : method \in UNION {DOMAIN table : table \in PolicyTables}}

VARIABLES
    now,
    contexts,
    heap,            \* address -> contents
    granted,         \* the decision a caller has in hand, from Authorize or its own
    held,            \* where the slice is that a reader got last
    policies         \* the registry: method -> where its entries are

vars == <<now, contexts, heap, granted, held, policies>>

Addresses == {Slot(i, k) : i \in 1..MaxContexts, k \in Keys} \cup
             {Slot(0, k) : k \in {Authorizer, Granted, Reader}} \cup
             {Owned(m) : m \in Methods} \cup {Registered(m) : m \in Methods}

TypeOK ==
    /\ now \in 0..MaxTime
    /\ Len(contexts) \in 1..MaxContexts
    /\ \A i \in 1..Len(contexts) :
         /\ DOMAIN contexts[i] \subseteq Keys
         /\ \A k \in DOMAIN contexts[i] : contexts[i][k].at \in Addresses
    /\ heap \in [Addresses -> Constraints \cup (SUBSET Keys) \cup {Scribble}]
    /\ granted # NoDecision => granted.at \in Addresses
    /\ held \in Addresses \cup {NoDecision}
    /\ \A m \in DOMAIN policies : policies[m] \in Addresses

\* NewDataAccessPolicyRegistry, which trims every word: methods and entries that are not
\* blank, no entry twice.  Of two spellings of one method the one that the iteration
\* over the map meets last stays.
ValidEntries(entries) ==
    /\ entries # <<>>
    /\ \A i \in 1..Len(entries) : entries[i].text # ""
    /\ \A i, j \in 1..Len(entries) : entries[i].text = entries[j].text => i = j
ValidPolicies(table) ==
    \A method \in DOMAIN table : method.text # "" /\ ValidEntries(table[method])
EntriesOf(entries) == {entries[i].text : i \in 1..Len(entries)}
Spellings(table, m) == {method \in DOMAIN table : method.text = m}

\* The entries are copied to slices of the registry's own.
\* Mutant: the builder's slices are kept.
KeepEntries(m) == Owned(m)
CopyEntries(m) == Registered(m)

NewPolicies(table) ==
    LET known == {method.text : method \in DOMAIN table}
    IN  \E last \in [known -> DOMAIN table] :
          /\ \A m \in known : last[m] \in Spellings(table, m)
          /\ policies = [m \in known |-> CopyEntries(m)]
          /\ heap = [a \in Addresses |->
               IF \E m \in known : a \in {Owned(m), Registered(m)}
               THEN EntriesOf(table[last[a.key]]) ELSE Scribble]

Init ==
    /\ now = 1
    /\ contexts = <<<<>>>>
    /\ granted = NoDecision
    /\ held = NoDecision
    /\ \E table \in PolicyTables : ValidPolicies(table) /\ NewPolicies(table)

Put(f, k, v) == [x \in DOMAIN f \cup {k} |-> IF x = k THEN v ELSE f[x]]

\* validateRowConstraints and validateFieldActions.  A row constraint has a dimension,
\* refs that are neither blank nor repeated once trimmed, and the options that go
\* with its dimension; a grant has a field and actions that are neither unspecified nor
\* repeated.
Distinct(s) == \A i, j \in 1..Len(s) : s[i] = s[j] => i = j
TrimRef(ref) == IF ref = " x" THEN "x" ELSE ref
SoundRow(row) ==
    LET refs == [i \in 1..Len(row.refs) |-> TrimRef(row.refs[i])]
    IN  /\ row.dimension # "unspecified"
        /\ Distinct(refs) /\ \A i \in 1..Len(refs) : refs[i] # ""
        /\ row.dimension = "all" => row.refs = <<>>
        /\ row.dimension = "relation" <=> row.relationKey
        /\ row.descendants => row.dimension = "organization"
SoundGrant(grant) ==
    /\ grant.field # "" /\ grant.actions # <<>>
    /\ Distinct(grant.actions)
    /\ \A i \in 1..Len(grant.actions) : grant.actions[i] # 0
Sound(c) == SoundRow(c.row) /\ SoundGrant(c.grant)

\* cloneDecision: the copy has slices of its own.
\* Mutant: the struct is copied, the slices are not.
CloneStruct(d, to) == d
Clone(d, to) == [d EXCEPT !.at = to]

-----------------------------------------------------------------------------

\* DataAccessDecision.Validate.
\* Mutant: the constraints are not looked at.
ValidUnseen(a, w) == a.word = w /\ a.allowed /\ a.expiresAt > now
Valid(a, w) ==
    /\ a.word = w
    /\ a.allowed
    /\ a.expiresAt > now
    /\ Sound(a.says)

\* A decision; passed is history: the request and the constraints that Validate let
\* through, or NoDecision.
Decision(a, at, passed) ==
    [word |-> a.word, allowed |-> a.allowed, expiresAt |-> a.expiresAt, at |-> at,
     passed |-> passed]

\* Authorize: a request without resource or action fails at once.  The authorizer fills
\* its buffer and answers; what passes is copied, what does not is returned as it is,
\* beside the error.  When the authorizer fails there is no decision.
Authorize(request, a) ==
    LET buffer == Slot(0, Authorizer)
        passed == [request |-> request, says |-> a.says]
    IN  /\ request.text # ""
        /\ IF Valid(a, request)
           THEN /\ granted' = Clone(Decision(a, buffer, passed), Slot(0, Granted))
                /\ heap' = [heap EXCEPT ![buffer] = a.says, ![Slot(0, Granted)] = a.says]
           ELSE /\ granted' = Decision(a, buffer, NoDecision)
                /\ heap' = [heap EXCEPT ![buffer] = a.says]
        /\ UNCHANGED <<now, contexts, held, policies>>

\* A decision that nobody was asked for: business code may fill in one of its own.
Make(a) ==
    /\ granted' = Decision(a, Slot(0, Granted), NoDecision)
    /\ heap' = [heap EXCEPT ![Slot(0, Granted)] = a.says]
    /\ UNCHANGED <<now, contexts, held, policies>>

\* WithDataAccessDecision: a new context with all the parent keeps, copied, and the
\* new decision in place of an older one for the same key.  It takes any decision,
\* whether it has passed Validate or not.
\* Mutant: the new context keeps the new decision only.
KeptNone(i) == {}
Kept(i) == DOMAIN contexts[i]
WithDecision(i) ==
    LET n == Len(contexts) + 1
        key == DecisionKey(granted.word)
    IN  /\ granted # NoDecision
        /\ n <= MaxContexts
        /\ contexts' = Append(contexts,
             [k \in Kept(i) \cup {key} |->
                Clone(IF k = key THEN granted ELSE contexts[i][k], Slot(n, k))])
        /\ heap' = [a \in Addresses |->
             IF a = Slot(n, key) THEN heap[granted.at]
             ELSE IF \E k \in Kept(i) : a = Slot(n, k)
             THEN heap[contexts[i][a.key].at] ELSE heap[a]]
        /\ UNCHANGED <<now, granted, held, policies>>

\* DataAccessDecisionFromContext: whoever asks gets a copy, expired or not.
Read(i, w) ==
    LET key == DecisionKey(w)
    IN  /\ key \in DOMAIN contexts[i]
        /\ held' = Clone(contexts[i][key], Slot(0, Reader)).at
        /\ heap' = [heap EXCEPT ![Slot(0, Reader)] = heap[contexts[i][key].at]]
        /\ UNCHANGED <<now, contexts, granted, policies>>

\* Lookup: a copy of the entries, if the method has any.
\* Mutant: the registry's slice itself.
LookupShares(w) ==
    /\ w.text \in DOMAIN policies
    /\ held' = policies[w.text]
    /\ UNCHANGED <<now, contexts, heap, granted, policies>>
Lookup(w) ==
    /\ w.text \in DOMAIN policies
    /\ held' = Slot(0, Reader)
    /\ heap' = [heap EXCEPT ![Slot(0, Reader)] = heap[policies[w.text]]]
    /\ UNCHANGED <<now, contexts, granted, policies>>

\* Business code, authorizer and the registry's builder write to the slices they hold.
\* A decision that its holder has written to is the holder's own from then on.
HolderWrites ==
    /\ granted # NoDecision
    /\ heap' = [heap EXCEPT ![granted.at] = Scribble]
    /\ granted' = [granted EXCEPT !.passed = NoDecision]
    /\ UNCHANGED <<now, contexts, held, policies>>

ReaderWrites ==
    /\ held # NoDecision
    /\ heap' = [heap EXCEPT ![held] = Scribble]
    /\ UNCHANGED <<now, contexts, granted, held, policies>>

AuthorizerWrites ==
    /\ heap' = [heap EXCEPT ![Slot(0, Authorizer)] = Scribble]
    /\ UNCHANGED <<now, contexts, granted, held, policies>>

BuilderWrites(m) ==
    /\ heap' = [heap EXCEPT ![Owned(m)] = Scribble]
    /\ UNCHANGED <<now, contexts, granted, held, policies>>

Tick ==
    /\ now < MaxTime
    /\ now' = now + 1
    /\ UNCHANGED <<contexts, heap, granted, held, policies>>

Next ==
    \/ \E a \in Answers : Make(a) \/ \E request \in Words : Authorize(request, a)
    \/ \E i \in 1..Len(contexts) :
          WithDecision(i) \/ \E w \in Words : Read(i, w)
    \/ \E method \in UNION {DOMAIN table : table \in PolicyTables} : Lookup(method)
    \/ \E m \in DOMAIN policies : BuilderWrites(m)
    \/ HolderWrites \/ ReaderWrites \/ AuthorizerWrites \/ Tick

Spec == Init /\ [][Next]_vars

-----------------------------------------------------------------------------
(* Properties.                                                             *)

Says(i, k) == heap[contexts[i][k].at]

\* What a context says of an action never changes, and neither does what the registry
\* says of a method: not when a context is derived, not when a reader, the authorizer or
\* the registry's builder writes to the slices they hold.
KeptIsImmutable ==
    [][/\ \A i \in 1..Len(contexts) :
            /\ contexts'[i] = contexts[i]
            /\ \A k \in DOMAIN contexts[i] :
                 heap'[contexts[i][k].at] = Says(i, k)
       /\ \A m \in DOMAIN policies : heap'[policies[m]] = heap[policies[m]]]_vars

\* A kept decision that Authorize let through was allowed for a request for the action it
\* is kept under, and still says what Validate has seen, whatever the authorizer did with
\* its buffer before the decision was kept, and whichever contexts it was handed down to.
KeptDecisionsAreSound ==
    \A i \in 1..Len(contexts) : \A k \in DOMAIN contexts[i] :
        LET d == contexts[i][k]
        IN  d.passed # NoDecision =>
              /\ d.allowed
              /\ d.passed.request.text = k
              /\ Sound(d.passed.says)
              /\ Says(i, k) = d.passed.says

\* A derived context still has the parent's decisions on other actions, with the same
\* constraints.
EarlierDecisionsStay ==
    [][\A i \in 1..Len(contexts) : WithDecision(i) =>
         \A k \in DOMAIN contexts[i] \ {DecisionKey(granted.word)} :
            LET new == contexts'[Len(contexts')]
            IN  k \in DOMAIN new /\ heap'[new[k].at] = Says(i, k)]_vars
=============================================================================
