----------------------- MODULE ConnectionManagerProofs -----------------------
(***************************************************************************)
(* Theorems about ConnectionManager: its types, the safety properties that *)
(* its run checks, and that it implements the atomic pool, for any number  *)
(* of callers, closers, targets and connections.                           *)
(***************************************************************************)
EXTENDS ConnectionManager, TLAPS

-----------------------------------------------------------------------------
(* The inductive invariant.                                                *)

\* A dial under way has a key: what it looks up is in the domain of the cache.
KeyInv == \A p \in Callers : pc[p] # "idle" => key[p] \in Keys

\* The write lock is held across steps by the one Close that closes the manager, and
\* whoever has returned from Close finds the lock free.
LockInv ==
    /\ \A x \in Closers : closePc[x] = "closing" <=> mu = x
    /\ \A x \in Closers : closePc[x] # "ready" => closed
    /\ \A x \in Closers : closePc[x] = "returned" => mu = "free"
    /\ closed /\ mu = "free" => \A k \in Keys : conns[k] = NoConn

\* What is cached was published and is open, and is cached once: closing one entry
\* cannot close another.
CacheInv ==
    /\ \A k \in Keys : conns[k] # NoConn =>
         conns[k] \in published /\ connState[conns[k]] = "open"
    /\ \A k, m \in Keys : conns[k] # NoConn /\ conns[k] = conns[m] => k = m
    /\ \A c \in published : connState[c] # "unborn"

\* A dial that has a connection to publish is the only one that knows it.
HeldInv ==
    /\ \A p \in Callers : pc[p] = "publish" =>
         held[p] \in Conns \ published /\ connState[held[p]] = "open"
    /\ \A p, q \in Callers : pc[p] = "publish" /\ pc[q] = "publish" /\ held[p] = held[q]
         => p = q

\* A connection that was handed out was published, and stays in the cache until the
\* manager is closed.
ReturnedInv ==
    \A p \in Callers : pc[p] = "returned" =>
        /\ held[p] \in Conns \cup {Failed, ClosedErr}
        /\ held[p] \in Conns =>
             held[p] \in published /\ (closed \/ conns[key[p]] = held[p])

IInv ==
    /\ TypeOK /\ KeyInv /\ LockInv /\ CacheInv /\ HeldInv /\ ReturnedInv
    /\ NoLeak /\ OneConnPerTarget

LEMMA InitInv == Init => IInv
<1> SUFFICES ASSUME Init PROVE IInv
  OBVIOUS
<1>1. TypeOK
  BY DEF Init, TypeOK, DialStates
<1>2. LockInv
  BY ClosersAssumption DEF Init, LockInv
<1>3. KeyInv /\ CacheInv /\ HeldInv /\ ReturnedInv
  BY DEF Init, KeyInv, CacheInv, HeldInv, ReturnedInv
<1>4. NoLeak /\ OneConnPerTarget
  BY DEF Init, NoLeak, OneConnPerTarget
<1>5. QED
  BY <1>1, <1>2, <1>3, <1>4 DEF IInv

-----------------------------------------------------------------------------
(* Each step preserves it.                                                 *)

LEMMA DialBeginsInv ==
    ASSUME IInv, NEW p \in Callers, NEW n \in Names, DialBegins(p, n)
    PROVE  IInv'
<1> USE DEF IInv, DialBegins, Goto, closeVars
<1>1. Target[n] \in Keys
  BY NamesAssumption
<1>2. TypeOK'
  BY <1>1 DEF TypeOK, DialStates
<1>3. KeyInv' /\ LockInv' /\ CacheInv'
  BY <1>1 DEF TypeOK, DialStates, KeyInv, LockInv, CacheInv
<1>4. HeldInv' /\ ReturnedInv' /\ NoLeak' /\ OneConnPerTarget'
  BY <1>1 DEF TypeOK, DialStates, HeldInv, ReturnedInv, NoLeak, OneConnPerTarget
<1>5. QED
  BY <1>2, <1>3, <1>4

\* What a dial returns with, if it returns: an error, or what the cache has for it.
LEMMA LookUpInv ==
    ASSUME IInv, NEW p \in Callers, NEW next \in {"slow", "dial"}, pc[p] \in {"fast", "slow"},
           LookUp(p, next)
    PROVE  IInv'
<1> USE DEF IInv, LookUp, Goto, Return, closeVars
<1>1. key[p] \in Keys /\ conns[key[p]] \in Conns \cup {NoConn}
  BY DEF KeyInv, TypeOK
<1>2. TypeOK'
  BY <1>1 DEF TypeOK, DialStates
<1>3. KeyInv' /\ LockInv' /\ CacheInv'
  BY <1>1 DEF TypeOK, DialStates, KeyInv, LockInv, CacheInv
<1>4. HeldInv' /\ NoLeak'
  BY <1>1 DEF TypeOK, DialStates, HeldInv, NoLeak
<1>5. ReturnedInv'
  BY <1>1, ConnsAssumption DEF TypeOK, DialStates, ReturnedInv, CacheInv
<1>6. OneConnPerTarget'
  BY <1>1, ConnsAssumption DEF TypeOK, DialStates, ReturnedInv, OneConnPerTarget
<1>7. QED
  BY <1>2, <1>3, <1>4, <1>5, <1>6

LEMMA DialSucceedsInv ==
    ASSUME IInv, NEW p \in Callers, NEW c \in Conns, DialSucceeds(p, c)
    PROVE  IInv'
<1> USE DEF IInv, DialSucceeds, Goto, closeVars
<1>1. c \notin published /\ \A k \in Keys : conns[k] # c
  BY ConnsAssumption DEF CacheInv
<1>2. TypeOK'
  BY DEF TypeOK, DialStates
<1>3. KeyInv' /\ LockInv' /\ CacheInv'
  BY <1>1 DEF TypeOK, DialStates, KeyInv, LockInv, CacheInv
<1>4. HeldInv'
  BY <1>1 DEF TypeOK, DialStates, HeldInv
<1>5. NoLeak'
  BY <1>1 DEF TypeOK, DialStates, NoLeak
<1>6. ReturnedInv' /\ OneConnPerTarget'
  BY <1>1 DEF TypeOK, DialStates, ReturnedInv, OneConnPerTarget
<1>7. QED
  BY <1>2, <1>3, <1>4, <1>5, <1>6

LEMMA DialFailsInv ==
    ASSUME IInv, NEW p \in Callers, DialFails(p)
    PROVE  IInv'
<1> USE DEF IInv, DialFails, Goto, Return, closeVars
<1>1. TypeOK'
  BY DEF TypeOK, DialStates
<1>2. KeyInv' /\ LockInv' /\ CacheInv'
  BY DEF TypeOK, DialStates, KeyInv, LockInv, CacheInv
<1>3. HeldInv' /\ NoLeak'
  BY DEF TypeOK, DialStates, HeldInv, NoLeak
<1>4. ReturnedInv' /\ OneConnPerTarget'
  BY ConnsAssumption DEF TypeOK, DialStates, ReturnedInv, OneConnPerTarget
<1>5. QED
  BY <1>1, <1>2, <1>3, <1>4

\* The new connection is closed again, and the answer is an error or the cached one.
LEMMA PublishLosesInv ==
    ASSUME IInv, NEW p \in Callers, NEW answer, Publish(p), CloseNew(p), Return(p, answer),
           \/ closed /\ answer = ClosedErr
           \/ ~closed /\ conns[key[p]] # NoConn /\ answer = conns[key[p]]
    PROVE  IInv'
<1> USE DEF IInv
<1> DEFINE c == held[p]
<1>1. /\ pc[p] = "publish"
      /\ UNCHANGED <<closed, mu, key, closeVars>>
      /\ UNCHANGED <<conns, published>>
      /\ connState' = [connState EXCEPT ![c] = "closed"]
      /\ pc' = [pc EXCEPT ![p] = "returned"]
      /\ held' = [held EXCEPT ![p] = answer]
  BY DEF Publish, CloseNew, Return, Goto
<1>2. /\ key[p] \in Keys /\ conns[key[p]] \in Conns \cup {NoConn}
      /\ c \in Conns /\ c \notin published
      /\ \A k \in Keys : conns[k] # c
      /\ answer \in Conns \cup {ClosedErr}
      /\ answer \in Conns => answer \in published /\ ~closed /\ answer = conns[key[p]]
  BY <1>1, ConnsAssumption DEF KeyInv, TypeOK, HeldInv, CacheInv
<1> HIDE DEF c
<1>3. TypeOK'
  BY <1>1, <1>2 DEF TypeOK, DialStates, closeVars
<1>4. KeyInv' /\ LockInv' /\ CacheInv'
  BY <1>1, <1>2 DEF TypeOK, DialStates, KeyInv, LockInv, CacheInv, closeVars
<1>5. HeldInv' /\ NoLeak'
  <2>1. \A q \in Callers : pc'[q] = "publish" => q # p /\ pc[q] = "publish" /\ held'[q] = held[q]
                            /\ held[q] # c
    BY <1>1 DEF TypeOK, HeldInv, c
  <2>2. \A d \in Conns : connState'[d] = IF d = c THEN "closed" ELSE connState[d]
    BY <1>1, <1>2 DEF TypeOK
  <2>3. HeldInv'
    BY <1>1, <2>1, <2>2 DEF HeldInv
  <2>4. NoLeak'
    <3> SUFFICES ASSUME NEW d \in Conns, connState'[d] = "open",
                        \A k \in Keys : conns'[k] # d
                 PROVE  \E q \in Callers : pc'[q] = "publish" /\ held'[q] = d
      BY DEF NoLeak
    <3>1. d # c /\ connState[d] = "open"
      BY <2>2
    <3>2. PICK q \in Callers : pc[q] = "publish" /\ held[q] = d
      BY <1>1, <3>1 DEF NoLeak
    <3>3. QED
      BY <1>1, <3>1, <3>2 DEF TypeOK, c
  <2>5. QED
    BY <2>3, <2>4
<1>6. ReturnedInv'
  BY <1>1, <1>2 DEF TypeOK, DialStates, ReturnedInv, closeVars
<1>7. OneConnPerTarget'
  BY <1>1, <1>2 DEF TypeOK, DialStates, ReturnedInv, OneConnPerTarget, closeVars
<1>8. QED
  BY <1>3, <1>4, <1>5, <1>6, <1>7

\* The new connection becomes the one for its target.
LEMMA StoreInv ==
    ASSUME IInv, NEW p \in Callers, Publish(p), ~closed, conns[key[p]] = NoConn, Store(p)
    PROVE  IInv'
<1> USE DEF IInv
<1>1. /\ pc[p] = "publish"
      /\ UNCHANGED <<closed, mu, key, closeVars, connState>>
      /\ conns' = [conns EXCEPT ![key[p]] = held[p]]
      /\ published' = published \cup {held[p]}
      /\ pc' = [pc EXCEPT ![p] = "returned"]
      /\ held' = [held EXCEPT ![p] = held[p]]
  BY DEF Publish, Store, Return, Goto
<1>2. PICK c \in Conns, k \in Keys :
        /\ c = held[p] /\ k = key[p]
        /\ c \notin published /\ connState[c] = "open"
        /\ \A m \in Keys : conns[m] # c
  BY <1>1, ConnsAssumption DEF KeyInv, TypeOK, HeldInv, CacheInv
<1>3. /\ conns' = [conns EXCEPT ![k] = c]
      /\ published' = published \cup {c}
      /\ held' = held
  BY <1>1, <1>2 DEF TypeOK
<1>4. TypeOK'
  BY <1>1, <1>2, <1>3 DEF TypeOK, DialStates, closeVars
<1>5. KeyInv' /\ LockInv'
  BY <1>1, <1>2, <1>3 DEF TypeOK, DialStates, KeyInv, LockInv, closeVars
<1>6. CacheInv'
  BY <1>1, <1>2, <1>3 DEF TypeOK, CacheInv
<1>7. HeldInv'
  BY <1>1, <1>2, <1>3 DEF TypeOK, HeldInv
<1>8. NoLeak'
  <2> SUFFICES ASSUME NEW d \in Conns, connState[d] = "open", \A m \in Keys : conns'[m] # d
               PROVE  \E q \in Callers : pc'[q] = "publish" /\ held'[q] = d
    BY <1>1 DEF NoLeak
  <2>1. d # c /\ \A m \in Keys : conns[m] # d
    BY <1>1, <1>2, <1>3, ConnsAssumption DEF TypeOK
  <2>2. PICK q \in Callers : pc[q] = "publish" /\ held[q] = d
    BY <2>1 DEF NoLeak
  <2>3. QED
    BY <1>1, <1>2, <1>3, <2>1, <2>2 DEF TypeOK
<1>9. ReturnedInv'
  BY <1>1, <1>2, <1>3, ConnsAssumption DEF TypeOK, ReturnedInv, KeyInv
<1>10. OneConnPerTarget'
  BY <1>1, <1>2, <1>3, ConnsAssumption DEF TypeOK, ReturnedInv, OneConnPerTarget
<1>11. QED
  BY <1>4, <1>5, <1>6, <1>7, <1>8, <1>9, <1>10

LEMMA PublishInv ==
    ASSUME IInv, NEW p \in Callers, Publish(p)
    PROVE  IInv'
<1>1. CASE closed /\ CloseNew(p) /\ Return(p, ClosedErr)
  BY <1>1, PublishLosesInv
<1>2. CASE ~closed /\ conns[key[p]] # NoConn /\ CloseNew(p) /\ Return(p, conns[key[p]])
  BY <1>2, PublishLosesInv
<1>3. CASE ~closed /\ conns[key[p]] = NoConn /\ Store(p)
  BY <1>3, StoreInv
<1>4. QED
  BY <1>1, <1>2, <1>3 DEF Publish

LEMMA CallerMovesOnInv ==
    ASSUME IInv, NEW p \in Callers, CallerMovesOn(p)
    PROVE  IInv'
<1> USE DEF IInv, CallerMovesOn, Goto, closeVars
<1>1. TypeOK'
  BY DEF TypeOK, DialStates
<1>2. KeyInv' /\ LockInv' /\ CacheInv'
  BY DEF TypeOK, DialStates, KeyInv, LockInv, CacheInv
<1>3. HeldInv' /\ NoLeak'
  BY DEF TypeOK, DialStates, HeldInv, NoLeak
<1>4. ReturnedInv' /\ OneConnPerTarget'
  BY DEF TypeOK, DialStates, ReturnedInv, OneConnPerTarget
<1>5. QED
  BY <1>1, <1>2, <1>3, <1>4

LEMMA CloseBeginsInv ==
    ASSUME IInv, NEW x \in Closers, CloseBegins(x)
    PROVE  IInv'
<1> USE DEF IInv, CloseBegins, dialVars
<1>1. TypeOK'
  BY DEF TypeOK
<1>2. LockInv'
  BY ClosersAssumption DEF TypeOK, LockInv
<1>3. KeyInv' /\ CacheInv' /\ HeldInv' /\ ReturnedInv' /\ NoLeak' /\ OneConnPerTarget'
  BY DEF KeyInv, CacheInv, HeldInv, ReturnedInv, NoLeak, OneConnPerTarget
<1>4. QED
  BY <1>1, <1>2, <1>3

LEMMA CloseAgainInv ==
    ASSUME IInv, NEW x \in Closers, CloseAgain(x)
    PROVE  IInv'
<1> USE DEF IInv, CloseAgain, dialVars
<1>1. TypeOK'
  BY DEF TypeOK
<1>2. LockInv'
  BY ClosersAssumption DEF TypeOK, LockInv
<1>3. KeyInv' /\ CacheInv' /\ HeldInv' /\ ReturnedInv' /\ NoLeak' /\ OneConnPerTarget'
  BY DEF KeyInv, CacheInv, HeldInv, ReturnedInv, NoLeak, OneConnPerTarget
<1>4. QED
  BY <1>1, <1>2, <1>3

LEMMA CloseConnInv ==
    ASSUME IInv, NEW x \in Closers, NEW k \in Keys, CloseConn(x, k)
    PROVE  IInv'
<1> USE DEF IInv
<1>1. PICK c \in Conns :
        /\ c = conns[k] /\ c \in published
        /\ connState' = [connState EXCEPT ![c] = "closed"]
        /\ conns' = [conns EXCEPT ![k] = NoConn]
        /\ \A m \in Keys : conns[m] = c => m = k
  BY DEF CloseConn, TypeOK, CacheInv
<1>2. /\ closePc[x] = "closing" /\ mu = x /\ closed
      /\ UNCHANGED <<closed, mu, published, dialVars, closePc>>
      /\ closeErr' \in [Closers -> BOOLEAN]
  BY DEF CloseConn, LockInv, TypeOK
<1>3. TypeOK'
  BY <1>1, <1>2 DEF TypeOK, dialVars
<1>4. KeyInv' /\ LockInv'
  BY <1>1, <1>2, ClosersAssumption DEF TypeOK, KeyInv, LockInv, dialVars
<1>5. CacheInv'
  BY <1>1, <1>2, ConnsAssumption DEF TypeOK, CacheInv
<1>6. HeldInv'
  BY <1>1, <1>2 DEF TypeOK, HeldInv, dialVars
<1>7. NoLeak'
  BY <1>1, <1>2 DEF TypeOK, NoLeak, dialVars
<1>8. ReturnedInv' /\ OneConnPerTarget'
  BY <1>2 DEF ReturnedInv, OneConnPerTarget, dialVars
<1>9. QED
  BY <1>3, <1>4, <1>5, <1>6, <1>7, <1>8

LEMMA CloseReturnsInv ==
    ASSUME IInv, NEW x \in Closers, CloseReturns(x)
    PROVE  IInv'
<1> USE DEF IInv, CloseReturns, dialVars
<1>1. TypeOK'
  BY DEF TypeOK
<1>2. LockInv'
  BY ClosersAssumption DEF TypeOK, LockInv
<1>3. KeyInv' /\ CacheInv' /\ HeldInv' /\ ReturnedInv' /\ NoLeak' /\ OneConnPerTarget'
  BY DEF KeyInv, CacheInv, HeldInv, ReturnedInv, NoLeak, OneConnPerTarget
<1>4. QED
  BY <1>1, <1>2, <1>3

LEMMA NextInv == IInv /\ [Next]_vars => IInv'
<1> SUFFICES ASSUME IInv, [Next]_vars PROVE IInv'
  OBVIOUS
<1>1. ASSUME NEW p \in Callers, NEW n \in Names, DialBegins(p, n) PROVE IInv'
  BY <1>1, DialBeginsInv
<1>2. ASSUME NEW p \in Callers, DialProceeds(p) PROVE IInv'
  <2>1. CASE LookUpShared(p)
    BY <2>1, LookUpInv DEF LookUpShared
  <2>2. CASE LookUpExclusive(p)
    BY <2>2, LookUpInv DEF LookUpExclusive
  <2>3. CASE \E c \in Conns : DialSucceeds(p, c)
    BY <2>3, DialSucceedsInv
  <2>4. CASE DialFails(p) \/ Publish(p)
    BY <2>4, DialFailsInv, PublishInv
  <2>5. QED
    BY <1>2, <2>1, <2>2, <2>3, <2>4 DEF DialProceeds
<1>3. ASSUME NEW p \in Callers, CallerMovesOn(p) PROVE IInv'
  BY <1>3, CallerMovesOnInv
<1>4. ASSUME NEW x \in Closers, CloseProceeds(x) PROVE IInv'
  BY <1>4, CloseBeginsInv, CloseAgainInv, CloseConnInv, CloseReturnsInv
  DEF CloseProceeds
<1>5. CASE UNCHANGED vars
  BY <1>5 DEF vars, IInv, TypeOK, KeyInv, LockInv, CacheInv, HeldInv, ReturnedInv, NoLeak,
              OneConnPerTarget
<1>6. QED
  BY <1>1, <1>2, <1>3, <1>4, <1>5 DEF Next

THEOREM Invariant == Spec => []IInv
<1>1. Init => IInv
  BY InitInv
<1>2. IInv /\ [Next]_vars => IInv'
  BY NextInv
<1>3. QED
  BY <1>1, <1>2, PTL DEF Spec

\* Every variable of the connection manager keeps its type.
THEOREM TypeCorrect == Spec => []TypeOK
<1>1. IInv => TypeOK
  BY DEF IInv
<1>2. QED
  BY <1>1, Invariant, PTL

\* No open connection is ever lost: it is in the cache, or in the hands of the dial that
\* made it (the closing of losers in Dial, and Close).
THEOREM NothingLeaks == Spec => []NoLeak
<1>1. IInv => NoLeak
  BY DEF IInv
<1>2. QED
  BY <1>1, Invariant, PTL

\* Whatever callers got for one target is one connection (Dial's documentation).
THEOREM OnePerTarget == Spec => []OneConnPerTarget
<1>1. IInv => OneConnPerTarget
  BY DEF IInv
<1>2. QED
  BY <1>1, Invariant, PTL

\* What a caller holds is open as long as the manager is (the loser of a dial race
\* returns the winner's connection).
THEOREM HandedOut == Spec => []HandedOutOpen
<1>1. IInv => HandedOutOpen
  BY ConnsAssumption
  DEF IInv, ReturnedInv, KeyInv, CacheInv, HandedOutOpen
<1>2. QED
  BY <1>1, Invariant, PTL

\* After a Close that returned, nothing that was ever cached is open (Close goes on after
\* an error, and Dial looks at closed again before it publishes).
THEOREM CloseIsFinal == Spec => []ClosedMeansClosed
<1>1. IInv => ClosedMeansClosed
  <2> SUFFICES ASSUME IInv, NEW x \in Closers, closePc[x] = "returned"
               PROVE  /\ closed
                      /\ \A k \in Keys : conns[k] = NoConn
                      /\ \A c \in published : connState[c] = "closed"
    BY DEF ClosedMeansClosed
  <2>1. closed /\ \A k \in Keys : conns[k] = NoConn
    BY DEF IInv, LockInv
  <2>2. ASSUME NEW c \in published PROVE connState[c] = "closed"
    <3>1. c \in Conns /\ connState[c] \in {"open", "closed"}
      BY <2>2 DEF IInv, TypeOK, CacheInv
    <3>2. connState[c] # "open"
      BY <2>1, <2>2, <3>1, ConnsAssumption DEF IInv, NoLeak, HeldInv
    <3>3. QED
      BY <3>1, <3>2
  <2>3. QED
    BY <2>1, <2>2
<1>2. QED
  BY <1>1, Invariant, PTL

-----------------------------------------------------------------------------
(* The atomic pool.                                                        *)

\* How the view of the calls follows the place of one call.
LEMMA ViewOfCall ==
    ASSUME NEW p \in Callers
    PROVE  /\ pc[p] = "idle" => callView[p] = Pool!Idle
           /\ pc[p] = "returned" => callView[p] = Pool!Answered(key[p], held[p])
           /\ pc[p] \notin {"idle", "returned"} => callView[p] = Pool!Pending(key[p])
BY DEF callView, Pool!Idle, Pool!Answered, Pool!Pending

\* A step of one dial changes that call's view only.
LEMMA ViewOfStep ==
    ASSUME NEW p \in Callers, NEW v,
           callView'[p] = v,
           \A q \in Callers \ {p} :
              pc'[q] = pc[q] /\ key'[q] = key[q] /\ held'[q] = held[q]
    PROVE  callView' = [callView EXCEPT ![p] = v]
<1>1. \A q \in Callers \ {p} : callView'[q] = callView[q]
  BY DEF callView
<1>2. callView' = [q \in Callers |-> callView'[q]] /\ callView = [q \in Callers |-> callView[q]]
  BY DEF callView
<1>3. QED
  BY <1>1, <1>2

\* While the manager is open the pool's view is the cache; from Close on it is empty.
LEMMA ViewOfPool ==
    ASSUME NEW k \in Keys
    PROVE  poolView[k] = IF closed THEN NoConn ELSE conns[k]
BY DEF poolView

LEMMA InitView == Init => Pool!Init
BY DEF Init, Pool!Init, Pool!Idle, poolView, callView

LEMMA DialBeginsView ==
    ASSUME IInv, NEW p \in Callers, NEW n \in Names, DialBegins(p, n)
    PROVE  Pool!Ask(p, Target[n])
<1>1. TypeOK /\ pc[p] = "idle"
  BY DEF IInv, DialBegins
<1>2. /\ pc' = [pc EXCEPT ![p] = "fast"]
      /\ key' = [key EXCEPT ![p] = Target[n]]
      /\ held' = [held EXCEPT ![p] = held[p]]
  BY <1>1 DEF DialBegins, Goto, TypeOK
<1>3. callView' = [callView EXCEPT ![p] = Pool!Pending(Target[n])]
  <2>1. callView'[p] = Pool!Pending(Target[n])
    BY <1>1, <1>2 DEF TypeOK, callView, Pool!Pending
  <2>2. QED
    BY <1>1, <1>2, <2>1, ViewOfStep DEF TypeOK
<1>4. UNCHANGED <<poolView, closed, published>>
  BY DEF DialBegins, poolView
<1>5. callView[p] = Pool!Idle
  BY <1>1, ViewOfCall
<1>6. QED
  BY <1>3, <1>4, <1>5 DEF Pool!Ask

\* A dial that returns answers its call; a dial that goes on changes no view.
LEMMA ReturnView ==
    ASSUME IInv, NEW p \in Callers, pc[p] \notin {"idle", "returned"}, NEW a,
           Return(p, a), key' = key
    PROVE  /\ callView[p] = Pool!Pending(key[p])
           /\ callView' = [callView EXCEPT ![p] = Pool!Answered(key[p], a)]
           /\ key[p] \in Keys
<1>1. TypeOK /\ key[p] \in Keys
  BY DEF IInv, KeyInv
<1>2. /\ pc' = [pc EXCEPT ![p] = "returned"]
      /\ key' = [key EXCEPT ![p] = key[p]]
      /\ held' = [held EXCEPT ![p] = a]
  BY <1>1 DEF Return, Goto, TypeOK
<1>3. callView' = [callView EXCEPT ![p] = Pool!Answered(key[p], a)]
  <2>1. callView'[p] = Pool!Answered(key[p], a)
    BY <1>1, <1>2 DEF TypeOK, callView, Pool!Answered
  <2>2. QED
    BY <1>1, <1>2, <2>1, ViewOfStep DEF TypeOK
<1>4. callView[p] = Pool!Pending(key[p])
  BY ViewOfCall
<1>5. QED
  BY <1>1, <1>3, <1>4

LEMMA GoOnView ==
    ASSUME IInv, NEW p \in Callers, pc[p] \notin {"idle", "returned"},
           NEW s \in {"slow", "dial", "publish"}, Goto(p, s), key' = key,
           NEW h, held' = [held EXCEPT ![p] = h]
    PROVE  callView' = callView
<1>1. TypeOK
  BY DEF IInv
<1>2. /\ pc' = [pc EXCEPT ![p] = s]
      /\ key' = [key EXCEPT ![p] = key[p]]
  BY <1>1 DEF Goto, TypeOK
<1>3. callView' = [callView EXCEPT ![p] = Pool!Pending(key[p])]
  <2>1. callView'[p] = Pool!Pending(key[p])
    BY <1>1, <1>2 DEF TypeOK, callView, Pool!Pending
  <2>2. QED
    BY <1>1, <1>2, <2>1, ViewOfStep DEF TypeOK
<1>4. callView[p] = Pool!Pending(key[p])
  BY ViewOfCall
<1>5. callView = [q \in Callers |-> callView[q]]
  BY DEF callView
<1>6. QED
  BY <1>3, <1>4, <1>5

\* The pool's answer to a call: closed, or the connection it has.
LEMMA AnswerView ==
    ASSUME IInv, NEW p \in Callers, pc[p] \notin {"idle", "returned"}, NEW a,
           Return(p, a), UNCHANGED <<key, conns, closed, published>>,
           \/ closed /\ a = ClosedErr
           \/ ~closed /\ conns[key[p]] # NoConn /\ a = conns[key[p]]
           \/ a = Failed
    PROVE  Pool!Next
<1>1. /\ callView[p] = Pool!Pending(key[p])
      /\ callView' = [callView EXCEPT ![p] = Pool!Answered(key[p], a)]
      /\ key[p] \in Keys
  BY ReturnView
<1>2. UNCHANGED <<poolView, closed, published>>
  BY DEF poolView
<1>3. poolView[key[p]] = IF closed THEN NoConn ELSE conns[key[p]]
  BY <1>1, ViewOfPool
<1>4. \/ Pool!Refuse(p, key[p]) \/ Pool!Reuse(p, key[p]) \/ Pool!Fail(p, key[p])
  BY <1>1, <1>2, <1>3 DEF Pool!Refuse, Pool!Reuse, Pool!Fail
<1>5. QED
  BY <1>1, <1>4 DEF Pool!Next

LEMMA LookUpView ==
    ASSUME IInv, NEW p \in Callers, NEW next \in {"slow", "dial"},
           pc[p] \in {"fast", "slow"}, LookUp(p, next)
    PROVE  [Pool!Next]_Pool!vars
<1>1. UNCHANGED <<key, conns, closed, published>>
  BY DEF LookUp
<1>2. CASE \/ closed /\ Return(p, ClosedErr)
           \/ ~closed /\ conns[key[p]] # NoConn /\ Return(p, conns[key[p]])
  BY <1>1, <1>2, AnswerView
<1>3. CASE Goto(p, next) /\ UNCHANGED held
  <2>1. held' = [held EXCEPT ![p] = held[p]]
    BY <1>3 DEF IInv, TypeOK
  <2>2. callView' = callView
    BY <1>1, <1>3, <2>1, GoOnView
  <2>3. poolView' = poolView
    BY <1>1 DEF poolView
  <2>4. QED
    BY <1>1, <2>2, <2>3 DEF Pool!vars
<1>4. QED
  BY <1>2, <1>3 DEF LookUp

LEMMA DialSucceedsView ==
    ASSUME IInv, NEW p \in Callers, NEW c \in Conns, DialSucceeds(p, c)
    PROVE  UNCHANGED Pool!vars
<1>1. callView' = callView
  BY GoOnView DEF DialSucceeds
<1>2. UNCHANGED <<poolView, closed, published>>
  BY DEF DialSucceeds, poolView
<1>3. QED
  BY <1>1, <1>2 DEF Pool!vars

LEMMA PublishView ==
    ASSUME IInv, NEW p \in Callers, Publish(p)
    PROVE  Pool!Next
<1>1. pc[p] = "publish" /\ key' = key /\ closed' = closed
  BY DEF Publish
<1>2. CASE \/ closed /\ CloseNew(p) /\ Return(p, ClosedErr)
           \/ ~closed /\ conns[key[p]] # NoConn /\ CloseNew(p) /\ Return(p, conns[key[p]])
  BY <1>1, <1>2, AnswerView DEF CloseNew
<1>3. CASE ~closed /\ conns[key[p]] = NoConn /\ Store(p)
  <2>1. /\ callView[p] = Pool!Pending(key[p])
        /\ callView' = [callView EXCEPT ![p] = Pool!Answered(key[p], held[p])]
        /\ key[p] \in Keys
    BY <1>1, <1>3, ReturnView DEF Store
  <2>2. poolView[key[p]] = NoConn
    BY <1>3, <2>1, ViewOfPool
  <2>3. poolView' = [poolView EXCEPT ![key[p]] = held[p]]
    BY <1>1, <1>3, <2>1 DEF Store, poolView, IInv, TypeOK
  <2>4. held[p] \in Conns /\ held[p] \notin published
    BY <1>1 DEF IInv, HeldInv
  <2>5. Pool!Create(p, key[p], held[p])
    BY <1>1, <1>3, <2>1, <2>2, <2>3, <2>4 DEF Pool!Create, Store
  <2>6. QED
    BY <2>1, <2>4, <2>5 DEF Pool!Next
<1>4. QED
  BY <1>2, <1>3 DEF Publish

LEMMA CallerMovesOnView ==
    ASSUME IInv, NEW p \in Callers, CallerMovesOn(p)
    PROVE  Pool!Forget(p)
<1>1. TypeOK /\ pc[p] = "returned"
  BY DEF IInv, CallerMovesOn
<1>2. callView' = [callView EXCEPT ![p] = Pool!Idle]
  <2>1. callView'[p] = Pool!Idle
    BY <1>1 DEF TypeOK, callView, Pool!Idle, CallerMovesOn, Goto
  <2>2. QED
    BY <1>1, <2>1, ViewOfStep DEF TypeOK, CallerMovesOn, Goto
<1>3. UNCHANGED <<poolView, closed, published>>
  BY DEF CallerMovesOn, poolView
<1>4. held[p] \notin {"none", "pending"}
  BY <1>1, ConnsAssumption DEF IInv, ReturnedInv
<1>5. callView[p].answer = held[p]
  <2>1. callView[p] = Pool!Answered(key[p], held[p])
    BY <1>1, ViewOfCall
  <2>2. QED
    BY <2>1 DEF Pool!Answered
<1>6. QED
  BY <1>2, <1>3, <1>4, <1>5 DEF Pool!Forget

\* Close empties the pool at once; what it does afterwards is not seen.
LEMMA CloseView ==
    ASSUME IInv, NEW x \in Closers, CloseProceeds(x)
    PROVE  [Pool!Next]_Pool!vars
<1>1. UNCHANGED <<published, callView>>
  BY DEF CloseProceeds, CloseBegins, CloseAgain, CloseConn, CloseReturns, dialVars, callView
<1>2. CASE CloseBegins(x)
  <2>1. poolView' = [k \in Keys |-> NoConn]
    BY <1>2 DEF CloseBegins, poolView
  <2>2. Pool!Close
    BY <1>1, <1>2, <2>1 DEF CloseBegins, Pool!Close
  <2>3. QED
    BY <2>2 DEF Pool!Next
<1>3. CASE CloseAgain(x) \/ CloseReturns(x)
  <2>1. UNCHANGED <<poolView, closed>>
    BY <1>3 DEF CloseAgain, CloseReturns, poolView
  <2>2. QED
    BY <1>1, <2>1 DEF Pool!vars
<1>4. CASE \E k \in Keys : CloseConn(x, k)
  <2>1. closed /\ closed' = closed
    BY <1>4 DEF CloseConn, IInv, LockInv
  <2>2. poolView' = poolView
    BY <2>1 DEF poolView
  <2>3. QED
    BY <1>1, <2>1, <2>2 DEF Pool!vars
<1>5. QED
  BY <1>2, <1>3, <1>4 DEF CloseProceeds

LEMMA StepView == IInv /\ [Next]_vars => [Pool!Next]_Pool!vars
<1> SUFFICES ASSUME IInv, [Next]_vars PROVE [Pool!Next]_Pool!vars
  OBVIOUS
<1>1. ASSUME NEW p \in Callers, NEW n \in Names, DialBegins(p, n)
      PROVE  [Pool!Next]_Pool!vars
  <2>1. Target[n] \in Keys
    BY <1>1, NamesAssumption DEF DialBegins
  <2>2. QED
    BY <1>1, <2>1, DialBeginsView DEF Pool!Next
<1>2. ASSUME NEW p \in Callers, DialProceeds(p) PROVE [Pool!Next]_Pool!vars
  <2>1. CASE LookUpShared(p) \/ LookUpExclusive(p)
    BY <2>1, LookUpView DEF LookUpShared, LookUpExclusive
  <2>2. CASE \E c \in Conns : DialSucceeds(p, c)
    BY <2>2, DialSucceedsView
  <2>3. CASE DialFails(p)
    BY <2>3, AnswerView DEF DialFails
  <2>4. CASE Publish(p)
    BY <2>4, PublishView
  <2>5. QED
    BY <1>2, <2>1, <2>2, <2>3, <2>4 DEF DialProceeds
<1>3. ASSUME NEW p \in Callers, CallerMovesOn(p) PROVE [Pool!Next]_Pool!vars
  BY <1>3, CallerMovesOnView DEF Pool!Next
<1>4. ASSUME NEW x \in Closers, CloseProceeds(x) PROVE [Pool!Next]_Pool!vars
  BY <1>4, CloseView
<1>5. CASE UNCHANGED vars
  BY <1>5 DEF vars, Pool!vars, poolView, callView
<1>6. QED
  BY <1>1, <1>2, <1>3, <1>4, <1>5 DEF Next

\* Dial and Close, with their locks and their dials outside the lock, do nothing that an
\* atomic pool would not do.
THEOREM Implementation == Spec => ImplementsPool
<1>1. Init => Pool!Init
  BY InitView
<1>2. IInv /\ [Next]_vars => [Pool!Next]_Pool!vars
  BY StepView
<1>3. QED
  BY <1>1, <1>2, Invariant, PTL DEF Spec, ImplementsPool, Pool!Spec
=============================================================================
