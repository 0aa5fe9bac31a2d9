-------------------------- MODULE ConnectionManager --------------------------
(***************************************************************************)
(* invocation/manager.go: Dial looks a target up under the read lock, then *)
(* again under the write lock, dials outside the lock, and locks once more *)
(* to publish what it got, unless the manager was closed or another dial   *)
(* was faster.  Close holds the write lock while it walks the map.         *)
(*                                                                         *)
(* A critical section of Dial is one step.  Close is several, since        *)
(* closing a connection takes time and is visible to those who use it.     *)
(***************************************************************************)
EXTENDS FiniteSets

CONSTANTS
    Callers,         \* goroutines that call Dial
    Closers,         \* goroutines that call Close
    Names,           \* DNS descriptions, as callers write them
    Keys,            \* final gRPC targets, the cache keys
    Target,          \* what DNSManager.Build makes of a name: a key or NoKey
    NoKey,           \* Build returned an error
    Conns,           \* connections a run may create
    NoTarget,        \* the key of a caller that has no call
    NoConn,
    Failed,          \* Dial returned Build's or dialFunc's error
    ClosedErr        \* Dial returned ErrConnectionManagerClosed

ASSUME NamesAssumption ==
    /\ Target \in [Names -> Keys \cup {NoKey}]
    /\ NoKey \notin Keys

ASSUME ConnsAssumption ==
    /\ NoConn \notin Conns
    /\ {Failed, ClosedErr, NoConn} \cap Conns = {}
    /\ Failed # ClosedErr /\ NoConn \notin {Failed, ClosedErr}
    /\ {"none", "pending"} \cap (Conns \cup {Failed, ClosedErr, NoConn}) = {}

ASSUME ClosersAssumption == "free" \notin Closers

VARIABLES
    conns,           \* the cache
    closed,
    mu,              \* the closer that holds the write lock across steps, or "free"
    connState,       \* of each connection: "unborn", "open", "closed"
    published,       \* connections that were ever stored in conns
    pc, key, held,   \* of each Dial call: place, cache key, connection or answer
    closePc,         \* of each Close call
    closeErr         \* whether a Close call has seen a connection fail to close

dialVars == <<pc, key, held>>
closeVars == <<closePc, closeErr>>
vars == <<conns, closed, mu, connState, published, pc, key, held, closePc,
          closeErr>>

DialStates == {"idle", "fast", "slow", "dial", "publish", "returned"}

TypeOK ==
    /\ conns \in [Keys -> Conns \cup {NoConn}]
    /\ closed \in BOOLEAN
    /\ mu \in Closers \cup {"free"}
    /\ connState \in [Conns -> {"unborn", "open", "closed"}]
    /\ published \subseteq Conns
    /\ pc \in [Callers -> DialStates]
    /\ key \in [Callers -> Keys \cup {NoTarget}]
    /\ held \in [Callers -> Conns \cup {NoConn, Failed, ClosedErr}]
    /\ closePc \in [Closers -> {"ready", "closing", "returned"}]
    /\ closeErr \in [Closers -> BOOLEAN]

Init ==
    /\ conns = [k \in Keys |-> NoConn]
    /\ closed = FALSE
    /\ mu = "free"
    /\ connState = [c \in Conns |-> "unborn"]
    /\ published = {}
    /\ pc = [p \in Callers |-> "idle"]
    /\ key = [p \in Callers |-> NoTarget]
    /\ held = [p \in Callers |-> NoConn]
    /\ closePc = [x \in Closers |-> "ready"]
    /\ closeErr = [x \in Closers |-> FALSE]

-----------------------------------------------------------------------------
(* Dial.                                                                   *)

Goto(p, s) == pc' = [pc EXCEPT ![p] = s]

Return(p, answer) ==
    /\ Goto(p, "returned")
    /\ held' = [held EXCEPT ![p] = answer]

\* Mutant: the error of Build is not looked at.
DialBeginsUnresolved(p, n) ==
    /\ pc[p] = "idle"
    /\ Goto(p, "fast")
    /\ key' = [key EXCEPT ![p] = Target[n]]
    /\ UNCHANGED <<conns, closed, mu, connState, published, held, closeVars>>

\* Build resolves the name.  When it cannot, Dial returns before it locks: such a
\* call leaves nothing behind.
DialBegins(p, n) ==
    /\ pc[p] = "idle"
    /\ Target[n] # NoKey
    /\ Goto(p, "fast")
    /\ key' = [key EXCEPT ![p] = Target[n]]
    /\ UNCHANGED <<conns, closed, mu, connState, published, held, closeVars>>

\* The check both lock sections make: the answer is known, or the dial goes on.
LookUp(p, next) ==
    /\ mu = "free"
    /\ \/ /\ closed
          /\ Return(p, ClosedErr)
       \/ /\ ~closed
          /\ conns[key[p]] # NoConn
          /\ Return(p, conns[key[p]])
       \/ /\ ~closed
          /\ conns[key[p]] = NoConn
          /\ Goto(p, next)
          /\ UNCHANGED held
    /\ UNCHANGED <<conns, closed, mu, connState, published, key, closeVars>>

\* The fast path, under the read lock.
LookUpShared(p) == pc[p] = "fast" /\ LookUp(p, "slow")

\* The second check, under the write lock.
LookUpExclusive(p) == pc[p] = "slow" /\ LookUp(p, "dial")

\* dialFunc, outside the lock.
DialSucceeds(p, c) ==
    /\ pc[p] = "dial"
    /\ connState[c] = "unborn"
    /\ connState' = [connState EXCEPT ![c] = "open"]
    /\ held' = [held EXCEPT ![p] = c]
    /\ Goto(p, "publish")
    /\ UNCHANGED <<conns, closed, mu, published, key, closeVars>>

DialFails(p) ==
    /\ pc[p] = "dial"
    /\ Return(p, Failed)
    /\ UNCHANGED <<conns, closed, mu, connState, published, key, closeVars>>

Store(p) ==
    /\ conns' = [conns EXCEPT ![key[p]] = held[p]]
    /\ published' = published \cup {held[p]}
    /\ Return(p, held[p])
    /\ UNCHANGED connState

CloseNew(p) ==
    /\ connState' = [connState EXCEPT ![held[p]] = "closed"]
    /\ UNCHANGED <<conns, published>>

\* Mutant: the loser of a race leaves its connection open.
PublishLeaks(p) ==
    /\ pc[p] = "publish"
    /\ mu = "free"
    /\ \/ closed /\ CloseNew(p) /\ Return(p, ClosedErr)
       \/ /\ ~closed
          /\ conns[key[p]] # NoConn
          /\ Return(p, conns[key[p]])
          /\ UNCHANGED <<conns, published, connState>>
       \/ ~closed /\ conns[key[p]] = NoConn /\ Store(p)
    /\ UNCHANGED <<closed, mu, key, closeVars>>

\* Mutant: the loser of a race overwrites what the winner stored.
PublishOverwrites(p) ==
    /\ pc[p] = "publish"
    /\ mu = "free"
    /\ \/ closed /\ CloseNew(p) /\ Return(p, ClosedErr)
       \/ ~closed /\ Store(p)
    /\ UNCHANGED <<closed, mu, key, closeVars>>

\* Mutant: the loser of a race returns the connection it has just closed.
PublishReturnsLoser(p) ==
    /\ pc[p] = "publish"
    /\ mu = "free"
    /\ \/ closed /\ CloseNew(p) /\ Return(p, ClosedErr)
       \/ ~closed /\ conns[key[p]] # NoConn /\ CloseNew(p) /\ Return(p, held[p])
       \/ ~closed /\ conns[key[p]] = NoConn /\ Store(p)
    /\ UNCHANGED <<closed, mu, key, closeVars>>

\* Mutant: closed is not looked at again after the dial.
PublishAfterClose(p) ==
    /\ pc[p] = "publish"
    /\ mu = "free"
    /\ \/ conns[key[p]] # NoConn /\ CloseNew(p) /\ Return(p, conns[key[p]])
       \/ conns[key[p]] = NoConn /\ Store(p)
    /\ UNCHANGED <<closed, mu, key, closeVars>>

\* The last lock section: the new connection is published, or closed again.
Publish(p) ==
    /\ pc[p] = "publish"
    /\ mu = "free"
    /\ \/ closed /\ CloseNew(p) /\ Return(p, ClosedErr)
       \/ ~closed /\ conns[key[p]] # NoConn /\ CloseNew(p) /\ Return(p, conns[key[p]])
       \/ ~closed /\ conns[key[p]] = NoConn /\ Store(p)
    /\ UNCHANGED <<closed, mu, key, closeVars>>

\* The caller is done with the answer and may dial again.
CallerMovesOn(p) ==
    /\ pc[p] = "returned"
    /\ Goto(p, "idle")
    /\ key' = [key EXCEPT ![p] = NoTarget]
    /\ held' = [held EXCEPT ![p] = NoConn]
    /\ UNCHANGED <<conns, closed, mu, connState, published, closeVars>>

-----------------------------------------------------------------------------
(* Close.                                                                  *)

CloseBegins(x) ==
    /\ closePc[x] = "ready"
    /\ mu = "free"
    /\ ~closed
    /\ closed' = TRUE
    /\ mu' = x
    /\ closePc' = [closePc EXCEPT ![x] = "closing"]
    /\ UNCHANGED <<conns, connState, published, dialVars, closeErr>>

\* A later Close finds the manager closed.
CloseAgain(x) ==
    /\ closePc[x] = "ready"
    /\ mu = "free"
    /\ closed
    /\ closePc' = [closePc EXCEPT ![x] = "returned"]
    /\ UNCHANGED <<conns, closed, mu, connState, published, dialVars, closeErr>>

\* One turn of the loop over the map, in any order.  An error is kept and the
\* loop goes on.
CloseConn(x, k) ==
    /\ closePc[x] = "closing"
    /\ conns[k] # NoConn
    /\ connState' = [connState EXCEPT ![conns[k]] = "closed"]
    /\ conns' = [conns EXCEPT ![k] = NoConn]
    /\ \E failed \in BOOLEAN :
         closeErr' = [closeErr EXCEPT ![x] = closeErr[x] \/ failed]
    /\ UNCHANGED <<closed, mu, published, dialVars, closePc>>

\* Mutant: the loop stops at the first error.
CloseStopsAtError(x) ==
    /\ closePc[x] = "closing"
    /\ closeErr[x] \/ \A k \in Keys : conns[k] = NoConn
    /\ mu' = "free"
    /\ closePc' = [closePc EXCEPT ![x] = "returned"]
    /\ UNCHANGED <<conns, closed, connState, published, dialVars, closeErr>>

\* Mutant: Close returns without releasing the lock.
CloseKeepsLock(x) ==
    /\ closePc[x] = "closing"
    /\ \A k \in Keys : conns[k] = NoConn
    /\ closePc' = [closePc EXCEPT ![x] = "returned"]
    /\ UNCHANGED <<conns, closed, mu, connState, published, dialVars, closeErr>>

CloseReturns(x) ==
    /\ closePc[x] = "closing"
    /\ \A k \in Keys : conns[k] = NoConn
    /\ mu' = "free"
    /\ closePc' = [closePc EXCEPT ![x] = "returned"]
    /\ UNCHANGED <<conns, closed, connState, published, dialVars, closeErr>>

-----------------------------------------------------------------------------
DialProceeds(p) ==
    \/ LookUpShared(p)
    \/ LookUpExclusive(p)
    \/ \E c \in Conns : DialSucceeds(p, c)
    \/ DialFails(p)
    \/ Publish(p)

CloseProceeds(x) ==
    \/ CloseBegins(x)
    \/ CloseAgain(x)
    \/ \E k \in Keys : CloseConn(x, k)
    \/ CloseReturns(x)

Next ==
    \/ \E p \in Callers :
         \/ \E n \in Names : DialBegins(p, n)
         \/ DialProceeds(p)
         \/ CallerMovesOn(p)
    \/ \E x \in Closers : CloseProceeds(x)

Spec == Init /\ [][Next]_vars

\* A dial or a Close that has begun is scheduled until it returns: dialFunc and
\* conn.Close return.  Weak fairness is enough, since the write lock is held across
\* steps only once, by the Close that closes the manager.
Fairness ==
    /\ \A p \in Callers : WF_vars(DialProceeds(p))
    /\ \A x \in Closers : WF_vars(\/ \E k \in Keys : CloseConn(x, k)
                                  \/ CloseReturns(x))

FairSpec == Spec /\ Fairness

-----------------------------------------------------------------------------
(* Properties.                                                             *)

\* Every open connection is in the cache or in the hands of the dial that made it:
\* the loser of a race, and a dial that Close overtook, close what they got.
NoLeak ==
    \A c \in Conns : connState[c] = "open" =>
        \/ \E k \in Keys : conns[k] = c
        \/ \E p \in Callers : pc[p] = "publish" /\ held[p] = c

\* Callers that were given a connection to one target were given the same one,
\* however their dials interleave and whichever name they used for it (Dial's
\* documentation).
OneConnPerTarget ==
    \A p, q \in Callers :
        /\ pc[p] = "returned" /\ pc[q] = "returned"
        /\ key[p] = key[q]
        /\ held[p] \in Conns /\ held[q] \in Conns
        => held[p] = held[q]

\* A caller never holds a connection that the manager has closed, unless the
\* manager itself is closed: a connection that lost a race is never handed out.
HandedOutOpen ==
    \A p \in Callers : pc[p] = "returned" /\ held[p] \in Conns =>
        connState[held[p]] = "open" \/ closed

\* Once a Close has returned, nothing is cached and nothing that was ever cached
\* is open, also when some connection failed to close and when the Close was not
\* the first.
ClosedMeansClosed ==
    (\E x \in Closers : closePc[x] = "returned") =>
        /\ closed
        /\ \A k \in Keys : conns[k] = NoConn
        /\ \A c \in published : connState[c] = "closed"

\* Every Dial returns, also when Close comes in between.
DialReturns ==
    \A p \in Callers :
        pc[p] \in {"fast", "slow", "dial", "publish"} ~> pc[p] = "returned"

\* The pool as the callers see it: empty from the moment Close is decided.
poolView == [k \in Keys |-> IF closed THEN NoConn ELSE conns[k]]

callView ==
    [p \in Callers |->
        CASE pc[p] = "idle"     -> [key |-> NoTarget, answer |-> "none"]
          [] pc[p] = "returned" -> [key |-> key[p], answer |-> held[p]]
          [] OTHER              -> [key |-> key[p], answer |-> "pending"]]

Pool == INSTANCE ConnectionPool
        WITH pool <- poolView, issued <- published, calls <- callView

\* The manager implements the atomic pool.
ImplementsPool == Pool!Spec

\* Every dial the pool is asked for is answered, too.
ImplementsLivePool == Pool!LiveSpec

=============================================================================
