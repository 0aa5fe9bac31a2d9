----------------------------- MODULE ServicePath -----------------------------
(***************************************************************************)
(* From a service's name to a connection: the registry (DnsRegistry) and   *)
(* the connection manager (ConnectionManager) in one, as a call of         *)
(* RemoteServiceManaged.Invoke goes through both.  What Build returned is  *)
(* the key under which Dial looks for a connection, while other goroutines *)
(* resolve names, fill blanks, dial and close the manager.                 *)
(***************************************************************************)
EXTENDS DnsRegistry

CONSTANTS
    Closers, Conns, NoConn, Failed, ClosedErr

\* Every key that some registry leads to.
Keys ==
    {TargetOf([f \in DOMAIN d |-> IF f \in FieldNames /\ Blank(d[f])
                                  THEN DefaultOf(f) ELSE d[f]]) :
        d \in UNION {{list[i] : i \in DOMAIN list} : list \in ItemLists}}
    \ {Invalid}

VARIABLES
    conns, closed, mu, connState, published,    \* see ConnectionManager
    dialPc, key, held, closePc, closeErr,
    dialedFor        \* history: the key each connection was dialed for

managerVars == <<conns, closed, mu, connState, published, dialPc, key, held, closePc,
                 closeErr>>
pathVars == <<vars, managerVars, dialedFor>>

\* A name is resolved already, and an invalid one does not get as far as the lock.
Manager == INSTANCE ConnectionManager
           WITH Names <- Keys, Target <- [k \in Keys |-> k], NoKey <- Invalid,
                pc <- dialPc

ASSUME PathAssumption ==
    /\ {NoTarget, NotFound} \cap Keys = {}
    /\ Manager!ConnsAssumption
    /\ Manager!ClosersAssumption

PathInit ==
    /\ Init
    /\ Manager!Init
    /\ dialedFor = [c \in Conns |-> NoTarget]

\* Dial resolves the DNS first.
Resolve(p) ==
    /\ dialPc[p] = "idle"
    /\ \/ \E n \in Names : TakeCopy(p, n) \/ InvokeUnknown(p, n)
       \/ \E s \in Slots : Invoke(p, s)
       \/ FieldIsSet(p) \/ FieldIsBlank(p) \/ FillField(p) \/ Build(p)
    /\ UNCHANGED <<managerVars, dialedFor>>

Dial(p) ==
    /\ pc[p] = "built"
    /\ target[p] \in Keys
    /\ Manager!DialBegins(p, target[p])
    /\ UNCHANGED <<vars, dialedFor>>

DialProceeds(p) ==
    /\ Manager!DialProceeds(p)
    /\ dialedFor' = [c \in Conns |->
         IF connState[c] = "unborn" /\ connState'[c] = "open" THEN key[p]
         ELSE dialedFor[c]]
    /\ UNCHANGED vars

\* The call is over, with an answer of the connection or with an error.
InvokeEnds(p) ==
    /\ CallEnds(p)
    /\ IF dialPc[p] = "idle" THEN target[p] \notin Keys /\ UNCHANGED managerVars
       ELSE Manager!CallerMovesOn(p)
    /\ UNCHANGED dialedFor

Close(x) ==
    /\ Manager!CloseProceeds(x)
    /\ UNCHANGED <<vars, dialedFor>>

PathNext ==
    \/ \E p \in Callers : Resolve(p) \/ Dial(p) \/ DialProceeds(p) \/ InvokeEnds(p)
    \/ \E x \in Closers : Close(x)

PathSpec == PathInit /\ [][PathNext]_pathVars

-----------------------------------------------------------------------------
(* Properties.                                                             *)

Connected(p) == dialPc[p] = "returned" /\ held[p] \in Conns
NameBehind(p) == TrimName(entry[slot[p]].Service)

\* Callers of one service share one connection, and callers of two do just when the
\* registry spells the same target for both, whether they came through the registry or
\* through copies taken before or after its blanks were filled.  While the manager is
\* open, that connection leads where the owner of the registry meant it to.
SharedByName ==
    \A p, q \in Callers : Connected(p) /\ Connected(q) =>
        /\ held[p] = held[q] <=> Intended(NameBehind(p)) = Intended(NameBehind(q))
        /\ dialedFor[held[p]] \in Intended(NameBehind(p))
=============================================================================
