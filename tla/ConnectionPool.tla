--------------------------- MODULE ConnectionPool ---------------------------
(***************************************************************************)
(* What a connection manager promises its callers, without the locks: a    *)
(* map from targets to connections that every dial looks up and extends in *)
(* one step, until Close empties it for good.                              *)
(***************************************************************************)
CONSTANTS
    Callers,
    Keys,
    Conns,
    NoTarget,        \* the key of a caller that has not asked
    NoConn,          \* nothing is kept for a target
    Failed,          \* the answer to a dial that returned an error of its own
    ClosedErr        \* ErrConnectionManagerClosed

VARIABLES
    pool,            \* the connection kept for each target
    closed,
    issued,          \* connections that were ever kept
    calls            \* what each caller asked for, and the answer once it has it

Idle == [key |-> NoTarget, answer |-> "none"]
Pending(k) == [key |-> k, answer |-> "pending"]
Answered(k, a) == [key |-> k, answer |-> a]

Init ==
    /\ pool = [k \in Keys |-> NoConn]
    /\ closed = FALSE
    /\ issued = {}
    /\ calls = [p \in Callers |-> Idle]

Ask(p, k) ==
    /\ calls[p] = Idle
    /\ calls' = [calls EXCEPT ![p] = Pending(k)]
    /\ UNCHANGED <<pool, closed, issued>>

Reuse(p, k) ==
    /\ calls[p] = Pending(k)
    /\ ~closed
    /\ pool[k] # NoConn
    /\ calls' = [calls EXCEPT ![p] = Answered(k, pool[k])]
    /\ UNCHANGED <<pool, closed, issued>>

Create(p, k, c) ==
    /\ calls[p] = Pending(k)
    /\ ~closed
    /\ pool[k] = NoConn
    /\ c \notin issued
    /\ pool' = [pool EXCEPT ![k] = c]
    /\ issued' = issued \cup {c}
    /\ calls' = [calls EXCEPT ![p] = Answered(k, c)]
    /\ UNCHANGED closed

Refuse(p, k) ==
    /\ calls[p] = Pending(k)
    /\ closed
    /\ calls' = [calls EXCEPT ![p] = Answered(k, ClosedErr)]
    /\ UNCHANGED <<pool, closed, issued>>

Fail(p, k) ==
    /\ calls[p] = Pending(k)
    /\ calls' = [calls EXCEPT ![p] = Answered(k, Failed)]
    /\ UNCHANGED <<pool, closed, issued>>

Forget(p) ==
    /\ calls[p].answer \notin {"none", "pending"}
    /\ calls' = [calls EXCEPT ![p] = Idle]
    /\ UNCHANGED <<pool, closed, issued>>

Close ==
    /\ ~closed
    /\ closed' = TRUE
    /\ pool' = [k \in Keys |-> NoConn]
    /\ UNCHANGED <<issued, calls>>

Next ==
    \/ \E p \in Callers, k \in Keys :
         \/ Ask(p, k)
         \/ Reuse(p, k)
         \/ \E c \in Conns : Create(p, k, c)
         \/ Refuse(p, k)
         \/ Fail(p, k)
    \/ \E p \in Callers : Forget(p)
    \/ Close

vars == <<pool, closed, issued, calls>>

Spec == Init /\ [][Next]_vars

\* A dial that was asked for is answered.
Answers == \A p \in Callers : WF_vars(\E k \in Keys :
               Reuse(p, k) \/ (\E c \in Conns : Create(p, k, c)) \/ Refuse(p, k)
               \/ Fail(p, k))

LiveSpec == Spec /\ Answers
=============================================================================
