------------------------ MODULE MCConnectionManager ------------------------
(***************************************************************************)
(* Small instances of ConnectionManager: two spellings of one service and  *)
(* a second service.                                                       *)
(***************************************************************************)
EXTENDS ConnectionManager, TLC

CONSTANTS p1, p2, p3, x1, x2, k1, k2, conn1, conn2, conn3

TwoCallers == {p1, p2}
ThreeCallers == {p1, p2, p3}
OneCloser == {x1}
TwoClosers == {x1, x2}
TwoKeys == {k1, k2}
SomeNames == {"short", "full", "other", "malformed"}
TargetOfName == [n \in SomeNames |->
    CASE n \in {"short", "full"} -> k1
      [] n = "other"             -> k2
      [] OTHER                   -> NoKey]
ThreeConns == {conn1, conn2, conn3}
TwoConns == {conn1, conn2}

Symmetric == Permutations(ThreeCallers) \cup Permutations(ThreeConns)
             \cup Permutations(TwoClosers)
=============================================================================
