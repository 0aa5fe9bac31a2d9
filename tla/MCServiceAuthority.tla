------------------------- MODULE MCServiceAuthority -------------------------
(***************************************************************************)
(* Small instances of ServiceAuthority for TLC.                            *)
(***************************************************************************)
EXTENDS ServiceAuthority

CONSTANTS c1, c2

OneContext == {c1}
TwoContexts == {c1, c2}
NoContexts == {}

ShortestTTL == {2}
ShortTTL == {3}
TwoTTLs == {3, 5}
LongTTLs == {12, 13}
=============================================================================
