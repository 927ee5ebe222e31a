------------------------ MODULE MCLocalHashmapErase -------------------------
(***************************************************************************)
(* Instances of LocalHashmapErase for TLC.                                 *)
(***************************************************************************)
EXTENDS LocalHashmapErase, TLC

CONSTANTS t1, t2, k1, k2, k3, k4

TwoTasks == {t1, t2}
FourKeys == {k1, k2, k3, k4}

\* two tasks erase, never the same key, and leave k4 alone
DisjointErases == [t \in Threads |-> IF t = t1 THEN {k1} ELSE {k2, k3}]
=============================================================================
