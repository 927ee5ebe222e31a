----------------------------- MODULE MCCatalog ------------------------------
(***************************************************************************)
(* Instances of Catalog for TLC.                                           *)
(***************************************************************************)
EXTENDS Catalog

CONSTANTS l1, l2, t1, t2, t3

TwoLocalities == {l1, l2}
ThreeTasks == {t1, t2, t3}

\* the second task on another locality
Apart == [t \in Tasks |-> IF t = t2 THEN l2 ELSE l1]
=============================================================================
