------------------------------ MODULE MCBuffer ------------------------------
(***************************************************************************)
(* Instances of Buffer for TLC: two tasks fill a buffer more than once,    *)
(* leave a rest for FlushAll, and meet its flush.                          *)
(***************************************************************************)
EXTENDS Buffer

CONSTANTS t1, t2

TwoTasks == {t1, t2}
FirstTask == {t1}

SixAndFour == [t \in Tasks |-> IF t = t1 THEN 6 ELSE 4]
=============================================================================
