----------------------------- MODULE MCElements -----------------------------
(***************************************************************************)
(* Instances of ElementPrograms for TLC: three localities and two tasks;   *)
(* arrays with fewer elements than localities and with chunks of different *)
(* sizes; vectors that are empty, end within a block or at its end.        *)
(***************************************************************************)
EXTENDS ElementPrograms

CONSTANTS t1, t2

McHome == [t \in Tasks |-> IF t = t1 THEN 0 ELSE 1]

Program(kinds, sizes, bound, ranges, operations) == 
  [kinds |-> kinds, sizes |-> sizes, calls |-> bound, ranges |-> ranges,
   operations |-> operations]

Arrays == Program({"array"}, {2, 4, 5}, 2, {<<0, 2>>, <<0, 5>>, <<1, 1>>, <<1, 3>>}, 
  {"InsertOneAt", "AsyncInsertOneAt", "InsertRangeAt", "AsyncInsertRangeAt", "At", 
   "AsyncAt", "Apply", "AsyncApply", "AsyncApplyWithRetBuff", "ForEachInRange", 
   "AsyncForEachInRange", "ForEach", "AsyncForEach", "AsyncGetElements", 
   "AsyncPutElements", "exclusiveScan"})
Growth == Program({"vector"}, {0, 2, 3}, 3, {<<0, 3>>, <<2, 2>>, <<3, 2>>}, 
  {"PushBack", "Reserve", "Resize", "InsertRangeAt", "AsyncInsertRangeAt", 
   "Clear", "At"})
Uses == Program({"vector"}, {3, 5}, 2, {<<0, 2>>, <<1, 3>>, <<2, 3>>}, 
  {"PushBack", "InsertOneAt", "AsyncInsertOneAt", "At", "AsyncAt", "Back", "Apply", 
   "AsyncApply", "ForEachInRange", "AsyncForEachInRange"})
Atomics == Program({"atomic"}, {1}, 3, {}, 
  {"load", "store", "add", "try", "force", "exchange", "async"})

McPrograms == {Arrays, Growth, Uses, Atomics}
=============================================================================
