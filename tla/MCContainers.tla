----------------------------- MODULE MCContainers -----------------------------
(***************************************************************************)
(* Instances of Containers for TLC: three localities, of which the middle  *)
(* one has no key, and two tasks on the other two.                         *)
(***************************************************************************)
EXTENDS Containers

CONSTANTS t1, t2

McHome == [t \in Tasks |-> IF t = t1 THEN 0 ELSE 2]
Identity == [k \in Keys |-> k]

Program(kinds, contents, bound, operations) == 
  [kinds |-> kinds, contents |-> contents, calls |-> bound, 
   operations |-> operations]

Distributed == {"hashmap", "multimap", "set"}

Insertions == Program(Distributed, {{}, {2, 5}}, 2, 
  {"Insert", "InsertWith", "AsyncInsert", "AsyncInsertWith", "BufferedInsert", 
   "BufferedAsyncInsert", "Flush", "Lookup"})
Buffering == Program({"multimap"}, {{}}, 3, 
  {"BufferedInsert", "BufferedAsyncInsert", "Flush"})
Files == Program({"multimap"}, {{}}, 1, {"readFromFiles", "Flush"})
Changes == Program(Distributed, {{}, {2, 5}}, 2, 
  {"Insert", "AsyncErase", "Apply", "AsyncApply", "AsyncApplyWithRetBuff", 
   "BlockingApply", "AsyncBlockingApply", "TryBlockingApply", "Lookup", 
   "AsyncLookup", "AsyncInsert"})
Counts == Program(Distributed, {{2, 5}}, 3, 
  {"Insert", "Erase", "AsyncInsert", "Clear", "Size", "NumberKeys"})
Iterations == Program(Distributed, {{2, 5}}, 3, 
  {"Insert", "Erase", "Reset", "Iterate"})
Traversals == Program(Distributed, {{2, 5}}, 2, 
  {"Insert", "Erase", "ForEachEntry", "ForEachKey"})
AsyncTraversals == Program(Distributed, {{2, 5}}, 2, 
  {"Insert", "Erase", "AsyncForEachEntry", "AsyncForEachKey"})
Replicas == Program({"replicated"}, {{}, {2, 5}}, 2, 
  {"AsyncInsert", "BufferedAsyncInsert", "Clear", "Lookup", "Size"})

McPrograms == 
  {Insertions, Buffering, Files, Changes, Counts, Iterations, Traversals, 
   AsyncTraversals, Replicas}
=============================================================================
