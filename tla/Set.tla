--------------------------------- MODULE Set ---------------------------------
(***************************************************************************)
(* shad::Set: a Hashmap without values, over the LocalSet, whose           *)
(* AsyncInsert starts an activity in any case.                             *)
(***************************************************************************)
EXTENDS Questions

Local(t, k) == TargetLocality(k) = Home[t]

Insert(t, k) == OneStep(t, "Insert", k, "insert") /\ Promise(k)
AsyncInsert(t, k) == 
  /\ ByActivity(t, "AsyncInsert", k, "insert", ~ Local(t, k)) 
  /\ Later(t, "async", k)

BufferedInsert(t, k) == InsertBuffered(t, "BufferedInsert", k)
BufferedAsyncInsert(t, k) == AsyncInsertBuffered(t, "BufferedAsyncInsert", k)
WaitForBufferedInsert(t) == FlushAllBuffers(t)
AsyncWaitForBufferedInsert(t) == AsyncFlushAllBuffers(t)

Erase(t, k) == OneStep(t, "Erase", k, "erase") /\ Drop({k})
AsyncErase(t, k) == 
  /\ ByActivity(t, "AsyncErase", k, "erase", ~ Local(t, k)) /\ Drop({k})

\* Reset also gives the local sets another number of buckets
Clear(t) == ClearAll(t, "Clear")
Reset(t) == ClearAll(t, "Reset")

Find(t, k) == LookUp(t, "Lookup", k, TargetLocality(k))
AsyncFind(t, k) == AsyncLookUp(t, "AsyncLookup", k, TargetLocality(k))

Size(t) == 
  Summing(t, "Size", "values", Counted(Home[t], "values"), 
          Ascending(Localities \ {Home[t]}))

ForEachElement(t) == ForEach(t, "ForEachKey")
AsyncForEachElement(t) == AsyncForEach(t, "AsyncForEachKey")

set_begin(t) == Begin(t, "Iterate")
getLocBeginIt(t) == GetLocBeginIt(t)
increment(t) == PlusPlus(t)

Next == 
  \E t \in Tasks : 
    \/ \E k \in Keys : 
         \/ Insert(t, k) \/ AsyncInsert(t, k) 
         \/ BufferedInsert(t, k) \/ BufferedAsyncInsert(t, k)
         \/ Erase(t, k) \/ AsyncErase(t, k) \/ Find(t, k) \/ AsyncFind(t, k)
    \/ WaitForBufferedInsert(t) \/ AsyncWaitForBufferedInsert(t)
    \/ Clear(t) \/ Reset(t) \/ Size(t)
    \/ ForEachElement(t) \/ AsyncForEachElement(t)
    \/ set_begin(t) \/ getLocBeginIt(t) \/ increment(t)
=============================================================================
