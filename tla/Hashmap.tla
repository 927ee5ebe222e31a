------------------------------- MODULE Hashmap -------------------------------
(***************************************************************************)
(* shad::Hashmap: an operation goes to the locality of its key, or to all  *)
(* localities, and there to the LocalHashmap.  Insert also computes        *)
(* begin(), for the iterator it returns; that only reads and is left out.  *)
(***************************************************************************)
EXTENDS Questions

\* at home, AsyncInsert inserts before it returns
Local(t, k) == TargetLocality(k) = Home[t]

Insert(t, k) == OneStep(t, "Insert", k, "insert") /\ Promise(k)
InsertWith(t, k) == OneStep(t, "InsertWith", k, "keep") /\ Promise(k)

AsyncInsert(t, k) == 
  \/ Local(t, k) /\ OneStep(t, "AsyncInsert", k, "insert") /\ Promise(k)
  \/ /\ ~ Local(t, k) /\ ByActivity(t, "AsyncInsert", k, "insert", FALSE) 
     /\ Later(t, "async", k)

AsyncInsertWith(t, k) == 
  \/ Local(t, k) /\ OneStep(t, "AsyncInsertWith", k, "keep") /\ Promise(k)
  \/ /\ ~ Local(t, k) /\ ByActivity(t, "AsyncInsertWith", k, "keep", FALSE)
     /\ Later(t, "async", k)

BufferedInsert(t, k) == InsertBuffered(t, "BufferedInsert", k)
BufferedAsyncInsert(t, k) == AsyncInsertBuffered(t, "BufferedAsyncInsert", k)
WaitForBufferedInsert(t) == FlushAllBuffers(t)
AsyncWaitForBufferedInsert(t) == AsyncFlushAllBuffers(t)

\* AsyncErase of the local map starts an activity in any case
Erase(t, k) == OneStep(t, "Erase", k, "erase") /\ Drop({k})
AsyncErase(t, k) == 
  /\ ByActivity(t, "AsyncErase", k, "erase", ~ Local(t, k)) /\ Drop({k})
Clear(t) == ClearAll(t, "Clear")

Apply(t, k) == OneStep(t, "Apply", k, "apply") /\ NoHistory
AsyncApply(t, k) == 
  ByActivity(t, "AsyncApply", k, "apply", FALSE) /\ NoHistory

\* SUCCESS or NOT_FOUND; FAILED while another update of the entry goes on
TryBlockingApply(t, k) == 
  /\ \/ OneStep(t, "TryBlockingApply", k, "apply")
     \/ Calling(t, "TryBlockingApply") /\ AtOnce /\ UNCHANGED <<memory, look>>
  /\ NoHistory

\* mutant: a lookup looks at home
LookupAtHome(t, k) == LookUp(t, "Lookup", k, Home[t])
Lookup(t, k) == LookUp(t, "Lookup", k, TargetLocality(k))
AsyncLookup(t, k) == AsyncLookUp(t, "AsyncLookup", k, TargetLocality(k))

\* mutant: its own locality is counted again
SizeTwice(t) == 
  Summing(t, "Size", "values", Counted(Home[t], "values"), 
          Ascending(Localities))
\* its own locality first, then the others in order
Size(t) == 
  Summing(t, "Size", "values", Counted(Home[t], "values"), 
          Ascending(Localities \ {Home[t]}))

ForEachEntry(t) == ForEach(t, "ForEachEntry")
AsyncForEachEntry(t) == AsyncForEach(t, "AsyncForEachEntry")
ForEachKey(t) == ForEach(t, "ForEachKey")
AsyncForEachKey(t) == AsyncForEach(t, "AsyncForEachKey")

\* begin() at locality 0 and ++ where the iterator stands
map_begin(t) == Begin(t, "Iterate")
getLocBeginIt(t) == GetLocBeginIt(t)
increment(t) == PlusPlus(t)

Next == 
  \/ \E t \in Tasks : 
       \/ \E k \in Keys : 
            \/ Insert(t, k) \/ InsertWith(t, k) 
            \/ AsyncInsert(t, k) \/ AsyncInsertWith(t, k)
            \/ BufferedInsert(t, k) \/ BufferedAsyncInsert(t, k)
            \/ Erase(t, k) \/ AsyncErase(t, k) 
            \/ Apply(t, k) \/ AsyncApply(t, k) \/ TryBlockingApply(t, k)
            \/ Lookup(t, k) \/ AsyncLookup(t, k)
       \/ WaitForBufferedInsert(t) \/ AsyncWaitForBufferedInsert(t)
       \/ Clear(t) \/ Size(t) \/ map_begin(t)
       \/ ForEachEntry(t) \/ AsyncForEachEntry(t)
       \/ ForEachKey(t) \/ AsyncForEachKey(t)
       \/ getLocBeginIt(t) \/ increment(t)
=============================================================================
