------------------------------- MODULE Multimap -------------------------------
(***************************************************************************)
(* shad::Multimap: a key has a sequence of values.  It reaches the         *)
(* LocalMultimap of a key as Hashmap does; it differs in what it does      *)
(* asynchronously, in lookups, and in Apply, which works on a copy of the  *)
(* values when the key is at home.                                         *)
(***************************************************************************)
EXTENDS Questions

Local(t, k) == TargetLocality(k) = Home[t]

Insert(t, k) == OneStep(t, "Insert", k, "insert") /\ Promise(k)
AsyncInsert(t, k) == 
  /\ ByActivity(t, "AsyncInsert", k, "insert", ~ Local(t, k)) 
  /\ Later(t, "async", k)

BufferedInsert(t, k) == InsertBuffered(t, "BufferedInsert", k)
BufferedAsyncInsert(t, k) == AsyncInsertBuffered(t, "BufferedAsyncInsert", k)
WaitForBufferedInsert(t) == FlushAllBuffers(t)
AsyncWaitForBufferedInsert(t) == AsyncFlushAllBuffers(t)

(* Each key has a file with one record; a loop over all localities reads   *)
(* the files, each with BufferedAsyncInsert where its index happens to run. *)
readFromFiles(t) == 
  /\ Calling(t, "readFromFiles") /\ ~ FlushUnderWay
  /\ Leaving(t, {Activity(t, TRUE, 0, [op |-> "read", key |-> k]) : k \in Keys})
  /\ pending' = [pending EXCEPT ![t].both = [k \in Keys |-> @[k] + 1]]
  /\ UNCHANGED <<memory, look, promised, dropped>>

RunRead(a) == 
  /\ a.work.op = "read"
  /\ \E l \in Localities : 
       /\ Fill(l, a.work.key)
       /\ Running(a, IF IsFull(l, a.work.key) 
            THEN {[a EXCEPT !.at = TargetLocality(a.work.key), 
                            !.work = Delivery(l, InBuffer(l, a.work.key))]} 
            ELSE {})
  /\ NoHistory /\ UNCHANGED <<mem, look>>

Erase(t, k) == OneStep(t, "Erase", k, "erase") /\ Drop({k})
AsyncErase(t, k) == 
  /\ ByActivity(t, "AsyncErase", k, "erase", ~ Local(t, k)) /\ Drop({k})
Clear(t) == ClearAll(t, "Clear")

Apply(t, k) == 
  /\ \/ ~ Local(t, k) /\ OneStep(t, "Apply", k, "apply")
     \/ /\ Local(t, k) /\ Calling(t, "Apply") 
        /\ AtOnce /\ UNCHANGED <<memory, look>>
  /\ NoHistory
AsyncApply(t, k) == 
  ByActivity(t, "AsyncApply", k, "apply", FALSE) /\ NoHistory
AsyncApplyWithRetBuff(t, k) == 
  ByActivity(t, "AsyncApplyWithRetBuff", k, "apply", FALSE) /\ NoHistory
BlockingApply(t, k) == OneStep(t, "BlockingApply", k, "apply") /\ NoHistory
AsyncBlockingApply(t, k) == 
  /\ \/ Local(t, k) /\ OneStep(t, "AsyncBlockingApply", k, "apply")
     \/ ~ Local(t, k) /\ ByActivity(t, "AsyncBlockingApply", k, "apply", FALSE)
  /\ NoHistory
TryBlockingApply(t, k) == 
  /\ \/ OneStep(t, "TryBlockingApply", k, "apply")
     \/ Calling(t, "TryBlockingApply") /\ AtOnce /\ UNCHANGED <<memory, look>>
  /\ NoHistory

(* From another locality, the values are copied there before AsyncLookup   *)
(* returns and fetched later, by an activity if there are any.             *)
Lookup(t, k) == LookUp(t, "Lookup", k, TargetLocality(k))
AsyncLookup(t, k) == 
  LET values == mem[TargetLocality(k)][k] IN
    \/ Local(t, k) /\ AsyncLookUp(t, "AsyncLookup", k, Home[t])
    \/ /\ ~ Local(t, k) /\ Asking(t, "AsyncLookup", "lookup", k, <<>>)
       /\ IF values = <<>> THEN Looked(t) /\ UNCHANGED <<acts, handle>>
          ELSE Leaving(t, {Activity(t, TRUE, TargetLocality(k), 
                             [op |-> "fetch", values |-> values])})

RunFetch(a) == 
  /\ a.work.op = "fetch" /\ Running(a, {}) /\ Answer(a.task, a.work.values)
  /\ NoHistory /\ UNCHANGED memory

\* the localities in order, and for the keys its own first
Size(t) == Summing(t, "Size", "values", 0, Ascending(Localities))
NumberKeys(t) == 
  Summing(t, "NumberKeys", "keys", Counted(Home[t], "keys"), 
          Ascending(Localities \ {Home[t]}))

ForEachEntry(t) == ForEach(t, "ForEachEntry")
AsyncForEachEntry(t) == AsyncForEach(t, "AsyncForEachEntry")
ForEachKey(t) == ForEach(t, "ForEachKey")
AsyncForEachKey(t) == AsyncForEach(t, "AsyncForEachKey")

multimap_begin(t) == Begin(t, "Iterate")
getLocBeginIt(t) == GetLocBeginIt(t)
increment(t) == PlusPlus(t)

Next == 
  \/ \E t \in Tasks : 
       \/ \E k \in Keys : 
            \/ Insert(t, k) \/ AsyncInsert(t, k) 
            \/ BufferedInsert(t, k) \/ BufferedAsyncInsert(t, k)
            \/ Erase(t, k) \/ AsyncErase(t, k) 
            \/ Apply(t, k) \/ AsyncApply(t, k) \/ AsyncApplyWithRetBuff(t, k)
            \/ BlockingApply(t, k) \/ AsyncBlockingApply(t, k) 
            \/ TryBlockingApply(t, k) \/ Lookup(t, k) \/ AsyncLookup(t, k)
       \/ WaitForBufferedInsert(t) \/ AsyncWaitForBufferedInsert(t)
       \/ readFromFiles(t) \/ Clear(t) \/ Size(t) \/ NumberKeys(t)
       \/ ForEachEntry(t) \/ AsyncForEachEntry(t)
       \/ ForEachKey(t) \/ AsyncForEachKey(t)
       \/ multimap_begin(t) \/ getLocBeginIt(t) \/ increment(t)
  \/ \E a \in acts : RunRead(a) \/ RunFetch(a)

(* Iterators point into the vector of a key's values: a program does not   *)
(* change those of a key on which an iterator stands.                      *)
IteratorsValid == 
  \A t \in Tasks : doing[t].op = "walking" => 
    LET l == doing[t].at
        k == doing[t].entry[1] 
    IN  mem'[l][k] = mem[l][k]
=============================================================================
